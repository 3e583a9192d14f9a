----------------------------- MODULE CallProofs -----------------------------
(***************************************************************************)
(* Proofs about calls (services/call-service/main.go) and pushes (pusher,  *)
(* notification-service), for any peers, devices, workers, ids and faults. *)
(***************************************************************************)
EXTENDS CallService, Notifications, TLAPS

(***************************************************************************)
(* CallService.                                                            *)
(***************************************************************************)
SetupOps == {"peer", "online", "save"}
LaterOps == {"accept", "confirm", "discard", "delete"}

Busy(w) == job[w] # NoCall

\* A call being set up is not recorded, nobody else works on it, and it holds its
\* slots, and no others, unless it is known to have lost one.
SetupRight(w) ==
  LET j == job[w] IN
  /\ j.caller # j.callee /\ call[j.id] = NoCall
  /\ \A v \in Handlers : v # w /\ Busy(v) => job[v].id # j.id
  /\ \A u \in Peers : slot[u] = j.id => u = j.caller \/ (u = j.callee /\ j.op # "peer")
  /\ j.id \notin unguarded => slot[j.caller] = j.id /\ (j.op # "peer" => slot[j.callee] = j.id)

\* A request on a recorded call knows its parties; without a fault a discard has
\* released every slot of the call before it deletes the record.
LaterRight(w) ==
  LET j == job[w] IN
  /\ j.seen \in CallRecords /\ j.seen.caller = j.caller /\ j.seen.callee = j.callee
  /\ \A u \in Peers : slot[u] = j.id => u \in Parties(j)
  /\ j.op = "delete" /\ callFaults = 0 => \A u \in Peers : slot[u] # j.id

JobRight(w) == Busy(w) => /\ job[w] \in Jobs /\ job[w].id < nextId
                          /\ job[w].op \in SetupOps => SetupRight(w)
                          /\ job[w].op \in LaterOps => LaterRight(w)

\* Only the parties of a recorded call hold slots for it; while it goes on, both do.
RecordRight(i) == call[i] # NoCall =>
  /\ i < nextId
  /\ \A u \in Peers : slot[u] = i => u \in Parties(call[i])
  /\ Live(i) /\ i \notin unguarded => \A u \in Parties(call[i]) : slot[u] = i

CallInv ==
  /\ CallTypeOK /\ callFaults \in 0..MaxCallFaults /\ DOMAIN job = Handlers
  /\ \A u \in Peers : slot[u] # NoCall => slot[u] < nextId
  /\ \A w \in Handlers : JobRight(w)
  /\ \A i \in Ids : RecordRight(i)
  /\ StuckOnlyByFault

\* NoCall is none of the values it stands in for.
LEMMA NoCallApart == NoCall \notin Ids /\ NoCall \notin Jobs /\ NoCall \notin CallRecords
BY CallServiceAssumption DEF Ids

\* No slot, no record and no request.
LEMMA CallInitInv == CallInit => CallInv
<1> SUFFICES ASSUME CallInit PROVE CallInv
  BY Zenon
<1>1. CallTypeOK /\ callFaults \in 0..MaxCallFaults /\ DOMAIN job = Handlers
  BY CallServiceAssumption DEF CallInit, CallTypeOK
<1> QED
  BY <1>1, Zenon DEF CallInit, CallInv, JobRight, Busy, RecordRight, StuckOnlyByFault

\* What a step on call i must show: the requests in W are those it changes, and
\* another call loses a slot to it only by becoming unguarded.
StepOn(i, W) ==
  /\ CallTypeOK' /\ callFaults' \in 0..MaxCallFaults /\ DOMAIN job' = Handlers
  /\ nextId' >= nextId /\ unguarded \subseteq unguarded' /\ (callFaults' = 0 => callFaults = 0)
  /\ \A v \in Handlers \ W :
       /\ job'[v] = job[v]
       /\ Busy(v) /\ job[v].id = i => /\ job[v].op \in LaterOps
                                      /\ \A u \in Peers : slot'[u] = i => slot[u] = i
  /\ \A v \in W : job[v] \in {NoCall} \/ job[v].id = i
  /\ \A v \in W : job'[v] \in {NoCall} \/ job'[v].id = i
  /\ \A k \in Ids \ {i} : call'[k] = call[k]
  /\ \A k \in Ids \ {i}, u \in Peers : /\ slot'[u] = k => slot[u] = k
                                       /\ slot[u] = k => slot'[u] = k \/ k \in unguarded'

\* A step on one call leaves what is known of the others.
LEMMA OthersStand ==
  ASSUME CallInv, NEW i \in Ids, NEW W \in SUBSET Handlers, StepOn(i, W)
  PROVE  /\ \A v \in Handlers \ W : JobRight(v)'
         /\ \A k \in Ids \ {i} : RecordRight(k)'
         /\ \A u \in Peers, k \in Ids \ {i} : slot'[u] = k =>
              k < nextId' /\ (callFaults' = 0 => call'[k] # NoCall \/ SettingUp(k)')
<1>1. ASSUME NEW v \in Handlers \ W, Busy(v)' PROVE JobRight(v)'
  <2> DEFINE j == job[v]
  <2>1. job'[v] = j /\ Busy(v) /\ JobRight(v) /\ j \in Jobs /\ j.id \in Ids /\ j.id < nextId'
    BY <1>1 DEF StepOn, Busy, CallInv, JobRight, Jobs, CallTypeOK, Ids
  <2>2. ASSUME j.op \in SetupOps PROVE SetupRight(v)'
    <3>1. SetupRight(v) /\ j.id # i
      BY <1>1, <2>1, <2>2, Zenon DEF JobRight, StepOn, SetupOps, LaterOps
    <3>2. call'[j.id] = NoCall
      BY <2>1, <3>1, Zenon DEF StepOn, SetupRight
    <3>3. ASSUME NEW x \in Handlers, x # v, Busy(x)' PROVE job'[x].id # j.id
      <4>1. CASE x \in W
        BY <3>1, <3>3, <4>1, Zenon DEF StepOn, Busy
      <4>2. CASE x \notin W
        BY <3>1, <3>3, <4>2, Zenon DEF StepOn, Busy, SetupRight
      <4> QED
        BY <4>1, <4>2, Zenon
    <3>4. \A u \in Peers : slot'[u] = j.id => u = j.caller \/ (u = j.callee /\ j.op # "peer")
      BY <2>1, <3>1, Zenon DEF StepOn, SetupRight
    <3>5. j.id \notin unguarded'
            => slot'[j.caller] = j.id /\ (j.op # "peer" => slot'[j.callee] = j.id)
      <4>1. j.caller \in Peers /\ j.callee \in Peers
        BY <2>1, Zenon DEF Jobs
      <4> QED
        BY <2>1, <3>1, <4>1, Zenon DEF StepOn, SetupRight
    <3> QED
      BY <2>1, <3>1, <3>2, <3>3, <3>4, <3>5, Zenon DEF SetupRight
  <2>3. ASSUME j.op \in LaterOps PROVE LaterRight(v)'
    <3>1. LaterRight(v)
      BY <2>1, <2>3, Zenon DEF JobRight
    <3>2. \A u \in Peers : slot'[u] = j.id => slot[u] = j.id
      BY <1>1, <2>1, Zenon DEF StepOn
    <3>3. callFaults' = 0 => callFaults = 0
      BY Zenon DEF StepOn
    <3> QED
      BY <2>1, <3>1, <3>2, <3>3, Zenon DEF LaterRight, Parties
  <2> QED
    BY <2>1, <2>2, <2>3, Zenon DEF JobRight
<1>2. ASSUME NEW k \in Ids \ {i}, call'[k] # NoCall PROVE RecordRight(k)'
  <2>1. call'[k] = call[k] /\ RecordRight(k) /\ call[k] # NoCall
    BY <1>2, Zenon DEF StepOn, CallInv
  <2>2. Live(k)' => Live(k)
    BY <2>1, Zenon DEF StepOn, Live, At
  <2>3. k < nextId'
    BY <2>1 DEF RecordRight, StepOn, CallInv, CallTypeOK, Ids
  <2>4. \A u \in Peers : slot'[u] = k => u \in Parties(call[k])
    BY <2>1, Zenon DEF RecordRight, StepOn
  <2>5. Live(k)' /\ k \notin unguarded' => \A u \in Parties(call[k]) : slot'[u] = k
    <3>1. Parties(call[k]) \subseteq Peers
      BY <2>1, Zenon DEF CallInv, CallTypeOK, CallRecords, Parties
    <3> QED
      BY <2>1, <2>2, <3>1, Zenon DEF RecordRight, StepOn
  <2> QED
    BY <2>1, <2>3, <2>4, <2>5, Zenon DEF RecordRight
<1>3. ASSUME NEW u \in Peers, NEW k \in Ids \ {i}, slot'[u] = k
      PROVE  k < nextId' /\ (callFaults' = 0 => call'[k] # NoCall \/ SettingUp(k)')
  <2>1. slot[u] = k
    BY <1>3, Zenon DEF StepOn
  <2>2. k < nextId'
    BY <2>1, NoCallApart DEF CallInv, StepOn, CallTypeOK, Ids
  <2>3. SettingUp(k) => SettingUp(k)'
    BY <2>1, Zenon DEF SettingUp, StepOn
  <2>4. callFaults' = 0 => call'[k] # NoCall \/ SettingUp(k)
    BY <2>1, NoCallApart, Zenon DEF CallInv, StuckOnlyByFault, StepOn
  <2> QED
    BY <2>2, <2>3, <2>4, Zenon
<1> QED
  BY <1>1, <1>2, <1>3, Zenon DEF JobRight, RecordRight

\* So a step need only show what it makes of its own call and request.
LEMMA StepInv ==
  ASSUME CallInv, NEW i \in Ids, NEW W \in SUBSET Handlers, StepOn(i, W), i < nextId',
         \A v \in W : JobRight(v)', RecordRight(i)',
         \A u \in Peers : slot'[u] = i /\ callFaults' = 0 => call'[i] # NoCall \/ SettingUp(i)'
  PROVE  CallInv'
<1>1. CallTypeOK' /\ callFaults' \in 0..MaxCallFaults /\ DOMAIN job' = Handlers
  BY Zenon DEF StepOn
<1>2. (\A v \in Handlers : JobRight(v))' /\ (\A k \in Ids : RecordRight(k))'
  BY OthersStand, Zenon
<1>3. (\A u \in Peers : slot[u] # NoCall => slot[u] < nextId)'
  BY <1>1, OthersStand, Zenon DEF CallTypeOK
<1>4. ASSUME NEW u \in Peers, NEW k \in Ids, slot'[u] = k, callFaults' = 0
      PROVE  call'[k] # NoCall \/ SettingUp(k)'
  BY <1>4, OthersStand, Zenon
<1>5. StuckOnlyByFault'
  BY <1>1, <1>4 DEF StuckOnlyByFault, CallTypeOK, SettingUp
<1> QED
  BY <1>1, <1>2, <1>3, <1>5, Zenon DEF CallInv

\* A counted fault stays within its bound, and says so.
LEMMA CallFaultBound ==
  ASSUME CallInv, CallFault \/ UNCHANGED callFaults
  PROVE  callFaults' \in 0..MaxCallFaults /\ (callFaults' = 0 => callFaults = 0)
         /\ (CallFault => callFaults' # 0)
BY CallServiceAssumption DEF CallInv, CallFault

\* Slots are deleted: a call other than i that loses one becomes unguarded.
LEMMA DeleteStep ==
  ASSUME CallInv, NEW i \in Ids, NEW us \in SUBSET Peers, Delete(us, i)
  PROVE  /\ slot' \in [Peers -> Ids \union {NoCall}]
         /\ unguarded' \subseteq Ids /\ unguarded \subseteq unguarded'
         /\ \A u \in Peers, k \in Ids : slot'[u] = k => slot[u] = k /\ u \notin us
         /\ \A u \in Peers, k \in Ids \ {i} : slot[u] = k => slot'[u] = k \/ k \in unguarded'
<1>1. slot \in [Peers -> Ids \union {NoCall}] /\ unguarded \subseteq Ids
  BY Zenon DEF CallInv, CallTypeOK
<1>2. /\ slot' = [u \in Peers |-> IF u \in us THEN NoCall ELSE slot[u]]
      /\ unguarded' = unguarded \union ({slot[u] : u \in us} \ {NoCall, i})
  BY Zenon DEF Delete
<1>3. slot' \in [Peers -> Ids \union {NoCall}]
  BY <1>1, <1>2, Zenon
<1>4. unguarded' \subseteq Ids /\ unguarded \subseteq unguarded'
  BY <1>1, <1>2, Zenon
<1>5. \A u \in Peers, k \in Ids : slot'[u] = k => slot[u] = k /\ u \notin us
  BY <1>2, NoCallApart, Zenon
<1>6. \A u \in Peers, k \in Ids \ {i} : slot[u] = k => slot'[u] = k \/ k \in unguarded'
  BY <1>2, NoCallApart, Zenon
<1> QED
  BY <1>3, <1>4, <1>5, <1>6, Zenon

\* A request that holds a job works on a call that was handed out; while it sets
\* the call up, nobody else works on it.
LEMMA JobFacts ==
  ASSUME CallInv, NEW w \in Handlers, job[w] # NoCall
  PROVE  /\ job[w] \in Jobs /\ job[w].id \in Ids /\ job[w].id < nextId
         /\ job[w].caller \in Peers /\ job[w].callee \in Peers /\ Parties(job[w]) \subseteq Peers
         /\ job[w].op \in SetupOps => SetupRight(w)
         /\ job[w].op \in LaterOps => LaterRight(w)
         /\ \A v \in Handlers \ {w} : Busy(v) /\ job[v].id = job[w].id =>
              job[w].op \in LaterOps /\ job[v].op \in LaterOps
<1>1. JobRight(w)
  BY Zenon DEF CallInv
<1>2. /\ job[w] \in Jobs /\ job[w].id \in Ids /\ job[w].id < nextId
      /\ job[w].caller \in Peers /\ job[w].callee \in Peers /\ Parties(job[w]) \subseteq Peers
      /\ job[w].op \in SetupOps \union LaterOps
  BY <1>1, Zenon DEF JobRight, Busy, Jobs, Parties, SetupOps, LaterOps
<1>3. /\ job[w].op \in SetupOps => SetupRight(w)
      /\ job[w].op \in LaterOps => LaterRight(w)
  BY <1>1, Zenon DEF JobRight, Busy
<1>4. ASSUME NEW v \in Handlers \ {w}, Busy(v), job[v].id = job[w].id
      PROVE  job[w].op \in LaterOps /\ job[v].op \in LaterOps
  <2>1. JobRight(v) /\ job[v].op \in SetupOps \union LaterOps
    BY <1>4, Zenon DEF CallInv, JobRight, Jobs, SetupOps, LaterOps
  <2>2. job[w].op \notin SetupOps
    BY <1>3, <1>4, Zenon DEF SetupRight
  <2>3. job[v].op \notin SetupOps
    BY <1>4, <2>1, Zenon DEF JobRight, SetupRight, Busy
  <2> QED
    BY <1>2, <2>1, <2>2, <2>3, Zenon
<1> QED
  BY <1>2, <1>3, <1>4, Zenon

\* A step of a request on its own call, after which its record is y.
OwnMove(w, i, y) ==
  /\ job[w] # NoCall /\ i = job[w].id /\ job' = [job EXCEPT ![w] = y]
  /\ y = NoCall \/ y.id = i
  /\ UNCHANGED nextId /\ (CallFault \/ UNCHANGED callFaults)
  /\ CallTypeOK' /\ unguarded \subseteq unguarded'
  /\ job[w].op \in LaterOps => \A u \in Peers : slot'[u] = i => slot[u] = i
  /\ \A k \in Ids \ {i} : call'[k] = call[k]
  /\ \A u \in Peers, k \in Ids \ {i} :
       (slot'[u] = k => slot[u] = k) /\ (slot[u] = k => slot'[u] = k \/ k \in unguarded')

\* Such a step is a step on that call.
LEMMA OwnStep ==
  ASSUME CallInv, NEW w \in Handlers, NEW i, NEW y, OwnMove(w, i, y)
  PROVE  StepOn(i, {w}) /\ i \in Ids /\ i < nextId' /\ job'[w] = y
<1>1. i \in Ids /\ i < nextId' /\ nextId' >= nextId
  BY JobFacts DEF OwnMove, CallInv, CallTypeOK
<1>2. DOMAIN job' = Handlers /\ job'[w] = y /\ \A v \in Handlers \ {w} : job'[v] = job[v]
  BY Zenon DEF OwnMove, CallInv
<1>3. callFaults' \in 0..MaxCallFaults /\ (callFaults' = 0 => callFaults = 0)
  BY CallFaultBound, Zenon DEF OwnMove
<1>4. \A v \in Handlers \ {w} : Busy(v) /\ job[v].id = i =>
        job[v].op \in LaterOps /\ \A u \in Peers : slot'[u] = i => slot[u] = i
  BY JobFacts, Zenon DEF OwnMove
<1>5. \A v \in {w} : (job[v] \in {NoCall} \/ job[v].id = i) /\ (job'[v] \in {NoCall} \/ job'[v].id = i)
  BY <1>2, Zenon DEF OwnMove
<1>6. StepOn(i, {w})
  BY <1>1, <1>2, <1>3, <1>4, <1>5, Zenon DEF OwnMove, StepOn
<1> QED
  BY <1>1, <1>2, <1>6, Zenon

\* handleRequest takes the caller's slot for a fresh id.
LEMMA BeginInv ==
  ASSUME CallInv, NEW w \in Handlers, NEW u \in Peers, NEW p \in Peers, RequestBegin(w, u, p)
  PROVE  CallInv'
<1>0. PICK n : n = nextId
  BY Zenon
<1> DEFINE y == [op |-> "peer", id |-> n, caller |-> u, callee |-> p, seen |-> NoCall]
<1>1. /\ n \in Ids /\ n < nextId' /\ nextId' \in 1..(MaxCallIds + 1) /\ nextId' >= nextId
      /\ \A k \in Ids : k < n => k # n
  BY <1>0, CallServiceAssumption DEF RequestBegin, CallInv, CallTypeOK, Ids
<1>2. /\ job[w] = NoCall /\ u # p /\ slot[u] = NoCall /\ slot' = [slot EXCEPT ![u] = n]
      /\ UNCHANGED <<call, unguarded>>
      /\ \/ job' = [job EXCEPT ![w] = y] /\ UNCHANGED callFaults
         \/ CallFault /\ UNCHANGED job
  BY <1>0, Zenon DEF RequestBegin
<1>3. /\ \A x \in Peers : slot[x] # NoCall => slot[x] # n
      /\ \A v \in Handlers : Busy(v) => job[v].id # n
      /\ call[n] = NoCall
  BY <1>0, <1>1, Zenon DEF CallInv, JobRight, RecordRight, CallTypeOK, Ids
<1>4. /\ \A x \in Peers : slot'[x] = IF x = u THEN n ELSE slot[x]
      /\ slot' \in [Peers -> Ids \union {NoCall}]
  BY <1>1, <1>2, Zenon DEF CallInv, CallTypeOK
<1>5. /\ DOMAIN job' = Handlers /\ \A v \in Handlers \ {w} : job'[v] = job[v]
      /\ \/ job'[w] = y /\ UNCHANGED callFaults
         \/ job'[w] = NoCall /\ CallFault
  BY <1>2, Zenon DEF CallInv
<1>6. callFaults' \in 0..MaxCallFaults /\ (callFaults' = 0 => callFaults = 0)
      /\ (CallFault => callFaults' # 0)
  BY <1>2, CallFaultBound, Zenon
<1>7. y \in Jobs /\ y.id = n /\ y.op = "peer" /\ y.caller = u /\ y.callee = p
  BY <1>1, Zenon DEF Jobs
<1> HIDE DEF y
<1>8. StepOn(n, {w})
  <2>1. CallTypeOK'
    BY <1>1, <1>2, <1>4, Zenon DEF CallInv, CallTypeOK
  <2>2. \A k \in Ids \ {n}, x \in Peers : (slot'[x] = k => slot[x] = k)
                                        /\ (slot[x] = k => slot'[x] = k \/ k \in unguarded')
    BY <1>2, <1>4, NoCallApart, Zenon
  <2> QED
    BY <1>1, <1>2, <1>3, <1>5, <1>6, <1>7, <2>1, <2>2, Zenon DEF StepOn
<1>9. JobRight(w)'
  <2>1. CASE job'[w] = NoCall
    BY <2>1, Zenon DEF JobRight, Busy
  <2>2. CASE job'[w] = y
    <3>1. SetupRight(w)'
      <4>1. call'[n] = NoCall /\ \A v \in Handlers : v # w /\ Busy(v)' => job'[v].id # n
        BY <1>2, <1>3, <1>5, Zenon DEF Busy
      <4>2. \A x \in Peers : slot'[x] = n <=> x = u
        BY <1>1, <1>3, <1>4, NoCallApart, Zenon
      <4> QED
        BY <1>2, <1>7, <2>2, <4>1, <4>2, Zenon DEF SetupRight
    <3> QED
      BY <1>1, <1>7, <2>2, <3>1, Zenon DEF JobRight, LaterOps
  <2> QED
    BY <1>5, <2>1, <2>2, Zenon
<1>10. RecordRight(n)'
  BY <1>2, <1>3, Zenon DEF RecordRight
<1>11. callFaults' = 0 => SettingUp(n)'
  BY <1>5, <1>6, <1>7, NoCallApart, Zenon DEF SettingUp
<1> QED
  BY <1>1, <1>8, <1>9, <1>10, <1>11, StepInv

\* handleRequest's other steps take the callee's slot, give both back, or record
\* the call.
LEMMA PeerInv ==
  ASSUME CallInv, NEW w \in Handlers, RequestPeer(w)
  PROVE  CallInv'
<1> DEFINE j == job[w]
<1>0. PICK i : i = j.id
  BY Zenon
<1>1. /\ job[w] # NoCall /\ j.op = "peer" /\ UNCHANGED <<call, nextId>>
  BY Zenon DEF RequestPeer, At
<1>2. /\ j \in Jobs /\ i \in Ids /\ i < nextId /\ j.caller \in Peers /\ j.callee \in Peers
      /\ SetupRight(w) /\ j.op \notin LaterOps
  BY <1>0, <1>1, JobFacts, Zenon DEF SetupOps, LaterOps
<1>3. /\ call[i] = NoCall /\ j.caller # j.callee
      /\ \A u \in Peers : slot[u] = i => u = j.caller
      /\ i \notin unguarded => slot[j.caller] = i
      /\ \A v \in Handlers : v # w /\ Busy(v) => job[v].id # i
  BY <1>0, <1>1, <1>2, Zenon DEF SetupRight
<1>4. CASE /\ slot[j.callee] = NoCall /\ slot' = [slot EXCEPT ![j.callee] = i]
           /\ Goto(w, "online") /\ UNCHANGED <<callFaults, unguarded>>
  <2> DEFINE y == [j EXCEPT !.op = "online"]
  <2>1. job' = [job EXCEPT ![w] = y] /\ y \in Jobs /\ y.id = i /\ y.op = "online"
        /\ y.caller = j.caller /\ y.callee = j.callee
    BY <1>0, <1>2, <1>4, Zenon DEF Goto, CallInv, Jobs
  <2>2. /\ \A x \in Peers : slot'[x] = IF x = j.callee THEN i ELSE slot[x]
        /\ slot' \in [Peers -> Ids \union {NoCall}]
    BY <1>2, <1>4, Zenon DEF CallInv, CallTypeOK
  <2> HIDE DEF y
  <2>3. CallTypeOK'
    BY <1>1, <1>4, <2>2, Zenon DEF CallInv, CallTypeOK
  <2>4. \A u \in Peers, k \in Ids \ {i} :
          (slot'[u] = k => slot[u] = k) /\ (slot[u] = k => slot'[u] = k \/ k \in unguarded')
    BY <1>4, <2>2, NoCallApart, Zenon
  <2>5. StepOn(i, {w}) /\ i < nextId' /\ job'[w] = y
    <3>1. OwnMove(w, i, y)
      BY <1>0, <1>1, <1>2, <1>4, <2>1, <2>3, <2>4, Zenon DEF OwnMove
    <3> QED
      BY <3>1, OwnStep, Zenon
  <2>6. SetupRight(w)'
    <3>1. \A v \in Handlers : v # w => job'[v] = job[v]
      BY <2>5, Zenon DEF StepOn
    <3>2. call'[i] = NoCall /\ (i \notin unguarded' => slot[j.caller] = i)
      BY <1>1, <1>3, <1>4, Zenon
    <3> QED
      BY <1>2, <1>3, <2>1, <2>2, <2>5, <3>1, <3>2 DEF SetupRight, Busy
  <2>7. JobRight(w)'
    BY <2>1, <2>5, <2>6, Zenon DEF JobRight, LaterOps
  <2>8. SettingUp(i)' /\ RecordRight(i)'
    BY <1>1, <1>3, <2>1, <2>5, NoCallApart, Zenon DEF SettingUp, RecordRight
  <2> QED
    BY <1>2, <2>5, <2>7, <2>8, StepInv
<1>5. CASE /\ Delete({j.caller}, i) /\ Done(w) /\ (CallFault \/ UNCHANGED callFaults)
  <2>1. /\ slot' \in [Peers -> Ids \union {NoCall}]
        /\ unguarded' \subseteq Ids /\ unguarded \subseteq unguarded'
        /\ \A u \in Peers, k \in Ids : slot'[u] = k => slot[u] = k /\ u # j.caller
        /\ \A u \in Peers, k \in Ids \ {i} : slot[u] = k => slot'[u] = k \/ k \in unguarded'
    BY <1>2, <1>5, DeleteStep
  <2>2. CallTypeOK'
    BY <1>1, <2>1, Zenon DEF CallInv, CallTypeOK
  <2>3. StepOn(i, {w}) /\ i < nextId' /\ job'[w] = NoCall
    <3>1. OwnMove(w, i, NoCall)
      BY <1>0, <1>1, <1>2, <1>5, <2>1, <2>2, Zenon DEF OwnMove, Done
    <3> QED
      BY <3>1, OwnStep, Zenon
  <2>4. JobRight(w)' /\ RecordRight(i)'
    BY <1>1, <1>3, <2>3, Zenon DEF JobRight, Busy, RecordRight
  <2>5. \A u \in Peers : slot'[u] # i
    BY <1>2, <1>3, <2>1, Zenon
  <2> QED
    BY <1>2, <2>3, <2>4, <2>5, StepInv
<1>6. CASE /\ CallFault /\ slot[j.callee] = NoCall
           /\ slot' = [slot EXCEPT ![j.caller] = NoCall, ![j.callee] = i]
           /\ unguarded' = unguarded \union ({slot[j.caller]} \ {NoCall, i}) /\ Done(w)
  <2>1. /\ \A x \in Peers : slot'[x] = IF x = j.callee THEN i
                                       ELSE IF x = j.caller THEN NoCall ELSE slot[x]
        /\ slot' \in [Peers -> Ids \union {NoCall}]
    BY <1>2, <1>6, Zenon DEF CallInv, CallTypeOK
  <2>2. unguarded' \subseteq Ids /\ unguarded \subseteq unguarded'
    BY <1>2, <1>6, Zenon DEF CallInv, CallTypeOK
  <2>3. \A u \in Peers, k \in Ids \ {i} :
          (slot'[u] = k => slot[u] = k) /\ (slot[u] = k => slot'[u] = k \/ k \in unguarded')
    BY <1>6, <2>1, NoCallApart, Zenon
  <2>4. CallTypeOK'
    BY <1>1, <2>1, <2>2, Zenon DEF CallInv, CallTypeOK
  <2>5. StepOn(i, {w}) /\ i < nextId' /\ job'[w] = NoCall
    <3>1. OwnMove(w, i, NoCall)
      BY <1>0, <1>1, <1>2, <1>6, <2>2, <2>3, <2>4, Zenon DEF OwnMove, Done
    <3> QED
      BY <3>1, OwnStep, Zenon
  <2>6. JobRight(w)' /\ RecordRight(i)' /\ callFaults' # 0
    BY <1>1, <1>3, <1>6, <2>5, CallFaultBound, Zenon DEF JobRight, Busy, RecordRight
  <2> QED
    BY <1>2, <2>5, <2>6, StepInv
<1> QED
  BY <1>0, <1>4, <1>5, <1>6, Zenon DEF RequestPeer

\* A call being set up whose request ends with no slot left.
LEMMA GiveBack ==
  ASSUME CallInv, NEW w \in Handlers, job[w] # NoCall, job[w].op \in {"online", "save"},
         Delete(Parties(job[w]), job[w].id), Done(w), CallFault \/ UNCHANGED callFaults,
         UNCHANGED <<call, nextId>>
  PROVE  CallInv'
<1>1. PICK i : i = job[w].id
  BY Zenon
<1>2. /\ i \in Ids /\ Parties(job[w]) \subseteq Peers /\ SetupRight(w)
      /\ job[w].op \notin LaterOps
  BY <1>1, JobFacts, Zenon DEF SetupOps, LaterOps
<1>3. call[i] = NoCall /\ \A u \in Peers : slot[u] = i => u \in Parties(job[w])
  BY <1>1, <1>2, Zenon DEF SetupRight, Parties
<1>4. /\ slot' \in [Peers -> Ids \union {NoCall}]
      /\ unguarded' \subseteq Ids /\ unguarded \subseteq unguarded'
      /\ \A u \in Peers, k \in Ids : slot'[u] = k => slot[u] = k /\ u \notin Parties(job[w])
      /\ \A u \in Peers, k \in Ids \ {i} : slot[u] = k => slot'[u] = k \/ k \in unguarded'
  BY <1>1, <1>2, DeleteStep
<1>5. CallTypeOK'
  BY <1>4, Zenon DEF CallInv, CallTypeOK
<1>6. OwnMove(w, i, NoCall)
  BY <1>1, <1>2, <1>4, <1>5, Zenon DEF OwnMove, Done
<1>7. StepOn(i, {w}) /\ i < nextId' /\ job'[w] = NoCall
  BY <1>6, OwnStep, Zenon
<1>8. JobRight(w)' /\ RecordRight(i)' /\ \A u \in Peers : slot'[u] # i
  BY <1>2, <1>3, <1>4, <1>7, Zenon DEF JobRight, Busy, RecordRight
<1> QED
  BY <1>2, <1>7, <1>8, StepInv

\* handleRequest finds the callee connected and goes on, or gives the slots back.
LEMMA OnlineInv ==
  ASSUME CallInv, NEW w \in Handlers, RequestOnline(w)
  PROVE  CallInv'
<1>0. PICK i : i = job[w].id
  BY Zenon
<1>1. /\ job[w] # NoCall /\ job[w].op = "online" /\ UNCHANGED <<call, nextId, callFaults>>
  BY Zenon DEF RequestOnline, At
<1>2. CASE Goto(w, "save") /\ UNCHANGED <<slot, unguarded>>
  <2> DEFINE y == [job[w] EXCEPT !.op = "save"]
  <2>1. /\ i \in Ids /\ SetupRight(w) /\ job[w].op \notin LaterOps /\ job[w] \in Jobs
        /\ job[w].id < nextId
    BY <1>0, <1>1, JobFacts, Zenon DEF SetupOps, LaterOps
  <2>2. /\ job' = [job EXCEPT ![w] = y] /\ y \in Jobs /\ y.id = i /\ y.op = "save"
        /\ y.caller = job[w].caller /\ y.callee = job[w].callee
    BY <1>0, <1>2, <2>1, Zenon DEF Goto, CallInv, Jobs
  <2> HIDE DEF y
  <2>3. OwnMove(w, i, y)
    <3>1. CallTypeOK'
      BY <1>1, <1>2, Zenon DEF CallInv, CallTypeOK
    <3> QED
      BY <1>0, <1>1, <1>2, <2>1, <2>2, <3>1, Zenon DEF OwnMove
  <2>4. StepOn(i, {w}) /\ i < nextId' /\ job'[w] = y
    BY <2>3, OwnStep, Zenon
  <2>5. SetupRight(w)'
    <3>1. \A v \in Handlers : v # w => job'[v] = job[v]
      BY <2>4, Zenon DEF StepOn
    <3> QED
      BY <1>0, <1>1, <1>2, <2>1, <2>2, <2>4, <3>1 DEF SetupRight, Busy
  <2>6. JobRight(w)' /\ SettingUp(i)'
    BY <2>2, <2>4, <2>5, NoCallApart, Zenon DEF JobRight, LaterOps, SettingUp
  <2>7. RecordRight(i)'
    BY <1>0, <1>1, <2>1, Zenon DEF SetupRight, RecordRight
  <2> QED
    BY <2>1, <2>4, <2>6, <2>7, StepInv
<1>3. CASE Delete(Parties(job[w]), job[w].id) /\ Done(w)
  BY <1>1, <1>3, GiveBack, Zenon
<1> QED
  BY <1>2, <1>3, Zenon DEF RequestOnline

\* handleRequest records the call, fails, or fails having recorded it.
LEMMA SaveInv ==
  ASSUME CallInv, NEW w \in Handlers, RequestSave(w)
  PROVE  CallInv'
<1> DEFINE j == job[w]
<1>0. PICK i : i = j.id
  BY Zenon
<1>1. /\ job[w] # NoCall /\ j.op = "save" /\ Done(w) /\ UNCHANGED nextId
  BY Zenon DEF RequestSave, At
<1>2. /\ i \in Ids /\ j.caller \in Peers /\ j.callee \in Peers /\ Parties(j) \subseteq Peers
      /\ SetupRight(w) /\ j.op \notin LaterOps
  BY <1>0, <1>1, JobFacts, Zenon DEF SetupOps, LaterOps
<1>3. /\ \A u \in Peers : slot[u] = i => u \in Parties(j)
      /\ i \notin unguarded => \A u \in Parties(j) : slot[u] = i
  BY <1>0, <1>1, <1>2, Zenon DEF SetupRight, Parties
<1> DEFINE c == [caller |-> j.caller, callee |-> j.callee, state |-> "requested",
                 gb |-> NoCall, ga |-> FALSE]
<1>4. c \in CallRecords /\ Parties(c) = Parties(j)
  BY <1>2, Zenon DEF CallRecords, Parties
<1>5. ASSUME Ring(j) PROVE /\ call' \in [Ids -> CallRecords \union {NoCall}] /\ call'[i] = c
                           /\ \A k \in Ids \ {i} : call'[k] = call[k]
  <2>1. call' = [call EXCEPT ![i] = c]
    BY <1>0, <1>5, Zenon DEF Ring
  <2> HIDE DEF c
  <2> QED
    BY <1>2, <1>4, <2>1, Zenon DEF CallInv, CallTypeOK
<1> HIDE DEF c
<1>6. CASE Ring(j) /\ UNCHANGED <<slot, callFaults, unguarded>>
  <2>1. CallTypeOK'
    BY <1>1, <1>5, <1>6, Zenon DEF CallInv, CallTypeOK
  <2>2. OwnMove(w, i, NoCall)
    BY <1>0, <1>1, <1>2, <1>5, <1>6, <2>1, Zenon DEF OwnMove, Done
  <2>3. StepOn(i, {w}) /\ i < nextId' /\ job'[w] = NoCall
    BY <2>2, OwnStep, Zenon
  <2>4. RecordRight(i)' /\ call'[i] # NoCall
    BY <1>3, <1>4, <1>5, <1>6, <2>3, NoCallApart, Zenon DEF RecordRight
  <2>5. JobRight(w)'
    BY <2>3, Zenon DEF JobRight, Busy
  <2> QED
    BY <1>2, <2>3, <2>4, <2>5, StepInv
<1>7. CASE CallFault /\ Delete(Parties(j), j.id) /\ UNCHANGED call
  BY <1>1, <1>7, GiveBack, Zenon
<1>8. CASE /\ CallFault /\ Ring(j)
           /\ slot' = [u \in Peers |-> IF u \in Parties(j) THEN NoCall ELSE slot[u]]
           /\ unguarded' = unguarded \union ({slot[u] : u \in Parties(j)} \ {NoCall}) \union {j.id}
  <2>1. slot' \in [Peers -> Ids \union {NoCall}]
    BY <1>8, Zenon DEF CallInv, CallTypeOK
  <2>2. unguarded' \subseteq Ids /\ unguarded \subseteq unguarded' /\ i \in unguarded'
    BY <1>0, <1>2, <1>8, Zenon DEF CallInv, CallTypeOK
  <2>3. CallTypeOK'
    BY <1>1, <1>5, <1>8, <2>1, <2>2, Zenon DEF CallInv, CallTypeOK
  <2>4. \A u \in Peers, k \in Ids :
          (slot'[u] = k => slot[u] = k) /\ (slot[u] = k => slot'[u] = k \/ k \in unguarded')
    BY <1>8, NoCallApart, Zenon
  <2>5. OwnMove(w, i, NoCall)
    BY <1>0, <1>1, <1>2, <1>5, <1>8, <2>2, <2>3, <2>4, Zenon DEF OwnMove, Done
  <2>6. StepOn(i, {w}) /\ i < nextId' /\ job'[w] = NoCall
    BY <2>5, OwnStep, Zenon
  <2>7. RecordRight(i)' /\ call'[i] # NoCall
    BY <1>2, <1>3, <1>4, <1>5, <1>8, <2>2, <2>4, <2>6, NoCallApart DEF RecordRight
  <2>8. JobRight(w)'
    BY <2>6, Zenon DEF JobRight, Busy
  <2> QED
    BY <1>2, <2>6, <2>7, <2>8, StepInv
<1> QED
  BY <1>6, <1>7, <1>8, Zenon DEF RequestSave

\* handleAccept, handleConfirm and handleDiscard read the record of a call: nobody
\* is still setting it up.
LEMMA LoadInv ==
  ASSUME CallInv, NEW w \in Handlers, NEW op \in {"accept", "confirm", "discard"},
         NEW i \in Ids, NEW u \in Peers, Load(w, op, i, u)
  PROVE  CallInv'
<1> DEFINE y == [op |-> op, id |-> i, caller |-> call[i].caller, callee |-> call[i].callee,
                 seen |-> call[i]]
<1>1. /\ job[w] = NoCall /\ call[i] # NoCall /\ job' = [job EXCEPT ![w] = y]
      /\ UNCHANGED <<slot, call, nextId, callFaults, unguarded>>
  BY Zenon DEF Load, redisVars
<1>2. call[i] \in CallRecords /\ RecordRight(i) /\ i < nextId
  BY <1>1, Zenon DEF CallInv, CallTypeOK, RecordRight
<1>3. /\ y \in Jobs /\ y.id = i /\ y.op = op /\ y.seen = call[i]
      /\ y.caller = call[i].caller /\ y.callee = call[i].callee
  BY <1>2, Zenon DEF Jobs, CallRecords
<1> HIDE DEF y
<1>4. DOMAIN job' = Handlers /\ job'[w] = y /\ \A v \in Handlers \ {w} : job'[v] = job[v]
  BY <1>1, Zenon DEF CallInv
<1>5. \A v \in Handlers : Busy(v) /\ job[v].id = i => job[v].op \in LaterOps
  BY <1>1, Zenon DEF CallInv, JobRight, SetupRight, Jobs, SetupOps, LaterOps
<1>6. StepOn(i, {w})
  <2>1. CallTypeOK' /\ callFaults' \in 0..MaxCallFaults /\ nextId' >= nextId
    BY <1>1 DEF CallInv, CallTypeOK
  <2> QED
    BY <1>1, <1>3, <1>4, <1>5, <2>1, Zenon DEF StepOn
<1>7. LaterRight(w)'
  <2>1. Parties(y) = Parties(call[i])
    BY <1>3, Zenon DEF Parties
  <2> QED
    BY <1>1, <1>2, <1>3, <1>4, <2>1, Zenon DEF LaterRight, RecordRight
<1>8. JobRight(w)'
  BY <1>1, <1>2, <1>3, <1>4, <1>7, Zenon DEF JobRight, SetupOps
<1>9. RecordRight(i)'
  <2>1. Live(i)' => Live(i)
    BY <1>1, <1>4, Zenon DEF Live, At
  <2> QED
    BY <1>1, <1>2, <2>1, Zenon DEF RecordRight
<1> QED
  BY <1>1, <1>2, <1>6, <1>8, <1>9, StepInv

\* A save of what a request read: the record comes back, and unless both slots
\* are still the call's it is unguarded.
LEMMA SavedInv ==
  ASSUME CallInv, NEW w \in Handlers, AcceptSave(w) \/ ConfirmSave(w)
  PROVE  CallInv'
<1> DEFINE j == job[w]
<1>0. PICK i : i = j.id
  BY Zenon
<1>1. /\ job[w] # NoCall /\ j.op \in {"accept", "confirm"} /\ Done(w)
      /\ UNCHANGED <<slot, nextId>>
  BY Zenon DEF AcceptSave, ConfirmSave, At
<1>2. i \in Ids /\ LaterRight(w) /\ j.op \in LaterOps
  BY <1>0, <1>1, JobFacts, Zenon DEF LaterOps
<1>3. ASSUME CallTypeOK', unguarded \subseteq unguarded', CallFault \/ UNCHANGED callFaults,
             \A k \in Ids \ {i} : call'[k] = call[k], RecordRight(i)',
             call[i] # NoCall => call'[i] # NoCall
      PROVE  CallInv'
  <2>1. OwnMove(w, i, NoCall)
    BY <1>0, <1>1, <1>3, Zenon DEF OwnMove, Done
  <2>2. StepOn(i, {w}) /\ i < nextId' /\ job'[w] = NoCall
    BY <2>1, OwnStep, Zenon
  <2>3. JobRight(w)'
    BY <2>2, Zenon DEF JobRight, Busy
  <2>4. \A u \in Peers : slot'[u] = i /\ callFaults' = 0 => call'[i] # NoCall \/ SettingUp(i)'
    <3>1. callFaults' = 0 => callFaults = 0
      BY <2>2, Zenon DEF StepOn
    <3>2. ~SettingUp(i)
      <4>1. \A v \in Handlers : v # w /\ Busy(v) /\ job[v].id = i => job[v].op \in LaterOps
        BY <1>0, <1>1, JobFacts, Zenon
      <4> QED
        BY <1>2, <4>1, Zenon DEF SettingUp, LaterOps, Busy
    <3> QED
      BY <1>1, <1>2, <1>3, <3>1, <3>2, NoCallApart, Zenon DEF CallInv, StuckOnlyByFault
  <2> QED
    BY <1>2, <1>3, <2>2, <2>3, <2>4, StepInv
<1>4. ASSUME NEW c \in CallRecords, c.caller = j.caller, c.callee = j.callee, Saved(i, c),
             UNCHANGED callFaults
      PROVE  CallInv'
  <2>1. /\ call' \in [Ids -> CallRecords \union {NoCall}] /\ call'[i] = c /\ c # NoCall
        /\ \A k \in Ids \ {i} : call'[k] = call[k]
    BY <1>2, <1>4, NoCallApart, Zenon DEF Saved, CallInv, CallTypeOK
  <2>2. /\ unguarded' \subseteq Ids /\ unguarded \subseteq unguarded'
        /\ i \notin unguarded' => \A u \in Parties(c) : slot[u] = i
    BY <1>2, <1>4, Zenon DEF Saved, CallInv, CallTypeOK, Parties
  <2>3. CallTypeOK'
    BY <1>1, <2>1, <2>2, Zenon DEF CallInv, CallTypeOK
  <2>4. i < nextId'
    BY <1>0, <1>1, JobFacts, Zenon
  <2>5. \A u \in Peers : slot'[u] = i => u \in Parties(c)
    BY <1>0, <1>1, <1>2, <1>4, Zenon DEF LaterRight, Parties
  <2>6. RecordRight(i)'
    BY <1>1, <2>1, <2>2, <2>4, <2>5, Zenon DEF RecordRight
  <2> QED
    BY <1>3, <1>4, <2>1, <2>2, <2>3, <2>6, Zenon
<1>5. CASE CallFault /\ UNCHANGED <<call, unguarded>>
  <2>1. CallTypeOK'
    BY <1>1, <1>5, Zenon DEF CallInv, CallTypeOK
  <2>2. Live(i)' => Live(i)
    BY <1>1, <1>5, Zenon DEF Live, At, Done, CallInv
  <2>3. RecordRight(i)'
    BY <1>1, <1>2, <1>5, <2>2, Zenon DEF RecordRight, CallInv
  <2> QED
    BY <1>3, <1>5, <2>1, <2>3, Zenon
<1>6. CASE UNCHANGED callFaults /\ \/ Saved(j.id, [j.seen EXCEPT !.state = "active", !.gb = w])
                                   \/ Saved(j.id, [j.seen EXCEPT !.ga = TRUE])
  <2>1. j.seen \in CallRecords /\ j.seen.caller = j.caller /\ j.seen.callee = j.callee
    BY <1>2, Zenon DEF LaterRight
  <2>2. \A c \in {[j.seen EXCEPT !.state = "active", !.gb = w], [j.seen EXCEPT !.ga = TRUE]} :
          c \in CallRecords /\ c.caller = j.caller /\ c.callee = j.callee
    BY <2>1, Zenon DEF CallRecords
  <2> QED
    BY <1>0, <1>4, <1>6, <2>2, Zenon
<1> QED
  BY <1>5, <1>6, Zenon DEF AcceptSave, ConfirmSave

\* handleDiscard gives the slots back: from then on its call no longer goes on.
LEMMA ReleaseInv ==
  ASSUME CallInv, NEW w \in Handlers, DiscardRelease(w)
  PROVE  CallInv'
<1> DEFINE j == job[w]
           y == [j EXCEPT !.op = "delete"]
<1>0. PICK i : i = j.id
  BY Zenon
<1>1. job[w] # NoCall /\ j.op = "discard" /\ UNCHANGED <<call, nextId>>
  BY Zenon DEF DiscardRelease, At
<1>2. i \in Ids /\ j \in Jobs /\ Parties(j) \subseteq Peers /\ LaterRight(w) /\ i < nextId
  BY <1>0, <1>1, JobFacts, Zenon DEF LaterOps
<1>3. PICK us \in SUBSET Parties(j) :
        /\ Delete(us, j.id)
        /\ CallFault \/ (us = Parties(j) /\ UNCHANGED callFaults)
  BY Zenon DEF DiscardRelease
<1>4. /\ slot' \in [Peers -> Ids \union {NoCall}]
      /\ unguarded' \subseteq Ids /\ unguarded \subseteq unguarded'
      /\ \A u \in Peers, k \in Ids : slot'[u] = k => slot[u] = k /\ u \notin us
      /\ \A u \in Peers, k \in Ids \ {i} : slot[u] = k => slot'[u] = k \/ k \in unguarded'
  BY <1>0, <1>2, <1>3, DeleteStep, Zenon
<1>5. /\ job' = [job EXCEPT ![w] = y] /\ y \in Jobs /\ y.id = i /\ y.op = "delete"
      /\ y.caller = j.caller /\ y.callee = j.callee /\ y.seen = j.seen
  BY <1>0, <1>2, Zenon DEF DiscardRelease, Goto, CallInv, Jobs
<1>6. CallTypeOK'
  BY <1>1, <1>4, Zenon DEF CallInv, CallTypeOK
<1> HIDE DEF y
<1>7. OwnMove(w, i, y)
  BY <1>0, <1>1, <1>2, <1>3, <1>4, <1>5, <1>6, Zenon DEF OwnMove
<1>8. StepOn(i, {w}) /\ i < nextId' /\ job'[w] = y
  BY <1>7, OwnStep, Zenon
<1>9. LaterRight(w)'
  <2>1. \A u \in Peers : slot[u] = i => u \in Parties(j)
    BY <1>0, <1>2, Zenon DEF LaterRight
  <2>2. callFaults' = 0 => us = Parties(j)
    BY <1>3, CallFaultBound, Zenon
  <2>3. Parties(y) = Parties(j)
    BY <1>5, Zenon DEF Parties
  <2> QED
    BY <1>2, <1>4, <1>5, <1>8, <2>1, <2>2, <2>3 DEF LaterRight
<1>10. JobRight(w)'
  BY <1>5, <1>8, <1>9, Zenon DEF JobRight, SetupOps
<1>11. RecordRight(i)'
  <2>1. ~Live(i)'
    BY <1>5, <1>8, NoCallApart, Zenon DEF Live, At
  <2> QED
    BY <1>1, <1>2, <1>4, <1>8, <2>1 DEF RecordRight, CallInv
<1>12. \A u \in Peers : slot'[u] = i /\ callFaults' = 0 => call'[i] # NoCall \/ SettingUp(i)'
  BY <1>0, <1>3, <1>2, <1>4, CallFaultBound, Zenon DEF LaterRight
<1> QED
  BY <1>2, <1>8, <1>10, <1>11, <1>12, StepInv

\* A request ends, by deleting its record or in a crash.
LEMMA EndInv ==
  ASSUME CallInv, NEW w \in Handlers, DiscardDelete(w) \/ Crash(w)
  PROVE  CallInv'
<1>0. PICK i : i = job[w].id
  BY Zenon
<1>1. /\ job[w] # NoCall /\ Done(w) /\ UNCHANGED <<slot, nextId>>
      /\ CallFault \/ UNCHANGED callFaults
  BY Zenon DEF DiscardDelete, Crash, At, redisVars
<1>2. i \in Ids /\ i < nextId
  BY <1>0, <1>1, JobFacts, Zenon
<1>3. /\ call' \in [Ids -> CallRecords \union {NoCall}]
      /\ \A k \in Ids \ {i} : call'[k] = call[k]
      /\ call'[i] = call[i] \/ call'[i] = NoCall
  BY <1>0, <1>2, Zenon DEF DiscardDelete, Crash, redisVars, CallInv, CallTypeOK
<1>4. unguarded' \subseteq Ids /\ unguarded \subseteq unguarded'
  BY <1>0, <1>2, Zenon DEF DiscardDelete, Crash, CallInv, CallTypeOK
<1>5. CallTypeOK'
  BY <1>1, <1>3, <1>4, Zenon DEF CallInv, CallTypeOK
<1>6. OwnMove(w, i, NoCall)
  BY <1>0, <1>1, <1>3, <1>4, <1>5, Zenon DEF OwnMove, Done
<1>7. StepOn(i, {w}) /\ i < nextId' /\ job'[w] = NoCall
  BY <1>6, OwnStep, Zenon
<1>8. JobRight(w)'
  BY <1>7, Zenon DEF JobRight, Busy
<1>9. CASE DiscardDelete(w)
  <2>1. call'[i] = NoCall
    BY <1>0, <1>2, <1>9, Zenon DEF DiscardDelete, CallInv, CallTypeOK
  <2>2. callFaults' = 0 => \A u \in Peers : slot'[u] # i
    <3>1. LaterRight(w) /\ job[w].op = "delete" /\ UNCHANGED callFaults
      BY <1>1, <1>9, JobFacts, Zenon DEF DiscardDelete, At, LaterOps
    <3> QED
      BY <1>0, <1>1, <3>1, Zenon DEF LaterRight
  <2>3. RecordRight(i)'
    BY <2>1, Zenon DEF RecordRight
  <2> QED
    BY <1>2, <1>7, <1>8, <2>2, <2>3, StepInv
<1>10. CASE Crash(w)
  <2>1. UNCHANGED call /\ callFaults' # 0 /\ (At(w, "delete") => i \in unguarded')
    BY <1>0, <1>1, <1>10, CallFaultBound, Zenon DEF Crash, redisVars
  <2>2. i \notin unguarded' => (Live(i)' => Live(i))
    BY <1>0, <1>7, <2>1 DEF Live, At, StepOn
  <2>3. RecordRight(i)'
    BY <1>1, <1>2, <1>4, <2>1, <2>2, Zenon DEF RecordRight, CallInv
  <2> QED
    BY <1>2, <1>7, <1>8, <2>1, <2>3, StepInv
<1> QED
  BY <1>9, <1>10, Zenon

\* A slot or a record expires.
LEMMA ExpiryInv ==
  ASSUME CallInv, (\E u \in Peers : ExpireSlot(u)) \/ (\E i \in Ids : ExpireCall(i))
  PROVE  CallInv'
<1>1. ASSUME NEW i \in Ids, UNCHANGED <<job, nextId, callFaults>>, CallTypeOK',
             unguarded \subseteq unguarded', i < nextId, RecordRight(i)',
             \A k \in Ids \ {i} : call'[k] = call[k],
             \A x \in Peers, k \in Ids : slot'[x] = k => slot[x] = k,
             \A x \in Peers, k \in Ids \ {i} : slot[x] = k => slot'[x] = k,
             \A v \in Handlers : Busy(v) /\ job[v].id = i => job[v].op \in LaterOps,
             \A x \in Peers : slot'[x] = i => call'[i] = call[i]
      PROVE  CallInv'
  <2>1. StepOn(i, {})
    BY <1>1 DEF StepOn, CallInv, CallTypeOK
  <2>2. ASSUME NEW x \in Peers, slot'[x] = i, callFaults' = 0
        PROVE  call'[i] # NoCall \/ SettingUp(i)'
    BY <1>1, <2>2, NoCallApart DEF CallInv, StuckOnlyByFault, SettingUp
  <2> QED
    BY <1>1, <2>1, <2>2, StepInv
<1>2. ASSUME NEW v \in Handlers, Busy(v) PROVE job[v].op \in SetupOps \union LaterOps
  BY <1>2, Zenon DEF CallInv, JobRight, Jobs, SetupOps, LaterOps
<1>3. ASSUME NEW u \in Peers, ExpireSlot(u) PROVE CallInv'
  <2>1. PICK i : i = slot[u]
    BY Zenon
  <2>2. i \in Ids /\ i < nextId /\ ~SettingUp(i) /\ UNCHANGED <<call, job, nextId, callFaults>>
    BY <1>3, <2>1, Zenon DEF ExpireSlot, CallInv, CallTypeOK
  <2>3. /\ slot' \in [Peers -> Ids \union {NoCall}]
        /\ \A x \in Peers : slot'[x] = IF x = u THEN NoCall ELSE slot[x]
    BY <1>3, Zenon DEF ExpireSlot, CallInv, CallTypeOK
  <2>4. /\ unguarded' \subseteq Ids /\ unguarded \subseteq unguarded'
        /\ call[i] # NoCall => i \in unguarded'
    BY <1>3, <2>1, <2>2, Zenon DEF ExpireSlot, CallInv, CallTypeOK
  <2>5. CallTypeOK'
    BY <2>2, <2>3, <2>4, Zenon DEF CallInv, CallTypeOK
  <2>6. RecordRight(i)'
    BY <2>2, <2>3, <2>4, NoCallApart DEF RecordRight, CallInv
  <2>7. \A v \in Handlers : Busy(v) /\ job[v].id = i => job[v].op \in LaterOps
    BY <1>2, <2>2, Zenon DEF SettingUp, SetupOps, Busy
  <2> QED
    BY <1>1, <2>1, <2>2, <2>3, <2>4, <2>5, <2>6, <2>7, NoCallApart, Zenon
<1>4. ASSUME NEW i \in Ids, ExpireCall(i) PROVE CallInv'
  <2>1. /\ call[i] # NoCall /\ \A x \in Peers : slot[x] # i
        /\ UNCHANGED <<slot, job, nextId, callFaults, unguarded>>
        /\ call' \in [Ids -> CallRecords \union {NoCall}] /\ call'[i] = NoCall
        /\ \A k \in Ids \ {i} : call'[k] = call[k]
    BY <1>4, Zenon DEF ExpireCall, CallInv, CallTypeOK
  <2>2. CallTypeOK' /\ RecordRight(i)' /\ i < nextId
    BY <2>1, Zenon DEF CallInv, CallTypeOK, RecordRight
  <2>3. \A v \in Handlers : Busy(v) /\ job[v].id = i => job[v].op \in LaterOps
    BY <1>2, <2>1 DEF CallInv, JobRight, SetupRight
  <2> QED
    BY <1>1, <2>1, <2>2, <2>3, Zenon
<1> QED
  BY <1>3, <1>4, Zenon

\* The inductive invariant of calls, their slots and the requests about them.
THEOREM CallInductive == CallSpec => []CallInv
<1>1. CallInv /\ [CallNext]_callVars => CallInv'
  <2> SUFFICES ASSUME CallInv, CallNext \/ UNCHANGED callVars PROVE CallInv'
    BY Zenon
  <2>1. CASE UNCHANGED callVars
    BY <2>1 DEF callVars, redisVars, CallInv, CallTypeOK, JobRight, Busy, SetupRight, LaterRight,
                RecordRight, Live, At, StuckOnlyByFault, SettingUp
  <2> QED
    BY <2>1, BeginInv, PeerInv, OnlineInv, SaveInv, LoadInv, SavedInv, ReleaseInv, EndInv, ExpiryInv, Zenon
       DEF CallNext, CallStep
<1> QED
  BY <1>1, CallInitInv, PTL DEF CallSpec

\* Two calls that go on share no party unless one of them lost a slot, and without
\* a fault every slot belongs to a call, for any users, requests and ids
\* (activeCallKey, releaseCall).
THEOREM CallsAlwaysHold == CallSpec => []CallsHold
<1>1. CallInv => CallsHold
  <2> SUFFICES ASSUME CallInv PROVE OneCallUnlessUnguarded
    BY Zenon DEF CallInv, CallsHold
  <2> SUFFICES ASSUME NEW i \in Ids, NEW k \in Ids, i # k, Live(i), Live(k),
                      {i, k} \intersect unguarded = {}
               PROVE  Parties(call[i]) \intersect Parties(call[k]) = {}
    BY Zenon DEF OneCallUnlessUnguarded, Parties
  <2>1. /\ \A u \in Parties(call[i]) : slot[u] = i
        /\ \A u \in Parties(call[k]) : slot[u] = k
    BY Zenon DEF CallInv, RecordRight, Live
  <2> QED
    BY <2>1, Zenon
<1> QED
  BY <1>1, CallInductive, PTL

(***************************************************************************)
(* Notifications.                                                          *)
(***************************************************************************)
HandlerRow ==
  [pc : {"presence", "mute", "targets", "send", "results"} \union Ended,
   tries : 0..MaxPushRetries, got : [Devices -> 0..MaxToken], res : [Devices -> Outcomes],
   again : BOOLEAN, raced : SUBSET Devices, onlineAll : BOOLEAN, mutedAll : BOOLEAN,
   revokedAll : SUBSET Devices, shutOut : SUBSET Devices, hushed : BOOLEAN]

\* A device that nothing has shut out of the record has had one token all along,
\* which the handler read; it is alerted unless its send failed.
OpenRight(r, a, tk, lv, out) ==
  \A d \in Devices \ r.shutOut :
    /\ tk[d] = 1 /\ lv[d] = 1 /\ d \notin out
    /\ r.pc \in {"send", "results"} => r.got[d] = 1
    /\ r.pc = "results" => d \in a \/ r.res[d] \in {"retry", "rejected"} \/ r.again = TRUE

\* The token a handler has read is older than the device's when FCM refused it, and
\* is the stored one until it is cleared or another is registered.
ReadRight(r, tk, lv) ==
  \A d \in Devices :
    /\ r.got[d] <= lv[d]
    /\ r.pc = "results" /\ r.res[d] = "dead" => r.got[d] < lv[d] /\ r.got[d] # 0
    /\ d \in r.revokedAll => r.got[d] = 0
    /\ r.pc \notin Ended /\ d \notin r.raced /\ r.got[d] # 0 => tk[d] \in {0, r.got[d]}

\* What stayed so since the record was taken up is so now, and has stopped the pusher.
QuietRight(w, r, a, out, on, mu) ==
  /\ r.revokedAll \subseteq out /\ a \intersect r.revokedAll = {}
  /\ r.pc \notin Ended => /\ r.onlineAll = TRUE => on = TRUE
                          /\ r.mutedAll = TRUE => mu = TRUE
                          /\ w = "pusher" /\ (on = TRUE \/ mu = TRUE) => r.hushed = TRUE
  /\ w = "pusher" =>
       /\ r.pc \in {"mute", "targets", "send", "results"} => r.onlineAll = FALSE
       /\ r.pc \in {"targets", "send", "results"} => r.mutedAll = FALSE
       /\ a # {} => r.onlineAll = FALSE /\ r.mutedAll = FALSE

DoneRight(r, a) == r.pc = "done" /\ r.hushed = FALSE => Devices \subseteq a \union r.shutOut

HandlerRight(w, r, a, tk, lv, out, on, mu) ==
  /\ r.pc \notin Ended => OpenRight(r, a, tk, lv, out)
  /\ ReadRight(r, tk, lv) /\ QuietRight(w, r, a, out, on, mu) /\ DoneRight(r, a)

PushShape ==
  /\ token \in [Devices -> 0..MaxToken] /\ live \in [Devices -> 1..MaxToken]
  /\ loggedOut \subseteq Devices /\ online \in BOOLEAN /\ muted \in BOOLEAN
  /\ worker \in [PushWorkers -> HandlerRow] /\ alerted \in [PushWorkers -> SUBSET Devices]
  /\ pushFaults \in 0..MaxPushFaults /\ pushChanges \in 0..MaxPushChanges

PushInv ==
  /\ PushShape /\ wronged = {} /\ \A d \in Devices : token[d] <= live[d]
  /\ \A w \in PushWorkers : HandlerRight(w, worker[w], alerted[w], token, live, loggedOut, online, muted)

\* What makes a record of a handler.
HandlerPcs == {"presence", "mute", "targets", "send", "results"} \union Ended

LEMMA HandlerMade ==
  ASSUME NEW r,
         r = [pc |-> r.pc, tries |-> r.tries, got |-> r.got, res |-> r.res, again |-> r.again,
              raced |-> r.raced, onlineAll |-> r.onlineAll, mutedAll |-> r.mutedAll,
              revokedAll |-> r.revokedAll, shutOut |-> r.shutOut, hushed |-> r.hushed],
         r.pc \in HandlerPcs, r.tries \in 0..MaxPushRetries, r.got \in [Devices -> 0..MaxToken],
         r.res \in [Devices -> Outcomes], r.again \in BOOLEAN, r.raced \in SUBSET Devices,
         r.onlineAll \in BOOLEAN, r.mutedAll \in BOOLEAN, r.revokedAll \in SUBSET Devices,
         r.shutOut \in SUBSET Devices, r.hushed \in BOOLEAN
  PROVE  r \in HandlerRow
BY DEF HandlerRow, HandlerPcs

\* A record of a handler, told by its fields.
LEMMA HandlerKnown ==
  ASSUME NEW r \in HandlerRow
  PROVE  /\ r = [pc |-> r.pc, tries |-> r.tries, got |-> r.got, res |-> r.res, again |-> r.again,
                 raced |-> r.raced, onlineAll |-> r.onlineAll, mutedAll |-> r.mutedAll,
                 revokedAll |-> r.revokedAll, shutOut |-> r.shutOut, hushed |-> r.hushed]
         /\ r.pc \in HandlerPcs /\ r.tries \in 0..MaxPushRetries /\ r.got \in [Devices -> 0..MaxToken]
         /\ r.res \in [Devices -> Outcomes] /\ r.again \in BOOLEAN /\ r.raced \in SUBSET Devices
         /\ r.onlineAll \in BOOLEAN /\ r.mutedAll \in BOOLEAN /\ r.revokedAll \in SUBSET Devices
         /\ r.shutOut \in SUBSET Devices /\ r.hushed \in BOOLEAN
BY DEF HandlerRow, HandlerPcs

\* What the invariant says of one handler.
LEMMA HandlerFields ==
  ASSUME PushInv, NEW w \in PushWorkers
  PROVE  /\ worker[w] \in HandlerRow /\ alerted[w] \in SUBSET Devices
         /\ HandlerRight(w, worker[w], alerted[w], token, live, loggedOut, online, muted)
BY Zenon DEF PushInv, PushShape

\* A step of one handler, the others being right with the tokens after it.
LEMMA HandlerMovesAt ==
  ASSUME PushInv, NEW w \in PushWorkers, NEW r \in HandlerRow, NEW a \in SUBSET Devices,
         worker' = [worker EXCEPT ![w] = r], alerted' = [alerted EXCEPT ![w] = a],
         token' \in [Devices -> 0..MaxToken], \A d \in Devices : token'[d] <= live[d],
         HandlerRight(w, r, a, token', live, loggedOut, online, muted),
         \A v \in PushWorkers :
           HandlerRight(v, worker[v], alerted[v], token', live, loggedOut, online, muted),
         UNCHANGED <<loggedOut, user, wronged, pushChanges>>,
         pushFaults' \in 0..MaxPushFaults
  PROVE  PushInv'
<1>1. /\ loggedOut' = loggedOut /\ live' = live /\ online' = online
      /\ muted' = muted /\ wronged' = wronged /\ pushChanges' = pushChanges
  BY Zenon DEF user
<1>2. PushShape'
  BY <1>1, Zenon DEF PushInv, PushShape
<1>3. ASSUME NEW v \in PushWorkers
      PROVE  HandlerRight(v, worker'[v], alerted'[v], token', live, loggedOut, online, muted)
  <2>1. CASE v = w
    <3>1. worker'[v] = r /\ alerted'[v] = a
      BY <2>1, Zenon DEF PushInv, PushShape
    <3> QED
      BY <2>1, <3>1, Zenon
  <2>2. CASE v # w
    <3>1. worker'[v] = worker[v] /\ alerted'[v] = alerted[v]
      BY <2>2, Zenon DEF PushInv, PushShape
    <3> QED
      BY <3>1, Zenon
  <2> QED
    BY <2>1, <2>2, Zenon
<1> QED
  BY <1>1, <1>2, <1>3, Zenon DEF PushInv

\* A step of one handler that leaves the tokens alone.
LEMMA HandlerMoves ==
  ASSUME PushInv, NEW w \in PushWorkers, NEW r \in HandlerRow, NEW a \in SUBSET Devices,
         worker' = [worker EXCEPT ![w] = r], alerted' = [alerted EXCEPT ![w] = a],
         HandlerRight(w, r, a, token, live, loggedOut, online, muted),
         UNCHANGED <<token, loggedOut, user, wronged, pushChanges>>,
         pushFaults' \in 0..MaxPushFaults
  PROVE  PushInv'
<1>1. token' = token /\ UNCHANGED <<loggedOut, user, wronged, pushChanges>>
  BY Zenon
<1>2. /\ token \in [Devices -> 0..MaxToken] /\ \A d \in Devices : token[d] <= live[d]
      /\ \A v \in PushWorkers :
           HandlerRight(v, worker[v], alerted[v], token, live, loggedOut, online, muted)
  BY Zenon DEF PushInv, PushShape
<1> QED
  BY <1>1, <1>2, HandlerMovesAt, Zenon

\* The reads of an attempt start over, or the record is parked.
LEMMA ErrorRow ==
  ASSUME NEW w \in PushWorkers, NEW r \in HandlerRow, NEW a \in SUBSET Devices, NEW e,
         r.pc \notin Ended,
         HandlerRight(w, r, a, token, live, loggedOut, online, muted), PushShape,
         e = (IF r.tries < MaxPushRetries THEN Fresh(w, [r EXCEPT !.tries = @ + 1])
              ELSE [r EXCEPT !.pc = "dlq"])
  PROVE  e \in HandlerRow /\ HandlerRight(w, e, a, token, live, loggedOut, online, muted)
<1>1. CASE r.tries < MaxPushRetries
  <2> DEFINE none == [d \in Devices |-> "none"]
             zero == [d \in Devices |-> 0]
  <2>1. e = [pc |-> FirstStep(w), tries |-> r.tries + 1, got |-> zero, res |-> none, again |-> FALSE,
             raced |-> r.raced, onlineAll |-> r.onlineAll, mutedAll |-> r.mutedAll,
             revokedAll |-> r.revokedAll, shutOut |-> r.shutOut, hushed |-> r.hushed]
    BY <1>1 DEF HandlerRow, Fresh
  <2>2. none \in [Devices -> Outcomes] /\ zero \in [Devices -> 0..MaxToken]
    BY PushAssumption DEF Outcomes
  <2>3. r.tries + 1 \in 0..MaxPushRetries
    BY <1>1, PushAssumption DEF HandlerRow
  <2>4. e \in HandlerRow
    <3>1. FirstStep(w) \in HandlerPcs
      BY Zenon DEF FirstStep, HandlerPcs
    <3> HIDE DEF none, zero
    <3>2. /\ e.pc = FirstStep(w) /\ e.tries = r.tries + 1 /\ e.got = zero /\ e.res = none /\ e.again = FALSE
          /\ e.raced = r.raced /\ e.onlineAll = r.onlineAll /\ e.mutedAll = r.mutedAll
          /\ e.revokedAll = r.revokedAll /\ e.shutOut = r.shutOut /\ e.hushed = r.hushed
          /\ e = [pc |-> e.pc, tries |-> e.tries, got |-> e.got, res |-> e.res, again |-> e.again,
              raced |-> e.raced, onlineAll |-> e.onlineAll, mutedAll |-> e.mutedAll,
              revokedAll |-> e.revokedAll, shutOut |-> e.shutOut, hushed |-> e.hushed]
      BY <2>1
    <3>3. /\ e.again \in BOOLEAN /\ e.raced \in SUBSET Devices
          /\ e.onlineAll \in BOOLEAN /\ e.mutedAll \in BOOLEAN /\ e.revokedAll \in SUBSET Devices
          /\ e.shutOut \in SUBSET Devices /\ e.hushed \in BOOLEAN
      BY <3>2, HandlerKnown, Zenon
    <3>4. /\ e.pc \in HandlerPcs /\ e.tries \in 0..MaxPushRetries /\ e.got \in [Devices -> 0..MaxToken]
          /\ e.res \in [Devices -> Outcomes]
      BY <2>2, <2>3, <3>1, <3>2, Zenon
    <3> QED
      BY <3>2, <3>3, <3>4, HandlerMade, Zenon
  <2>5. OpenRight(e, a, token, live, loggedOut)
    BY <2>1 DEF HandlerRight, OpenRight, FirstStep
  <2>6. ReadRight(e, token, live)
    <3> SUFFICES ASSUME NEW d \in Devices
                 PROVE  0 <= live[d]
      BY <2>1 DEF ReadRight
    <3> QED
      BY DEF PushShape
  <2>7. QuietRight(w, e, a, loggedOut, online, muted) /\ DoneRight(e, a)
    BY <2>1 DEF HandlerRight, QuietRight, DoneRight, FirstStep, Ended
  <2> QED
    BY <2>4, <2>5, <2>6, <2>7, Zenon DEF HandlerRight
<1>2. CASE ~(r.tries < MaxPushRetries)
  <2>1. e = [pc |-> "dlq", tries |-> r.tries, got |-> r.got, res |-> r.res, again |-> r.again,
             raced |-> r.raced, onlineAll |-> r.onlineAll, mutedAll |-> r.mutedAll,
             revokedAll |-> r.revokedAll, shutOut |-> r.shutOut, hushed |-> r.hushed]
    BY <1>2 DEF HandlerRow
  <2>2. e \in HandlerRow /\ "dlq" \in Ended
    BY <2>1 DEF HandlerRow, Ended
  <2>3. ReadRight(e, token, live)
    BY <2>1, <2>2 DEF HandlerRight, ReadRight
  <2>4. QuietRight(w, e, a, loggedOut, online, muted) /\ DoneRight(e, a)
    BY <2>1, <2>2 DEF HandlerRight, QuietRight, DoneRight
  <2> QED
    BY <2>1, <2>2, <2>3, <2>4 DEF HandlerRight
<1> QED
  BY <1>1, <1>2, Zenon

\* Failures are counted.
LEMMA PushFaultsCounted ==
  ASSUME PushInv, PushFault \/ Fine PROVE pushFaults' \in 0..MaxPushFaults
BY PushAssumption DEF PushInv, PushShape, PushFault, Fine

\* A handler returns an error.
LEMMA ErrorInv ==
  ASSUME PushInv, NEW w \in PushWorkers, worker[w].pc \notin Ended, Error(w),
         PushFault \/ Fine, UNCHANGED <<token, loggedOut, user, alerted, wronged, pushChanges>>
  PROVE  PushInv'
<1> DEFINE r == worker[w]
           e == IF r.tries < MaxPushRetries THEN Fresh(w, [r EXCEPT !.tries = @ + 1])
                ELSE [r EXCEPT !.pc = "dlq"]
<1>1. /\ r \in HandlerRow /\ alerted[w] \in SUBSET Devices /\ PushShape
      /\ HandlerRight(w, r, alerted[w], token, live, loggedOut, online, muted)
  BY HandlerFields, Zenon DEF PushInv
<1>2. worker' = [worker EXCEPT ![w] = e]
  BY Zenon DEF Error, PushStep
<1>3. alerted' = [alerted EXCEPT ![w] = alerted[w]]
  BY Zenon DEF PushInv, PushShape
<1> HIDE DEF r
<1>4. e \in HandlerRow /\ HandlerRight(w, e, alerted[w], token, live, loggedOut, online, muted)
  BY <1>1, ErrorRow, Zenon DEF r
<1> HIDE DEF e
<1> QED
  BY <1>1, <1>2, <1>3, <1>4, PushFaultsCounted, HandlerMoves, Zenon

\* A handler goes on to its next read, or ends in success.
LEMMA GoRow ==
  ASSUME NEW w \in PushWorkers, NEW r \in HandlerRow, NEW a \in SUBSET Devices, NEW e,
         NEW pc \in {"done", "mute", "targets"}, r.pc \notin Ended, e = [r EXCEPT !.pc = pc],
         HandlerRight(w, r, a, token, live, loggedOut, online, muted),
         pc = "done" => r.hushed = TRUE \/ Devices \subseteq a \union r.shutOut,
         pc # "done" /\ w = "pusher" => r.onlineAll = FALSE,
         pc = "targets" /\ w = "pusher" => r.mutedAll = FALSE
  PROVE  e \in HandlerRow /\ HandlerRight(w, e, a, token, live, loggedOut, online, muted)
<1>1. e \in HandlerRow
  BY DEF HandlerRow, Ended
<1>2. /\ e.pc = pc /\ e.got = r.got /\ e.res = r.res /\ e.raced = r.raced
      /\ e.onlineAll = r.onlineAll /\ e.mutedAll = r.mutedAll /\ e.revokedAll = r.revokedAll
      /\ e.shutOut = r.shutOut /\ e.hushed = r.hushed
  BY DEF HandlerRow
<1>3. OpenRight(e, a, token, live, loggedOut)
  BY <1>2, Zenon DEF HandlerRight, OpenRight
<1>4. ReadRight(e, token, live)
  BY <1>2, Zenon DEF HandlerRight, ReadRight
<1>5. QuietRight(w, e, a, loggedOut, online, muted)
  BY <1>2, Zenon DEF HandlerRight, QuietRight
<1>6. DoneRight(e, a)
  BY <1>2, Zenon DEF DoneRight
<1> QED
  BY <1>1, <1>3, <1>4, <1>5, <1>6, Zenon DEF HandlerRight

\* Its step.
LEMMA GoInv ==
  ASSUME PushInv, NEW w \in PushWorkers, NEW pc \in {"done", "mute", "targets"},
         worker[w].pc \notin Ended, Go(w, pc), Fine,
         pc = "done" => worker[w].hushed = TRUE \/ Devices \subseteq alerted[w] \union worker[w].shutOut,
         pc # "done" /\ w = "pusher" => worker[w].onlineAll = FALSE,
         pc = "targets" /\ w = "pusher" => worker[w].mutedAll = FALSE,
         UNCHANGED <<token, loggedOut, user, alerted, wronged, pushChanges>>
  PROVE  PushInv'
<1> DEFINE r == worker[w]
           e == [r EXCEPT !.pc = pc]
<1>1. /\ r \in HandlerRow /\ alerted[w] \in SUBSET Devices
      /\ HandlerRight(w, r, alerted[w], token, live, loggedOut, online, muted)
  BY HandlerFields, Zenon
<1>2. worker' = [worker EXCEPT ![w] = e]
  BY Zenon DEF Go, PushStep
<1>3. alerted' = [alerted EXCEPT ![w] = alerted[w]]
  BY Zenon DEF PushInv, PushShape
<1> HIDE DEF r
<1>4. e \in HandlerRow /\ HandlerRight(w, e, alerted[w], token, live, loggedOut, online, muted)
  BY <1>1, GoRow, Zenon DEF r
<1> HIDE DEF e
<1> QED
  BY <1>1, <1>2, <1>3, <1>4, PushFaultsCounted, HandlerMoves, Zenon

\* What the handler of the pusher knows when it reads presence and mutes.
LEMMA PusherReadsInv == ASSUME PushInv, ReadPresence \/ ReadMute PROVE PushInv'
<1> DEFINE r == worker["pusher"]
<1>1. /\ r \in HandlerRow /\ "pusher" \in PushWorkers /\ online \in BOOLEAN /\ muted \in BOOLEAN
      /\ QuietRight("pusher", r, alerted["pusher"], loggedOut, online, muted)
  BY HandlerFields, Zenon DEF PushWorkers, HandlerRight, PushInv, PushShape
<1>2. r.onlineAll \in BOOLEAN /\ r.mutedAll \in BOOLEAN
  BY <1>1, HandlerKnown, Zenon
<1>3. ASSUME ReadPresence PROVE PushInv'
  <2>1. r.pc = "presence" /\ r.pc \notin Ended
    BY <1>3, Zenon DEF ReadPresence, Ended
  <2>2. CASE PushFault /\ Error("pusher")
    BY <1>1, <1>3, <2>1, <2>2, ErrorInv, Zenon DEF ReadPresence
  <2>3. CASE Fine /\ Go("pusher", IF online THEN "done" ELSE "mute")
    <3>1. CASE online = TRUE
      BY <1>1, <1>3, <2>1, <2>3, <3>1, GoInv, Zenon DEF ReadPresence, QuietRight
    <3>2. CASE online = FALSE
      BY <1>1, <1>2, <1>3, <2>1, <2>3, <3>2, GoInv, Zenon DEF ReadPresence, QuietRight
    <3> QED
      BY <1>1, <3>1, <3>2, Zenon
  <2> QED
    BY <1>3, <2>2, <2>3, Zenon DEF ReadPresence
<1>4. ASSUME ReadMute PROVE PushInv'
  <2>1. r.pc = "mute" /\ r.pc \notin Ended
    BY <1>4, Zenon DEF ReadMute, Ended
  <2>2. CASE PushFault /\ Error("pusher")
    BY <1>1, <1>4, <2>1, <2>2, ErrorInv, Zenon DEF ReadMute
  <2>3. CASE Fine /\ Go("pusher", IF muted THEN "done" ELSE "targets")
    <3>1. CASE muted = TRUE
      BY <1>1, <1>4, <2>1, <2>3, <3>1, GoInv, Zenon DEF ReadMute, QuietRight
    <3>2. CASE muted = FALSE
      BY <1>1, <1>2, <1>4, <2>1, <2>3, <3>2, GoInv, Zenon DEF ReadMute, QuietRight
    <3> QED
      BY <1>1, <3>1, <3>2, Zenon
  <2> QED
    BY <1>4, <2>2, <2>3, Zenon DEF ReadMute
<1> QED
  BY <1>3, <1>4, Zenon

\* PushTargetsFor: a device that nothing shut out has its token, so that no target
\* means that all are shut out.
LEMMA TargetsRow ==
  ASSUME PushInv, NEW w \in PushWorkers, NEW r \in HandlerRow, NEW a \in SUBSET Devices, NEW e,
         r.pc = "targets", HandlerRight(w, r, a, token, live, loggedOut, online, muted),
         NEW got \in [Devices -> 0..MaxToken], NEW pc \in {"done", "send"},
         \A d \in Devices : /\ d \in loggedOut => got[d] = 0
                            /\ d \notin loggedOut => got[d] = token[d],
         pc = "done" => \A d \in Devices : got[d] = 0,
         e = [r EXCEPT !.got = got, !.raced = {}, !.pc = pc]
  PROVE  e \in HandlerRow /\ HandlerRight(w, e, a, token, live, loggedOut, online, muted)
<1>1. \A d \in Devices : got[d] <= live[d]
  BY PushAssumption DEF PushInv, PushShape
<1>2. \A d \in Devices \ r.shutOut : got[d] = 1 /\ token[d] = 1 /\ live[d] = 1 /\ d \notin loggedOut
  BY Zenon DEF HandlerRight, OpenRight, Ended
<1>3. e \in HandlerRow
  BY DEF HandlerRow, Ended
<1>4. /\ e.pc = pc /\ e.got = got /\ e.res = r.res /\ e.raced = {}
      /\ e.onlineAll = r.onlineAll /\ e.mutedAll = r.mutedAll /\ e.revokedAll = r.revokedAll
      /\ e.shutOut = r.shutOut /\ e.hushed = r.hushed
  BY DEF HandlerRow
<1>5. OpenRight(e, a, token, live, loggedOut)
  <2> SUFFICES ASSUME NEW d \in Devices \ r.shutOut
               PROVE  /\ token[d] = 1 /\ live[d] = 1 /\ d \notin loggedOut /\ got[d] = 1
                      /\ pc # "results"
    BY <1>4 DEF OpenRight
  <2> QED
    BY <1>2
<1>6. QuietRight(w, e, a, loggedOut, online, muted)
  BY <1>4, Zenon DEF HandlerRight, QuietRight, Ended
<1>7. ReadRight(e, token, live)
  <2> SUFFICES ASSUME NEW d \in Devices
               PROVE  /\ got[d] <= live[d] /\ (d \in r.revokedAll => got[d] = 0)
                      /\ got[d] # 0 => token[d] \in {0, got[d]}
    BY <1>4, Zenon DEF ReadRight
  <2> QED
    BY <1>1, Zenon DEF HandlerRight, QuietRight
<1>8. DoneRight(e, a)
  <2> SUFFICES ASSUME \A d \in Devices : got[d] = 0, NEW d \in Devices PROVE d \in r.shutOut
    BY <1>4, Zenon DEF DoneRight
  <2> QED
    BY <1>2
<1> QED
  BY <1>3, <1>5, <1>6, <1>7, <1>8, Zenon DEF HandlerRight

\* SendAll: what FCM refused is an older token, what nothing shut out is accepted
\* or failed in another way.
LEMMA SentRow ==
  ASSUME PushInv, NEW w \in PushWorkers, worker[w].pc = "send", NEW e,
         NEW res \in [Devices -> Outcomes], NEW b \in SUBSET Devices,
         \A d \in Devices : res[d] = "dead" => d \in Targets(w) \ Accepted(w),
         alerted[w] \subseteq b, b \subseteq alerted[w] \union Accepted(w),
         \A d \in Accepted(w) : d \in b \/ res[d] \in {"retry", "rejected"},
         e = [worker[w] EXCEPT !.pc = "results", !.res = res]
  PROVE  e \in HandlerRow /\ HandlerRight(w, e, b, token, live, loggedOut, online, muted)
<1> DEFINE r == worker[w]
           a == alerted[w]
<1>1. r \in HandlerRow /\ HandlerRight(w, r, a, token, live, loggedOut, online, muted)
  BY HandlerFields, Zenon
<1>2. r.pc = "send" /\ e = [r EXCEPT !.pc = "results", !.res = res] /\ a \subseteq b
  OBVIOUS
<1>3. \A d \in Accepted(w) : d \in Devices /\ r.got[d] # 0 /\ r.got[d] = live[d]
  BY Zenon DEF Accepted, Targets
<1>4. \A d \in Devices : r.got[d] # 0 /\ r.got[d] = live[d] => d \in Accepted(w)
  BY Zenon DEF Accepted, Targets
<1>5. \A d \in Targets(w) \ Accepted(w) : r.got[d] # 0 /\ r.got[d] # live[d]
  BY Zenon DEF Accepted, Targets
<1>6. \A d \in Devices : r.got[d] \in Nat /\ live[d] \in Nat
  BY <1>1, HandlerKnown, PushAssumption DEF PushInv, PushShape
<1> HIDE DEF r, a
<1>7. e \in HandlerRow
  BY <1>1, <1>2 DEF HandlerRow, Ended
<1>8. /\ e.pc = "results" /\ e.got = r.got /\ e.res = res /\ e.raced = r.raced /\ e.again = r.again
      /\ e.onlineAll = r.onlineAll /\ e.mutedAll = r.mutedAll /\ e.revokedAll = r.revokedAll
      /\ e.shutOut = r.shutOut /\ e.hushed = r.hushed
  BY <1>1, <1>2 DEF HandlerRow
<1>9. OpenRight(e, b, token, live, loggedOut)
  <2> SUFFICES ASSUME NEW d \in Devices \ r.shutOut
               PROVE  /\ token[d] = 1 /\ live[d] = 1 /\ d \notin loggedOut /\ r.got[d] = 1
                      /\ d \in b \/ res[d] \in {"retry", "rejected"}
    BY <1>8, Zenon DEF OpenRight
  <2>1. token[d] = 1 /\ live[d] = 1 /\ d \notin loggedOut /\ r.got[d] = 1
    BY <1>1, <1>2, Zenon DEF HandlerRight, OpenRight, Ended
  <2>2. d \in Accepted(w)
    BY <1>4, <2>1
  <2> QED
    BY <2>1, <2>2, Zenon
<1>10. ReadRight(e, token, live)
  <2> SUFFICES ASSUME NEW d \in Devices
               PROVE  /\ r.got[d] <= live[d] /\ (res[d] = "dead" => r.got[d] < live[d] /\ r.got[d] # 0)
                      /\ d \in r.revokedAll => r.got[d] = 0
                      /\ d \notin r.raced /\ r.got[d] # 0 => token[d] \in {0, r.got[d]}
    BY <1>8, Zenon DEF ReadRight
  <2>1. /\ r.got[d] <= live[d] /\ (d \in r.revokedAll => r.got[d] = 0)
        /\ d \notin r.raced /\ r.got[d] # 0 => token[d] \in {0, r.got[d]}
    BY <1>1, <1>2, Zenon DEF HandlerRight, ReadRight, Ended
  <2>2. res[d] = "dead" => r.got[d] # live[d] /\ r.got[d] # 0
    BY <1>5, Zenon
  <2>3. res[d] = "dead" => r.got[d] < live[d] /\ r.got[d] # 0
    BY <1>6, <2>1, <2>2
  <2> QED
    BY <2>1, <2>3, Zenon
<1>11. b \intersect r.revokedAll = {}
  BY <1>1, <1>3, Zenon DEF HandlerRight, ReadRight, QuietRight, a
<1>12. QuietRight(w, e, b, loggedOut, online, muted)
  BY <1>1, <1>2, <1>8, <1>11, Zenon DEF HandlerRight, QuietRight, Ended
<1> QED
  BY <1>7, <1>8, <1>9, <1>10, <1>12, Zenon DEF HandlerRight, DoneRight

\* Both handlers read the tokens.
LEMMA ReadTargetsInv == ASSUME PushInv, NEW w \in PushWorkers, ReadTargets(w) PROVE PushInv'
<1> DEFINE r == worker[w]
           got == [d \in Devices |-> IF d \in loggedOut THEN 0 ELSE token[d]]
           pc == IF \A d \in Devices : got[d] = 0 THEN "done" ELSE "send"
           e == [r EXCEPT !.got = got, !.raced = {}, !.pc = pc]
<1>1. /\ r \in HandlerRow /\ alerted[w] \in SUBSET Devices /\ r.pc = "targets" /\ r.pc \notin Ended
      /\ HandlerRight(w, r, alerted[w], token, live, loggedOut, online, muted)
  BY HandlerFields, Zenon DEF ReadTargets, Ended
<1>2. CASE PushFault /\ Error(w)
  BY <1>1, <1>2, ErrorInv, Zenon DEF ReadTargets
<1>3. CASE Fine /\ PushStep(w, e)
  <2>1. worker' = [worker EXCEPT ![w] = e]
    BY <1>3, Zenon DEF PushStep
  <2>2. alerted' = [alerted EXCEPT ![w] = alerted[w]]
        /\ UNCHANGED <<token, loggedOut, user, wronged, pushChanges>>
    BY Zenon DEF PushInv, PushShape, ReadTargets
  <2>3. /\ got \in [Devices -> 0..MaxToken]
        /\ \A d \in Devices : /\ d \in loggedOut => got[d] = 0
                              /\ d \notin loggedOut => got[d] = token[d]
    BY PushAssumption DEF PushInv, PushShape
  <2> HIDE DEF got
  <2>4. pc \in {"done", "send"} /\ (pc = "done" => \A d \in Devices : got[d] = 0)
    BY Zenon
  <2> HIDE DEF pc, r
  <2>5. e \in HandlerRow /\ HandlerRight(w, e, alerted[w], token, live, loggedOut, online, muted)
    BY <1>1, <2>3, <2>4, TargetsRow, Zenon
  <2> HIDE DEF e
  <2> QED
    BY <1>1, <1>3, <2>1, <2>2, <2>5, PushFaultsCounted, HandlerMoves, Zenon
<1> QED
  BY <1>2, <1>3, Zenon DEF ReadTargets

\* Results of a send take their place.
LEMMA SentInv ==
  ASSUME PushInv, NEW w \in PushWorkers, SendAll(w), PushFault \/ Fine,
         NEW res \in [Devices -> Outcomes], NEW b \in SUBSET Devices,
         \A d \in Devices : res[d] = "dead" => d \in Targets(w) \ Accepted(w),
         alerted[w] \subseteq b, b \subseteq alerted[w] \union Accepted(w),
         \A d \in Accepted(w) : d \in b \/ res[d] \in {"retry", "rejected"},
         PushStep(w, [worker[w] EXCEPT !.pc = "results", !.res = res]),
         alerted' = [alerted EXCEPT ![w] = b]
  PROVE  PushInv'
<1> DEFINE e == [worker[w] EXCEPT !.pc = "results", !.res = res]
<1>1. worker[w].pc = "send" /\ UNCHANGED <<token, loggedOut, user, wronged, pushChanges>>
  BY Zenon DEF SendAll
<1>2. worker' = [worker EXCEPT ![w] = e]
  BY Zenon DEF PushStep
<1>3. e \in HandlerRow /\ HandlerRight(w, e, b, token, live, loggedOut, online, muted)
  BY <1>1, SentRow, Zenon
<1> HIDE DEF e
<1> QED
  BY <1>1, <1>2, <1>3, PushFaultsCounted, HandlerMoves, Zenon

\* The sends of a record.
LEMMA SendAllInv == ASSUME PushInv, NEW w \in PushWorkers, SendAll(w) PROVE PushInv'
<1>1. /\ worker[w].pc = "send" /\ worker[w].pc \notin Ended /\ alerted[w] \in SUBSET Devices
      /\ Accepted(w) \in SUBSET Devices /\ Accepted(w) \subseteq Targets(w)
  BY HandlerFields, Zenon DEF SendAll, Ended, Accepted, Targets
<1>2. CASE PushFault /\ Error(w) /\ UNCHANGED alerted
  <2>1. UNCHANGED <<token, loggedOut, user, alerted, wronged, pushChanges>>
    BY <1>2, Zenon DEF SendAll
  <2> QED
    BY <1>1, <1>2, <2>1, ErrorInv, Zenon
<1>3. ASSUME Fine,
             PushStep(w, [worker[w] EXCEPT !.pc = "results",
               !.res = [d \in Devices |-> IF d \notin Targets(w) THEN "none"
                                          ELSE IF d \in Accepted(w) THEN "ok" ELSE "dead"]]),
             alerted' = [alerted EXCEPT ![w] = @ \union Accepted(w)]
      PROVE  PushInv'
  <2> DEFINE res == [d \in Devices |-> IF d \notin Targets(w) THEN "none"
                                       ELSE IF d \in Accepted(w) THEN "ok" ELSE "dead"]
             b == alerted[w] \union Accepted(w)
  <2>1. /\ res \in [Devices -> Outcomes]
        /\ \A d \in Devices : res[d] = "dead" => d \in Targets(w) \ Accepted(w)
    BY Zenon DEF Outcomes
  <2>2. /\ alerted' = [alerted EXCEPT ![w] = b] /\ b \in SUBSET Devices /\ alerted[w] \subseteq b
        /\ b \subseteq alerted[w] \union Accepted(w) /\ \A d \in Accepted(w) : d \in b
    BY <1>1, <1>3, Zenon
  <2>3. PushStep(w, [worker[w] EXCEPT !.pc = "results", !.res = res])
    BY <1>3, Zenon
  <2> HIDE DEF res, b
  <2> QED
    BY <1>3, <2>1, <2>2, <2>3, SentInv, Zenon
<1>4. ASSUME PushFault, NEW d \in Targets(w), NEW outcome \in {"retry", "rejected"},
             PushStep(w, [worker[w] EXCEPT !.pc = "results", !.res = FailedSend(w, d, outcome)]),
             NEW shown \in SUBSET (Accepted(w) \intersect {d}),
             alerted' = [alerted EXCEPT ![w] = @ \union (Accepted(w) \ {d}) \union
                                               (IF outcome = "retry" THEN shown ELSE {})]
      PROVE  PushInv'
  <2> DEFINE res == FailedSend(w, d, outcome)
             b == alerted[w] \union (Accepted(w) \ {d}) \union (IF outcome = "retry" THEN shown ELSE {})
  <2>1. /\ res \in [Devices -> Outcomes] /\ res[d] = outcome
        /\ \A x \in Devices : res[x] = "dead" => x \in Targets(w) \ Accepted(w)
    <3>1. res \in [Devices -> Outcomes]
      BY <1>4, Zenon DEF Outcomes, FailedSend
    <3>2. d \in Devices
      BY <1>4, Zenon DEF Targets
    <3>3. \A x \in Devices : res[x] = IF x \notin Targets(w) THEN "none" ELSE IF x = d THEN outcome
                                      ELSE IF x \in Accepted(w) THEN "ok" ELSE "dead"
      BY Zenon DEF FailedSend
    <3> QED
      BY <1>4, <3>1, <3>2, <3>3, Zenon
  <2>2. /\ alerted' = [alerted EXCEPT ![w] = b] /\ b \in SUBSET Devices /\ alerted[w] \subseteq b
        /\ b \subseteq alerted[w] \union Accepted(w)
        /\ \A x \in Accepted(w) : x \in b \/ res[x] \in {"retry", "rejected"}
    BY <1>1, <1>4, <2>1, Zenon
  <2>3. PushStep(w, [worker[w] EXCEPT !.pc = "results", !.res = res])
    BY <1>4, Zenon
  <2> HIDE DEF res, b
  <2> QED
    BY <1>4, <2>1, <2>2, <2>3, SentInv, Zenon
<1> QED
  BY <1>2, <1>3, <1>4, Zenon DEF SendAll

\* The handler's record once the result of a device is dealt with.
Passed(r, d, again, out) ==
  [r EXCEPT !.res = [r.res EXCEPT ![d] = "none"], !.again = again, !.shutOut = out]

\* One result is dealt with: a failed send that is passed over is to be retried,
\* or was rejected for good.
LEMMA ResultRow ==
  ASSUME NEW w \in PushWorkers, NEW r \in HandlerRow, NEW a \in SUBSET Devices,
         NEW tk, NEW d \in Devices, NEW again \in BOOLEAN, NEW out \in SUBSET Devices,
         r.pc = "results", HandlerRight(w, r, a, tk, live, loggedOut, online, muted),
         r.shutOut \subseteq out, r.again = TRUE => again = TRUE,
         d \in out \/ again = TRUE \/ r.res[d] \notin {"retry", "rejected"}
  PROVE  /\ Passed(r, d, again, out) \in HandlerRow
         /\ HandlerRight(w, Passed(r, d, again, out), a, tk, live, loggedOut, online, muted)
<1> DEFINE e == Passed(r, d, again, out)
           res == [r.res EXCEPT ![d] = "none"]
<1>1. e = [r EXCEPT !.res = res, !.again = again, !.shutOut = out]
  BY Zenon DEF Passed
<1>2. /\ res \in [Devices -> Outcomes] /\ res[d] = "none"
      /\ \A x \in Devices \ {d} : res[x] = r.res[x]
  <2>1. r.res \in [Devices -> Outcomes] /\ "none" \in Outcomes
    BY HandlerKnown, Zenon DEF Outcomes
  <2> QED
    BY <2>1
<1> HIDE DEF res, e
<1>3. e \in HandlerRow
  BY <1>1, <1>2 DEF HandlerRow
<1>4. /\ e.pc = "results" /\ e.got = r.got /\ e.res = res /\ e.raced = r.raced /\ e.again = again
      /\ e.onlineAll = r.onlineAll /\ e.mutedAll = r.mutedAll /\ e.revokedAll = r.revokedAll
      /\ e.shutOut = out /\ e.hushed = r.hushed
  BY <1>1 DEF HandlerRow
<1>5. OpenRight(e, a, tk, live, loggedOut)
  <2> SUFFICES ASSUME NEW x \in Devices \ out
               PROVE  /\ tk[x] = 1 /\ live[x] = 1 /\ x \notin loggedOut /\ r.got[x] = 1
                      /\ x \in a \/ res[x] \in {"retry", "rejected"} \/ again = TRUE
    BY <1>4, Zenon DEF OpenRight
  <2>1. /\ tk[x] = 1 /\ live[x] = 1 /\ x \notin loggedOut /\ r.got[x] = 1
        /\ x \in a \/ r.res[x] \in {"retry", "rejected"} \/ again = TRUE
    BY Zenon DEF HandlerRight, OpenRight, Ended
  <2>2. CASE x = d
    BY <2>1, <2>2, Zenon
  <2>3. CASE x # d
    BY <1>2, <2>1, <2>3, Zenon
  <2> QED
    BY <2>2, <2>3, Zenon
<1>6. ReadRight(e, tk, live)
  <2> SUFFICES ASSUME NEW x \in Devices
               PROVE  /\ r.got[x] <= live[x]
                      /\ res[x] = "dead" => r.got[x] < live[x] /\ r.got[x] # 0
                      /\ x \in r.revokedAll => r.got[x] = 0
                      /\ x \notin r.raced /\ r.got[x] # 0 => tk[x] \in {0, r.got[x]}
    BY <1>4, Zenon DEF ReadRight
  <2>1. /\ r.got[x] <= live[x]
        /\ r.res[x] = "dead" => r.got[x] < live[x] /\ r.got[x] # 0
        /\ x \in r.revokedAll => r.got[x] = 0
        /\ x \notin r.raced /\ r.got[x] # 0 => tk[x] \in {0, r.got[x]}
    BY Zenon DEF HandlerRight, ReadRight, Ended
  <2>2. res[x] = "dead" => r.res[x] = "dead"
    BY <1>2
  <2> QED
    BY <2>1, <2>2, Zenon
<1>7. QuietRight(w, e, a, loggedOut, online, muted)
  BY <1>4, Zenon DEF HandlerRight, QuietRight
<1> QED
  BY <1>3, <1>4, <1>5, <1>6, <1>7, Zenon DEF HandlerRight, DoneRight, e

\* Its step, with the tokens as they are.
LEMMA ResultInv ==
  ASSUME PushInv, NEW w \in PushWorkers, NEW d \in Devices, worker[w].pc = "results",
         NEW again \in BOOLEAN, NEW out \in SUBSET Devices,
         worker[w].shutOut \subseteq out, worker[w].again = TRUE => again = TRUE,
         d \in out \/ again = TRUE \/ worker[w].res[d] \notin {"retry", "rejected"},
         PushStep(w, Passed(worker[w], d, again, out)),
         PushFault \/ Fine, UNCHANGED <<token, loggedOut, user, alerted, wronged, pushChanges>>
  PROVE  PushInv'
<1> DEFINE e == Passed(worker[w], d, again, out)
<1>1. /\ worker[w] \in HandlerRow /\ alerted[w] \in SUBSET Devices
      /\ HandlerRight(w, worker[w], alerted[w], token, live, loggedOut, online, muted)
  BY HandlerFields, Zenon
<1>2. worker' = [worker EXCEPT ![w] = e] /\ alerted' = [alerted EXCEPT ![w] = alerted[w]]
  BY Zenon DEF PushStep, PushInv, PushShape
<1>3. e \in HandlerRow /\ HandlerRight(w, e, alerted[w], token, live, loggedOut, online, muted)
  BY <1>1, ResultRow, Zenon
<1> HIDE DEF e
<1> QED
  BY <1>1, <1>2, <1>3, PushFaultsCounted, HandlerMoves, Zenon

\* The row that Handled leaves, told with every field that a result may change.
LEMMA HandledRow ==
  ASSUME PushInv, NEW w \in PushWorkers, NEW d \in Devices
  PROVE  /\ Handled(w, d) = Passed(worker[w], d, worker[w].again, worker[w].shutOut)
         /\ [Handled(w, d) EXCEPT !.again = TRUE]
              = Passed(worker[w], d, TRUE, worker[w].shutOut)
         /\ \A S : [Handled(w, d) EXCEPT !.shutOut = S]
                     = Passed(worker[w], d, worker[w].again, S)
<1>1. worker[w] \in HandlerRow
  BY HandlerFields, Zenon
<1> QED
  BY <1>1 DEF HandlerRow, Handled, Passed

\* A transient failure.
LEMMA OnRetryableInv ==
  ASSUME PushInv, NEW w \in PushWorkers, NEW d \in Devices, OnRetryable(w, d) PROVE PushInv'
<1>1. /\ worker[w].pc = "results" /\ worker[w].pc \notin Ended /\ Fine
      /\ UNCHANGED <<token, loggedOut, user, alerted, wronged, pushChanges>>
  BY Zenon DEF OnRetryable, Ended
<1>2. CASE w # "pusher"
  BY <1>1, <1>2, ErrorInv, Zenon DEF OnRetryable
<1>3. CASE w = "pusher"
  <2>1. PushStep(w, Passed(worker[w], d, TRUE, worker[w].shutOut))
    BY <1>3, HandledRow, Zenon DEF OnRetryable
  <2>2. worker[w].shutOut \in SUBSET Devices
    BY HandlerFields, HandlerKnown, Zenon
  <2> QED
    BY <1>1, <2>1, <2>2, ResultInv, Zenon
<1> QED
  BY <1>2, <1>3, Zenon

\* A send that was accepted, or rejected for good.
LEMMA OnSettledInv ==
  ASSUME PushInv, NEW w \in PushWorkers, NEW d \in Devices, OnSettled(w, d) PROVE PushInv'
<1> DEFINE out == IF worker[w].res[d] = "rejected" THEN worker[w].shutOut \union {d}
                  ELSE worker[w].shutOut
<1>1. /\ worker[w].pc = "results" /\ worker[w].res[d] \in {"ok", "rejected"} /\ Fine
      /\ UNCHANGED <<token, loggedOut, user, alerted, wronged, pushChanges>>
  BY Zenon DEF OnSettled
<1>2. worker[w] \in HandlerRow /\ worker[w].shutOut \in SUBSET Devices /\ worker[w].again \in BOOLEAN
  BY HandlerFields, HandlerKnown, Zenon
<1>3. PushStep(w, [Handled(w, d) EXCEPT !.shutOut = out])
  <2>1. Handled(w, d).shutOut = worker[w].shutOut
    BY <1>2 DEF Handled, HandlerRow
  <2>2. [Handled(w, d) EXCEPT !.shutOut = IF worker[w].res[d] = "rejected" THEN @ \union {d} ELSE @]
          = [Handled(w, d) EXCEPT !.shutOut = out]
    BY <2>1
  <2> QED
    BY <2>2, Zenon DEF OnSettled
<1>4. /\ out \in SUBSET Devices /\ worker[w].shutOut \subseteq out
      /\ d \in out \/ worker[w].res[d] \notin {"retry", "rejected"}
  BY <1>1, <1>2
<1> HIDE DEF out
<1>5. PushStep(w, Passed(worker[w], d, worker[w].again, out))
  BY <1>3, HandledRow, Zenon
<1> QED
  BY <1>1, <1>2, <1>4, <1>5, ResultInv, Zenon

\* A token that FCM calls unregistered is older than the device's, so that only a
\* device that is shut out loses one, and none loses a live one unraced.
LEMMA ClearedInv ==
  ASSUME PushInv, NEW w \in PushWorkers, NEW d \in Devices, worker[w].pc = "results",
         worker[w].res[d] = "dead", ClearPushToken(w, d), PushStep(w, Handled(w, d)), Fine,
         UNCHANGED <<loggedOut, user, alerted, pushChanges>>
  PROVE  PushInv'
<1> DEFINE r == worker[w]
           e == Passed(r, d, r.again, r.shutOut)
           tk == [token EXCEPT ![d] = 0]
<1>1. /\ r \in HandlerRow /\ alerted[w] \in SUBSET Devices
      /\ r.again \in BOOLEAN /\ r.shutOut \in SUBSET Devices
      /\ HandlerRight(w, r, alerted[w], token, live, loggedOut, online, muted)
  BY HandlerFields, HandlerKnown, Zenon
<1>2. /\ token \in [Devices -> 0..MaxToken] /\ live[d] \in 1..MaxToken /\ r.got[d] \in 0..MaxToken
      /\ \A x \in Devices : token[x] <= live[x] /\ live[x] \in 1..MaxToken
  BY <1>1, HandlerKnown, Zenon DEF PushInv, PushShape
<1>3. r.got[d] < live[d] /\ r.got[d] # 0 /\ (d \notin r.raced => token[d] \in {0, r.got[d]})
  BY <1>1, Zenon DEF HandlerRight, ReadRight, Ended
<1>4. live[d] # 1 /\ (d \notin r.raced => token[d] # live[d])
  BY <1>2, <1>3, PushAssumption
<1>5. wronged' = wronged /\ token' = tk
  BY <1>4, Zenon DEF ClearPushToken
<1>6. /\ tk \in [Devices -> 0..MaxToken] /\ tk[d] = 0 /\ \A x \in Devices \ {d} : tk[x] = token[x]
      /\ \A x \in Devices : tk[x] <= live[x]
  BY <1>2, PushAssumption
<1> HIDE DEF tk, r
<1>7. ASSUME NEW v \in PushWorkers
      PROVE  HandlerRight(v, worker[v], alerted[v], tk, live, loggedOut, online, muted)
  <2>1. HandlerRight(v, worker[v], alerted[v], token, live, loggedOut, online, muted)
    BY <1>7, HandlerFields, Zenon
  <2>2. worker[v].pc \notin Ended => OpenRight(worker[v], alerted[v], tk, live, loggedOut)
    <3> SUFFICES ASSUME worker[v].pc \notin Ended, NEW x \in Devices \ worker[v].shutOut
                 PROVE  tk[x] = 1
      BY <2>1, Zenon DEF HandlerRight, OpenRight
    <3>1. token[x] = 1 /\ live[x] = 1
      BY <2>1, Zenon DEF HandlerRight, OpenRight
    <3> QED
      BY <1>4, <1>6, <3>1, Zenon
  <2>3. ReadRight(worker[v], tk, live)
    <3> SUFFICES ASSUME NEW x \in Devices, worker[v].pc \notin Ended, x \notin worker[v].raced,
                        worker[v].got[x] # 0
                 PROVE  tk[x] \in {0, worker[v].got[x]}
      BY <2>1, Zenon DEF HandlerRight, ReadRight
    <3>1. token[x] \in {0, worker[v].got[x]}
      BY <2>1, Zenon DEF HandlerRight, ReadRight
    <3> QED
      BY <1>6, <3>1, Zenon
  <2> QED
    BY <2>1, <2>2, <2>3, Zenon DEF HandlerRight
<1>8. worker' = [worker EXCEPT ![w] = e] /\ alerted' = [alerted EXCEPT ![w] = alerted[w]]
  BY HandledRow, Zenon DEF PushStep, PushInv, PushShape, r
<1>9. e \in HandlerRow /\ HandlerRight(w, e, alerted[w], tk, live, loggedOut, online, muted)
  BY <1>1, <1>7, ResultRow, Zenon DEF r
<1> HIDE DEF e
<1> QED
  BY <1>1, <1>5, <1>6, <1>7, <1>8, <1>9, PushFaultsCounted, HandlerMovesAt, Zenon

\* An unregistered token.
LEMMA OnUnregisteredInv ==
  ASSUME PushInv, NEW w \in PushWorkers, NEW d \in Devices, OnUnregistered(w, d) PROVE PushInv'
<1>1. /\ worker[w].pc = "results" /\ worker[w].pc \notin Ended /\ worker[w].res[d] = "dead"
      /\ UNCHANGED <<loggedOut, user, alerted, pushChanges>>
  BY Zenon DEF OnUnregistered, Ended
<1>2. CASE Fine /\ ClearPushToken(w, d) /\ PushStep(w, Handled(w, d))
  BY <1>1, <1>2, ClearedInv, Zenon
<1>3. CASE /\ PushFault /\ UNCHANGED <<token, wronged>>
           /\ IF w = "pusher" THEN PushStep(w, Handled(w, d)) ELSE Error(w)
  <2>1. UNCHANGED <<token, loggedOut, user, alerted, wronged, pushChanges>>
    BY <1>1, <1>3, Zenon
  <2>2. CASE w # "pusher"
    BY <1>1, <1>3, <2>1, <2>2, ErrorInv, Zenon
  <2>3. CASE w = "pusher"
    <3>1. worker[w].shutOut \in SUBSET Devices /\ worker[w].again \in BOOLEAN
      BY HandlerFields, HandlerKnown, Zenon
    <3>2. PushStep(w, Passed(worker[w], d, worker[w].again, worker[w].shutOut))
      BY <1>3, <2>3, HandledRow, Zenon
    <3>3. worker[w].res[d] \notin {"retry", "rejected"}
      BY <1>1
    <3> QED
      BY <1>1, <1>3, <2>1, <3>1, <3>2, <3>3, ResultInv, Zenon
  <2> QED
    BY <2>2, <2>3, Zenon
<1> QED
  BY <1>2, <1>3, Zenon DEF OnUnregistered

\* The handler returns.
LEMMA ReturnResultInv ==
  ASSUME PushInv, NEW w \in PushWorkers, ReturnResult(w) PROVE PushInv'
<1>1. /\ worker[w].pc = "results" /\ worker[w].pc \notin Ended /\ Fine
      /\ \A d \in Devices : worker[w].res[d] = "none"
      /\ UNCHANGED <<token, loggedOut, user, alerted, wronged, pushChanges>>
  BY Zenon DEF ReturnResult, Ended
<1>2. /\ worker[w].again \in BOOLEAN
      /\ HandlerRight(w, worker[w], alerted[w], token, live, loggedOut, online, muted)
  BY HandlerFields, HandlerKnown, Zenon
<1>3. CASE worker[w].again = TRUE
  BY <1>1, <1>3, ErrorInv, Zenon DEF ReturnResult
<1>4. CASE worker[w].again = FALSE
  <2>1. Devices \subseteq alerted[w] \union worker[w].shutOut
    <3> SUFFICES ASSUME NEW d \in Devices, d \notin worker[w].shutOut PROVE d \in alerted[w]
      BY Zenon
    <3>1. d \in alerted[w] \/ worker[w].res[d] \in {"retry", "rejected"}
      BY <1>1, <1>2, <1>4, Zenon DEF HandlerRight, OpenRight
    <3> QED
      BY <1>1, <3>1
  <2> QED
    BY <1>1, <1>4, <2>1, GoInv, Zenon DEF ReturnResult
<1> QED
  BY <1>2, <1>3, <1>4, Zenon

\* A handler that has ended is right whatever the user and the devices do.
LEMMA EndedRow ==
  ASSUME NEW w \in PushWorkers, NEW r \in HandlerRow, NEW a \in SUBSET Devices, r.pc \in Ended,
         HandlerRight(w, r, a, token, live, loggedOut, online, muted),
         NEW tk, NEW lv, NEW out, NEW on, NEW mu, loggedOut \subseteq out,
         \A d \in Devices : \A n \in 0..MaxToken : n <= live[d] => n <= lv[d]
  PROVE  HandlerRight(w, r, a, tk, lv, out, on, mu)
<1>1. \A d \in Devices : r.got[d] \in 0..MaxToken
  BY HandlerKnown, Zenon
<1>2. ReadRight(r, tk, lv)
  BY <1>1, Zenon DEF HandlerRight, ReadRight, Ended
<1> QED
  BY <1>2, Zenon DEF HandlerRight, QuietRight

\* The handlers' records after a change of theirs.
NoteOf(r, x, y, s, t, z) ==
  [r EXCEPT !.onlineAll = x, !.mutedAll = y, !.revokedAll = s, !.shutOut = t, !.hushed = z]

Noted(w, r, on, mu, rv) ==
  NoteOf(r, r.onlineAll /\ on, r.mutedAll /\ mu, r.revokedAll \intersect rv, r.shutOut \union rv,
         r.hushed \/ (w = "pusher" /\ (on \/ mu)))

\* What stayed so since the record was taken up is noted.
LEMMA NotedRow ==
  ASSUME NEW w \in PushWorkers, NEW r \in HandlerRow, NEW a \in SUBSET Devices, r.pc \notin Ended,
         HandlerRight(w, r, a, token, live, loggedOut, online, muted),
         NEW on \in BOOLEAN, NEW mu \in BOOLEAN, NEW rv \in SUBSET Devices, NEW tk,
         loggedOut \subseteq rv, \A d \in Devices : tk[d] = token[d] \/ (tk[d] = 0 /\ d \in rv)
  PROVE  /\ Noted(w, r, on, mu, rv) \in HandlerRow
         /\ HandlerRight(w, Noted(w, r, on, mu, rv), a, tk, live, rv, on, mu)
<1> DEFINE x == r.onlineAll /\ on
           y == r.mutedAll /\ mu
           s == r.revokedAll \intersect rv
           t == r.shutOut \union rv
           z == r.hushed \/ (w = "pusher" /\ (on \/ mu))
           e == NoteOf(r, x, y, s, t, z)
<1>1. r.onlineAll \in BOOLEAN /\ r.mutedAll \in BOOLEAN /\ r.hushed \in BOOLEAN
  BY HandlerKnown, Zenon
<1>2. /\ x \in BOOLEAN /\ (x = TRUE => on = TRUE) /\ (r.onlineAll = FALSE => x = FALSE)
      /\ y \in BOOLEAN /\ (y = TRUE => mu = TRUE) /\ (r.mutedAll = FALSE => y = FALSE)
      /\ z \in BOOLEAN /\ (w = "pusher" /\ (on = TRUE \/ mu = TRUE) => z = TRUE)
  BY <1>1, Zenon
<1>3. s \in SUBSET Devices /\ t \in SUBSET Devices /\ s \subseteq rv /\ s \subseteq r.revokedAll
      /\ rv \subseteq t /\ r.shutOut \subseteq t
  BY HandlerKnown, Zenon
<1>4. e = Noted(w, r, on, mu, rv)
  BY Zenon DEF Noted
<1> HIDE DEF x, y, s, t, z
<1>5. /\ e \in HandlerRow /\ e.pc = r.pc /\ e.got = r.got /\ e.res = r.res /\ e.raced = r.raced
      /\ e.again = r.again /\ e.revokedAll = s /\ e.shutOut = t
      /\ e.onlineAll = x /\ e.mutedAll = y /\ e.hushed = z
  <2>1. x \in BOOLEAN /\ y \in BOOLEAN /\ z \in BOOLEAN /\ s \in SUBSET Devices /\ t \in SUBSET Devices
    BY <1>2, <1>3, Zenon
  <2> QED
    BY <2>1 DEF NoteOf, HandlerRow
<1> HIDE DEF e
<1>6. OpenRight(e, a, tk, live, rv)
  <2>1. OpenRight(r, a, token, live, loggedOut)
    BY Zenon DEF HandlerRight
  <2>2. \A d \in Devices \ e.shutOut : d \in Devices \ r.shutOut /\ tk[d] = token[d] /\ d \notin rv
    BY <1>3, <1>5, Zenon
  <2> QED
    BY <1>5, <2>1, <2>2, Zenon DEF OpenRight
<1>7. ReadRight(e, tk, live)
  <2>1. ReadRight(r, token, live)
    BY Zenon DEF HandlerRight
  <2> QED
    BY <1>3, <1>5, <2>1, Zenon DEF ReadRight
<1>8. QuietRight(w, e, a, rv, on, mu)
  <2>1. QuietRight(w, r, a, loggedOut, online, muted)
    BY Zenon DEF HandlerRight
  <2>2. a \intersect e.revokedAll = {} /\ e.revokedAll \subseteq rv
    BY <1>3, <1>5, <2>1, Zenon DEF QuietRight
  <2> QED
    BY <1>2, <1>5, <2>1, <2>2, Zenon DEF QuietRight
<1>9. DoneRight(e, a)
  BY <1>5, Zenon DEF DoneRight, Ended
<1> QED
  BY <1>4, <1>5, <1>6, <1>7, <1>8, <1>9, Zenon DEF HandlerRight

\* The counters and what the handlers' steps leave to the user.
LEMMA PushChangesCounted ==
  ASSUME PushInv, PushChange PROVE pushChanges' \in 0..MaxPushChanges
BY PushAssumption DEF PushInv, PushShape, PushChange

\* A change the user makes that the handlers note.
LEMMA SinceInv ==
  ASSUME PushInv, PushChange, NEW on \in BOOLEAN, NEW mu \in BOOLEAN, NEW rv \in SUBSET Devices,
         Since(on, mu, rv), online' = on, muted' = mu, loggedOut' = rv, loggedOut \subseteq rv,
         token' \in [Devices -> 0..MaxToken], \A d \in Devices : token'[d] <= live[d],
         \A d \in Devices : token'[d] = token[d] \/ (token'[d] = 0 /\ d \in rv),
         UNCHANGED <<live, alerted, wronged, pushFaults>>
  PROVE  PushInv'
<1>1. /\ \A w \in PushWorkers :
           worker'[w] = IF worker[w].pc \in Ended THEN worker[w] ELSE Noted(w, worker[w], on, mu, rv)
      /\ DOMAIN worker' = PushWorkers /\ worker' = [w \in PushWorkers |-> worker'[w]]
  BY Zenon DEF Since, Noted, NoteOf
<1>2. live' = live /\ alerted' = alerted /\ wronged' = wronged /\ pushFaults' = pushFaults
  BY Zenon
<1>3. ASSUME NEW w \in PushWorkers
      PROVE  /\ worker'[w] \in HandlerRow
             /\ HandlerRight(w, worker'[w], alerted[w], token', live, rv, on, mu)
  <2>1. /\ worker[w] \in HandlerRow /\ alerted[w] \in SUBSET Devices
        /\ HandlerRight(w, worker[w], alerted[w], token, live, loggedOut, online, muted)
    BY <1>3, HandlerFields, Zenon
  <2>2. CASE worker[w].pc \in Ended
    <3>1. HandlerRight(w, worker[w], alerted[w], token', live, rv, on, mu)
      BY <2>1, <2>2, EndedRow, Zenon
    <3> QED
      BY <1>1, <2>1, <2>2, <3>1, Zenon
  <2>3. CASE worker[w].pc \notin Ended
    <3>1. /\ Noted(w, worker[w], on, mu, rv) \in HandlerRow
          /\ HandlerRight(w, Noted(w, worker[w], on, mu, rv), alerted[w], token', live, rv, on, mu)
      BY <2>1, <2>3, NotedRow, Zenon
    <3> QED
      BY <1>1, <2>3, <3>1, Zenon
  <2> QED
    BY <2>2, <2>3, Zenon
<1>4. worker' \in [PushWorkers -> HandlerRow]
  BY <1>1, <1>3, Zenon
<1>5. PushShape'
  BY <1>2, <1>4, PushChangesCounted, Zenon DEF PushInv, PushShape
<1> QED
  BY <1>2, <1>3, <1>5, Zenon DEF PushInv

\* The user comes online or goes, mutes or unmutes, revokes a session.
LEMMA UserInv ==
  ASSUME PushInv, ChangePresence \/ ChangeMute \/ \E d \in Devices : RevokeDevice(d) PROVE PushInv'
<1>1. /\ token \in [Devices -> 0..MaxToken] /\ \A d \in Devices : token[d] <= live[d]
      /\ loggedOut \in SUBSET Devices /\ online \in BOOLEAN /\ muted \in BOOLEAN
      /\ (~online) \in BOOLEAN /\ (~muted) \in BOOLEAN
  BY Zenon DEF PushInv, PushShape
<1>2. ASSUME ChangePresence PROVE PushInv'
  <2>1. /\ PushChange /\ Since(~online, muted, loggedOut) /\ online' = (~online) /\ muted' = muted
        /\ loggedOut' = loggedOut /\ token' = token /\ UNCHANGED <<live, alerted, wronged, pushFaults>>
    BY <1>2, Zenon DEF ChangePresence
  <2> QED
    BY <1>1, <2>1, SinceInv, Zenon
<1>3. ASSUME ChangeMute PROVE PushInv'
  <2>1. /\ PushChange /\ Since(online, ~muted, loggedOut) /\ online' = online /\ muted' = (~muted)
        /\ loggedOut' = loggedOut /\ token' = token /\ UNCHANGED <<live, alerted, wronged, pushFaults>>
    BY <1>3, Zenon DEF ChangeMute
  <2> QED
    BY <1>1, <2>1, SinceInv, Zenon
<1>4. ASSUME NEW d \in Devices, RevokeDevice(d) PROVE PushInv'
  <2> DEFINE rv == loggedOut \union {d}
  <2>1. /\ PushChange /\ Since(online, muted, rv) /\ online' = online /\ muted' = muted
        /\ loggedOut' = rv /\ token' = [token EXCEPT ![d] = 0]
        /\ UNCHANGED <<live, alerted, wronged, pushFaults>>
    BY <1>4, Zenon DEF RevokeDevice, user
  <2>2. \A x \in Devices : live[x] \in 1..MaxToken
    BY Zenon DEF PushInv, PushShape
  <2>3. /\ token' \in [Devices -> 0..MaxToken] /\ \A x \in Devices : token'[x] <= live[x]
        /\ \A x \in Devices : token'[x] = token[x] \/ (token'[x] = 0 /\ x \in rv)
    BY <1>1, <2>1, <2>2, PushAssumption
  <2>4. rv \in SUBSET Devices /\ loggedOut \subseteq rv
    BY <1>1, Zenon
  <2> HIDE DEF rv
  <2> QED
    BY <1>1, <2>1, <2>3, <2>4, SinceInv, Zenon
<1> QED
  BY <1>2, <1>3, <1>4, Zenon

\* The app is installed again: FCM has a newer token than any handler.
LEMMA ReinstallInv == ASSUME PushInv, NEW d \in Devices, Reinstall(d) PROVE PushInv'
<1> DEFINE lv == [live EXCEPT ![d] = @ + 1]
           Out(r) == [r EXCEPT !.shutOut = @ \union {d}]
<1>1. /\ live' = lv /\ token' = token /\ loggedOut' = loggedOut /\ online' = online /\ muted' = muted
      /\ alerted' = alerted /\ wronged' = wronged /\ pushFaults' = pushFaults /\ PushChange
      /\ \A w \in PushWorkers :
           worker'[w] = IF worker[w].pc \in Ended THEN worker[w] ELSE Out(worker[w])
      /\ worker' = [w \in PushWorkers |-> worker'[w]]
  BY Zenon DEF Reinstall
<1>2. live \in [Devices -> 1..MaxToken] /\ token \in [Devices -> 0..MaxToken] /\ live[d] < MaxToken
      /\ \A x \in Devices : token[x] <= live[x]
  BY Zenon DEF PushInv, PushShape, Reinstall
<1>3. /\ lv \in [Devices -> 1..MaxToken] /\ \A x \in Devices \ {d} : lv[x] = live[x]
      /\ \A x \in Devices : \A n \in 0..MaxToken : (n <= live[x] => n <= lv[x]) /\ (n < live[x] => n < lv[x])
      /\ \A x \in Devices : token[x] <= lv[x]
  BY <1>2, PushAssumption
<1> HIDE DEF lv
<1>4. ASSUME NEW w \in PushWorkers
      PROVE  /\ worker'[w] \in HandlerRow
             /\ HandlerRight(w, worker'[w], alerted[w], token, lv, loggedOut, online, muted)
  <2> DEFINE r == worker[w]
             e == Out(r)
  <2>1. /\ r \in HandlerRow /\ alerted[w] \in SUBSET Devices
        /\ HandlerRight(w, r, alerted[w], token, live, loggedOut, online, muted)
    BY <1>4, HandlerFields, Zenon
  <2>2. CASE r.pc \in Ended
    <3>1. HandlerRight(w, r, alerted[w], token, lv, loggedOut, online, muted)
      BY <1>3, <2>1, <2>2, EndedRow, Zenon
    <3> QED
      BY <1>1, <2>1, <2>2, <3>1, Zenon
  <2>3. CASE r.pc \notin Ended
    <3>1. worker'[w] = e
      BY <1>1, <2>3, Zenon
    <3> HIDE DEF r
    <3>2. e \in HandlerRow
      BY <2>1 DEF HandlerRow
    <3>3. /\ e.pc = r.pc /\ e.got = r.got /\ e.res = r.res /\ e.raced = r.raced /\ e.again = r.again
          /\ e.onlineAll = r.onlineAll /\ e.mutedAll = r.mutedAll /\ e.revokedAll = r.revokedAll
          /\ e.shutOut = r.shutOut \union {d} /\ e.hushed = r.hushed
      BY <2>1 DEF HandlerRow
    <3> HIDE DEF e
    <3>4. OpenRight(e, alerted[w], token, lv, loggedOut)
      <4>1. OpenRight(r, alerted[w], token, live, loggedOut)
        BY <2>1, <2>3, Zenon DEF HandlerRight
      <4>2. \A x \in Devices \ e.shutOut : x \in Devices \ r.shutOut /\ lv[x] = live[x]
        BY <1>3, <3>3, Zenon
      <4> QED
        BY <3>3, <4>1, <4>2, Zenon DEF OpenRight
    <3>5. ReadRight(e, token, lv)
      <4>1. \A x \in Devices : r.got[x] \in 0..MaxToken
        BY <2>1, HandlerKnown, Zenon
      <4> QED
        BY <1>3, <2>1, <3>3, <4>1, Zenon DEF HandlerRight, ReadRight
    <3>6. QuietRight(w, e, alerted[w], loggedOut, online, muted)
      BY <2>1, <3>3, Zenon DEF HandlerRight, QuietRight
    <3> QED
      BY <2>3, <3>1, <3>2, <3>3, <3>4, <3>5, <3>6, Zenon DEF HandlerRight, DoneRight, Ended
  <2> QED
    BY <2>2, <2>3, Zenon
<1>5. worker' \in [PushWorkers -> HandlerRow]
  BY <1>1, <1>4, Zenon
<1>6. PushShape'
  BY <1>1, <1>3, <1>5, PushChangesCounted, Zenon DEF PushInv, PushShape
<1> QED
  BY <1>1, <1>3, <1>4, <1>6, Zenon DEF PushInv

\* A device registers its token: a handler that had read the tokens is raced.
LEMMA SetPushTokenInv == ASSUME PushInv, NEW d \in Devices, SetPushToken(d) PROVE PushInv'
<1> DEFINE tk == [token EXCEPT ![d] = live[d]]
           Race(r) == [r EXCEPT !.raced = @ \union {d}]
<1>1. /\ token' = tk /\ live' = live /\ loggedOut' = loggedOut /\ online' = online /\ muted' = muted
      /\ alerted' = alerted /\ wronged' = wronged /\ pushFaults' = pushFaults /\ PushChange
      /\ \A w \in PushWorkers :
           worker'[w] = IF worker[w].pc \in Ended THEN worker[w] ELSE Race(worker[w])
      /\ worker' = [w \in PushWorkers |-> worker'[w]]
  BY Zenon DEF SetPushToken, user
<1>2. live \in [Devices -> 1..MaxToken] /\ token \in [Devices -> 0..MaxToken]
      /\ \A x \in Devices : token[x] <= live[x]
  BY Zenon DEF PushInv, PushShape
<1>3. /\ tk \in [Devices -> 0..MaxToken] /\ tk[d] = live[d] /\ \A x \in Devices \ {d} : tk[x] = token[x]
      /\ \A x \in Devices : tk[x] <= live[x]
  BY <1>2, PushAssumption
<1> HIDE DEF tk
<1>4. ASSUME NEW w \in PushWorkers
      PROVE  /\ worker'[w] \in HandlerRow
             /\ HandlerRight(w, worker'[w], alerted[w], tk, live, loggedOut, online, muted)
  <2> DEFINE r == worker[w]
             e == Race(r)
  <2>1. /\ r \in HandlerRow /\ alerted[w] \in SUBSET Devices
        /\ HandlerRight(w, r, alerted[w], token, live, loggedOut, online, muted)
    BY <1>4, HandlerFields, Zenon
  <2>2. CASE r.pc \in Ended
    <3>1. HandlerRight(w, r, alerted[w], tk, live, loggedOut, online, muted)
      BY <1>3, <2>1, <2>2, EndedRow, Zenon
    <3> QED
      BY <1>1, <2>1, <2>2, <3>1, Zenon
  <2>3. CASE r.pc \notin Ended
    <3>1. worker'[w] = e
      BY <1>1, <2>3, Zenon
    <3> HIDE DEF r
    <3>2. e \in HandlerRow
      BY <2>1 DEF HandlerRow
    <3>3. /\ e.pc = r.pc /\ e.got = r.got /\ e.res = r.res /\ e.raced = r.raced \union {d}
          /\ e.again = r.again /\ e.onlineAll = r.onlineAll /\ e.mutedAll = r.mutedAll
          /\ e.revokedAll = r.revokedAll /\ e.shutOut = r.shutOut /\ e.hushed = r.hushed
      BY <2>1 DEF HandlerRow
    <3> HIDE DEF e
    <3>4. OpenRight(e, alerted[w], tk, live, loggedOut)
      <4>1. OpenRight(r, alerted[w], token, live, loggedOut)
        BY <2>1, <2>3, Zenon DEF HandlerRight
      <4>2. \A x \in Devices : live[x] = 1 /\ token[x] = 1 => tk[x] = 1
        BY <1>3
      <4>3. ASSUME NEW x \in Devices \ e.shutOut
            PROVE  /\ tk[x] = 1 /\ live[x] = 1 /\ x \notin loggedOut
                   /\ e.pc \in {"send", "results"} => e.got[x] = 1
                   /\ e.pc = "results" => x \in alerted[w] \/ e.res[x] \in {"retry", "rejected"} \/ e.again = TRUE
        <5>1. x \in Devices \ r.shutOut
          BY <3>3, <4>3, Zenon
        <5> QED
          BY <3>3, <4>1, <4>2, <5>1, Zenon DEF OpenRight
      <4> QED
        BY <4>3, Zenon DEF OpenRight
    <3>5. ReadRight(e, tk, live)
      BY <1>3, <2>1, <3>3, Zenon DEF HandlerRight, ReadRight
    <3>6. QuietRight(w, e, alerted[w], loggedOut, online, muted)
      BY <2>1, <3>3, Zenon DEF HandlerRight, QuietRight
    <3> QED
      BY <2>3, <3>1, <3>2, <3>3, <3>4, <3>5, <3>6, Zenon DEF HandlerRight, DoneRight, Ended
  <2> QED
    BY <2>2, <2>3, Zenon
<1>5. worker' \in [PushWorkers -> HandlerRow]
  BY <1>1, <1>4, Zenon
<1>6. PushShape'
  BY <1>1, <1>3, <1>5, PushChangesCounted, Zenon DEF PushInv, PushShape
<1> QED
  BY <1>1, <1>3, <1>4, <1>6, Zenon DEF PushInv

\* The record as it is taken up.
TakenUp(on, mu, rv, z) ==
  [pc |-> "", tries |-> 0, got |-> <<>>, res |-> <<>>, again |-> FALSE, raced |-> {},
   onlineAll |-> on, mutedAll |-> mu, revokedAll |-> rv, shutOut |-> rv, hushed |-> z]

LEMMA TakenUpFields ==
  ASSUME NEW w \in PushWorkers, NEW on \in BOOLEAN, NEW mu \in BOOLEAN, NEW rv \in SUBSET Devices,
         NEW z \in BOOLEAN, NEW r, r = Fresh(w, TakenUp(on, mu, rv, z))
  PROVE  /\ r \in HandlerRow /\ r.pc \in {"presence", "targets"} /\ (r.pc = "presence" <=> w = "pusher")
         /\ r.got = [d \in Devices |-> 0] /\ r.onlineAll = on /\ r.mutedAll = mu
         /\ r.revokedAll = rv /\ r.shutOut = rv /\ r.hushed = z
<1> DEFINE p == FirstStep(w)
           g == [d \in Devices |-> 0]
           o == [d \in Devices |-> "none"]
<1>1. p \in {"presence", "targets"} /\ (p = "presence" <=> w = "pusher") /\ 0 \in 0..MaxPushRetries
  BY PushAssumption DEF FirstStep
<1>2. g \in [Devices -> 0..MaxToken] /\ o \in [Devices -> Outcomes]
  BY PushAssumption DEF Outcomes
<1> HIDE DEF p, g, o
<1>3. r = [pc |-> p, tries |-> 0, got |-> g, res |-> o, again |-> FALSE, raced |-> {},
           onlineAll |-> on, mutedAll |-> mu, revokedAll |-> rv, shutOut |-> rv, hushed |-> z]
  <2>1. r = [TakenUp(on, mu, rv, z) EXCEPT !.pc = p, !.got = g, !.res = o, !.again = FALSE]
    BY Zenon DEF Fresh, p, g, o
  <2> QED
    BY <2>1 DEF TakenUp
<1>4. r \in HandlerRow
  BY <1>1, <1>2, <1>3 DEF HandlerRow
<1>5. /\ r.pc = p /\ r.got = g /\ r.onlineAll = on /\ r.mutedAll = mu
      /\ r.revokedAll = rv /\ r.shutOut = rv /\ r.hushed = z
  BY <1>3
<1> QED
  BY <1>1, <1>4, <1>5, Zenon DEF g

\* At the start every device has its token and no handler has begun.
LEMMA PushInitInv == ASSUME PushInit PROVE PushInv
<1>1. /\ token = [d \in Devices |-> 1] /\ live = [d \in Devices |-> 1] /\ wronged = {}
      /\ alerted = [w \in PushWorkers |-> {}] /\ loggedOut \in SUBSET Devices
      /\ online \in BOOLEAN /\ muted \in BOOLEAN
  BY Zenon DEF PushInit
<1>2. ASSUME NEW w \in PushWorkers
      PROVE  /\ worker[w] \in HandlerRow
             /\ HandlerRight(w, worker[w], alerted[w], token, live, loggedOut, online, muted)
  <2> DEFINE r == worker[w]
             z == w = "pusher" /\ (online \/ muted)
  <2>1. z \in BOOLEAN /\ r = Fresh(w, TakenUp(online, muted, loggedOut, z)) /\ alerted[w] = {}
    BY <1>1, <1>2, Zenon DEF PushInit, TakenUp
  <2>2. z = TRUE <=> w = "pusher" /\ (online = TRUE \/ muted = TRUE)
    BY <1>1, Zenon
  <2> HIDE DEF r, z
  <2>3. /\ r \in HandlerRow /\ r.pc \in {"presence", "targets"} /\ (r.pc = "presence" <=> w = "pusher")
        /\ r.got = [d \in Devices |-> 0] /\ r.onlineAll = online /\ r.mutedAll = muted
        /\ r.revokedAll = loggedOut /\ r.shutOut = loggedOut /\ r.hushed = z
    BY <1>1, <1>2, <2>1, TakenUpFields
  <2>4. r.pc \notin Ended /\ r.pc \notin {"send", "results", "mute", "done"}
    BY <2>3 DEF Ended
  <2>5. OpenRight(r, alerted[w], token, live, loggedOut)
    BY <1>1, <2>3, <2>4, Zenon DEF OpenRight
  <2>6. ReadRight(r, token, live)
    BY <1>1, <2>3, <2>4 DEF ReadRight
  <2>7. QuietRight(w, r, alerted[w], loggedOut, online, muted)
    BY <1>1, <2>1, <2>2, <2>3, <2>4, Zenon DEF QuietRight
  <2> QED
    BY <2>3, <2>4, <2>5, <2>6, <2>7, Zenon DEF HandlerRight, DoneRight, r
<1>3. worker \in [PushWorkers -> HandlerRow]
  BY <1>2, Zenon DEF PushInit
<1>4. PushShape
  <2>1. /\ token \in [Devices -> 0..MaxToken] /\ live \in [Devices -> 1..MaxToken]
        /\ 0 \in 0..MaxPushFaults /\ 0 \in 0..MaxPushChanges
    BY <1>1, PushAssumption
  <2> QED
    BY <1>1, <1>3, <2>1, Zenon DEF PushInit, PushShape
<1>5. \A d \in Devices : token[d] <= live[d]
  BY <1>1
<1> QED
  BY <1>1, <1>2, <1>4, <1>5, Zenon DEF PushInv

\* Every step of the handlers and of the user keeps it.
LEMMA PushNextInv == ASSUME PushInv, [PushNext]_pushVars PROVE PushInv'
<1>1. CASE ReadPresence \/ ReadMute
  BY <1>1, PusherReadsInv, Zenon
<1>2. ASSUME NEW w \in PushWorkers, WorkerStep(w) PROVE PushInv'
  <2>1. \/ ReadTargets(w) \/ SendAll(w) \/ ReturnResult(w)
        \/ \E d \in Devices : OnRetryable(w, d) \/ OnSettled(w, d) \/ OnUnregistered(w, d)
    BY <1>2, Zenon DEF WorkerStep
  <2> QED
    BY <2>1, ReadTargetsInv, SendAllInv, ReturnResultInv, OnRetryableInv, OnSettledInv,
       OnUnregisteredInv, Zenon
<1>3. CASE ChangePresence \/ ChangeMute \/ \E d \in Devices : RevokeDevice(d)
  BY <1>3, UserInv, Zenon
<1>4. ASSUME NEW d \in Devices, Reinstall(d) PROVE PushInv'
  BY <1>4, ReinstallInv, Zenon
<1>5. ASSUME NEW d \in Devices, SetPushToken(d) PROVE PushInv'
  BY <1>5, SetPushTokenInv, Zenon
<1>6. CASE UNCHANGED pushVars
  <2>1. /\ token' = token /\ loggedOut' = loggedOut /\ live' = live /\ online' = online
        /\ muted' = muted /\ worker' = worker /\ alerted' = alerted /\ wronged' = wronged
        /\ pushFaults' = pushFaults /\ pushChanges' = pushChanges
    BY <1>6, Zenon DEF pushVars, user
  <2> QED
    BY <2>1, Zenon DEF PushInv, PushShape
<1> QED
  BY <1>1, <1>2, <1>3, <1>4, <1>5, <1>6, Zenon DEF PushNext, HandlersRun

\* The tokens the handlers hold are what the devices had when they were read, however
\* the user and the devices changed in between: an invariant of pusher and notifier.
THEOREM PushInductive == PushSpec => []PushInv
<1>1. PushInit => PushInv
  BY PushInitInv
<1>2. PushInv /\ [PushNext]_pushVars => PushInv'
  BY PushNextInv
<1> QED
  BY <1>1, <1>2, PTL DEF PushSpec

\* Pushes reach those who should be alerted and nobody else, and cost no device its
\* registration, for any number of devices, tokens, retries and changes.
THEOREM PushesAlwaysRight == PushSpec => []PushesRight
<1>1. PushInv => PushesRight
  <2> SUFFICES ASSUME PushInv PROVE PushesRight
    OBVIOUS
  <2>1. PushTypeOK
    <3>1. \A w \in PushWorkers : worker[w] \in HandlerRow
      BY HandlerFields, Zenon
    <3> QED
      BY <3>1 DEF PushInv, PushShape, PushTypeOK, HandlerRow
  <2>2. QuietStaysQuiet
    BY Zenon DEF PushInv, HandlerRight, QuietRight, QuietStaysQuiet
  <2>3. SuccessMeansAlerted
    <3>1. \A w \in PushWorkers : worker[w].hushed \in BOOLEAN
      BY HandlerFields, HandlerKnown, Zenon
    <3> QED
      BY <3>1, Zenon DEF PushInv, HandlerRight, DoneRight, SuccessMeansAlerted
  <2> QED
    BY <2>1, <2>2, <2>3, Zenon DEF PushInv, PushesRight, LiveTokenKept
<1> QED
  BY <1>1, PushInductive, PTL
=============================================================================
