----------------------------- MODULE ChatProofs -----------------------------
(***************************************************************************)
(* Proofs about one chat.  SeqAllocator hands out no number twice, and     *)
(* numbers in call order, for every number of callers, calls, errors and   *)
(* crashes, as long as Redis has not lost the counter and at most Headroom *)
(* other calls increment it while a call reseeds.  One region numbers a    *)
(* chat (RegionSend), for any regions, chats and posts.  No unread count   *)
(* hides a message (ReadState), for any requests of any devices.  Private  *)
(* chats are made once and listed right (Dialogs), for any peers and       *)
(* requests.                                                               *)
(***************************************************************************)
EXTENDS SeqAllocator, RegionSend, ReadState, Dialogs, FiniteSetTheorems, TLAPS

(***************************************************************************)
(* SeqAllocator.                                                           *)
(***************************************************************************)
\* An allocator nobody has called satisfies the invariant.
LEMMA InitWarm == SeqInit => WarmInv
<1> SUFFICES ASSUME SeqInit PROVE WarmInv
  BY Zenon
<1>1. SeqTypeOK
  <2>1. before \in [Callers -> SUBSET Nat]
    BY Zenon DEF SeqInit
  <2>2. pc \in [Callers -> Steps]
    BY Zenon DEF SeqInit, Steps
  <2>3. found \in [Callers -> Nat] /\ got \in [Callers -> Nat]
    BY Zenon DEF SeqInit
  <2>4. handed \subseteq Nat /\ reused \subseteq Nat /\ persisted \subseteq handed
    BY Zenon DEF SeqInit
  <2>5. seqKey \in Nat /\ raced \in 0..MaxRaced /\ calls \in Nat /\ failovers \in Nat
          /\ failures \in Nat
    BY SeqAssumption DEF SeqInit
  <2>6. lock \in BOOLEAN
    BY Zenon DEF SeqInit
  <2> QED
    BY <2>1, <2>2, <2>3, <2>4, <2>5, <2>6, Zenon DEF SeqTypeOK
<1>2. SeqUnique /\ SeqOrdered
  BY Zenon DEF SeqInit, SeqUnique, SeqOrdered
<1> QED
  BY <1>1, <1>2, Zenon DEF SeqInit, WarmInv, Seeding

\* Types after a call returns n.
LEMMA ReturnTypes ==
  ASSUME SeqTypeOK, NEW p \in Callers, NEW n \in Nat, Return(p, n)
  PROVE  got' \in [Callers -> Nat] /\ handed' \subseteq Nat /\ reused' \subseteq Nat
<1>1. got' \in [Callers -> Nat]
  BY Zenon DEF SeqTypeOK, Return
<1>2. handed' \subseteq Nat
  BY Zenon DEF SeqTypeOK, Return
<1>3. reused' \subseteq Nat
  BY Zenon DEF SeqTypeOK, Return
<1> QED
  BY <1>1, <1>2, <1>3, Zenon

\* A number that was never returned, above all that the call may be compared
\* with, keeps both properties.
LEMMA ReturnIsFresh ==
  ASSUME SeqTypeOK, SeqUnique, SeqOrdered, NEW p \in Callers, NEW n \in Nat, n \notin handed,
         \A q \in Callers : q # p => before'[q] = before[q],
         \A s \in before'[p] : s < n, Return(p, n)
  PROVE  SeqUnique' /\ SeqOrdered'
<1>1. SeqUnique'
  BY Zenon DEF SeqUnique, Return
<1>2. SeqOrdered'
  BY Zenon DEF SeqTypeOK, SeqOrdered, Return
<1> QED
  BY <1>1, <1>2, Zenon

\* The INCR of Next preserves the invariant: its number is new.
LEMMA IncrWarm == ASSUME WarmInv, NEW p \in Callers, Incr(p) PROVE WarmInv'
<1> USE SeqAssumption
<1>0. SeqTypeOK /\ SeqUnique /\ SeqOrdered
  BY Zenon DEF WarmInv
<1>1. CASE seqKey = 0
  <2>1. handed = {} /\ (\A q \in Callers : pc[q] = "idle") /\ ~Reseeding /\ ~lock
    BY <1>1 DEF WarmInv, SeqTypeOK, Reseeding, Seeding
  <2>2. /\ seqKey' = 1 /\ raced' = 0 /\ pc' = [pc EXCEPT ![p] = "lock"]
        /\ before' = [before EXCEPT ![p] = {}] /\ got' = [got EXCEPT ![p] = 0]
        /\ UNCHANGED <<handed, reused, failovers, lock, found, persisted, failures>>
        /\ calls' = calls + 1
    BY <1>1, <2>1 DEF Incr
  <2>3. SeqTypeOK'
    BY <1>0, <2>2 DEF SeqTypeOK, Steps, Seeding
  <2>4. SeqUnique' /\ SeqOrdered'
    BY <1>0, <2>2, Zenon DEF SeqTypeOK, SeqUnique, SeqOrdered
  <2> QED
    BY <1>0, <1>1, <2>1, <2>2, <2>3, <2>4 DEF WarmInv, SeqTypeOK, Seeding
<1>2. CASE seqKey # 0
  <2>1. /\ seqKey' = seqKey + 1 /\ seqKey + 1 > 1 /\ pc' = pc
        /\ UNCHANGED <<lock, found, persisted, failovers, failures>>
        /\ Return(p, seqKey + 1) /\ calls' = calls + 1
        /\ before' = [before EXCEPT ![p] = handed]
        /\ raced' = IF Reseeding THEN raced + 1 ELSE 0
        /\ Reseeding => raced < MaxRaced
    BY <1>0, <1>2 DEF Incr, SeqTypeOK
  <2>2. raced' \in 0..MaxRaced /\ before' \in [Callers -> SUBSET Nat]
    BY <1>0, <2>1 DEF SeqTypeOK
  <2>3. seqKey + 1 \in Nat /\ seqKey + 1 \notin handed
    BY <1>0 DEF WarmInv, SeqTypeOK
  <2>4. handed \subseteq handed'
    BY <2>1, Zenon DEF Return
  <2>5. SeqTypeOK'
    BY <1>0, <2>1, <2>2, <2>3, <2>4, ReturnTypes DEF SeqTypeOK
  <2>6. \A s \in before'[p] : s < seqKey + 1
    <3>1. before'[p] = handed
      BY <1>0, <2>1, Zenon DEF SeqTypeOK
    <3>2. handed \subseteq 1..seqKey /\ seqKey \in Nat
      BY Zenon DEF WarmInv, SeqTypeOK
    <3>3. \A s \in handed : s < seqKey + 1
      BY <3>2
    <3> QED
      BY <3>1, <3>3, Zenon
  <2>7. \A q \in Callers : q # p => before'[q] = before[q]
    BY <1>0, <2>1, Zenon DEF SeqTypeOK
  <2>8. SeqUnique' /\ SeqOrdered'
    BY <1>0, <2>1, <2>3, <2>6, <2>7, ReturnIsFresh, Zenon
  <2>9. handed' \subseteq 1..seqKey'
    BY <1>0, <2>1 DEF WarmInv, SeqTypeOK, Return
  <2>10. ASSUME NEW q \in Callers
         PROVE  /\ pc'[q] # "wait"
                /\ pc'[q] = "lock" => ~lock'
                /\ pc'[q] # "idle" =>
                     /\ seqKey' > 0 /\ before'[q] = {}
                     /\ \A r \in Callers : pc'[r] # "idle" => r = q
                /\ pc'[q] \in Seeding => 1 \notin handed' /\ seqKey' <= raced' + 1
                /\ pc'[q] = "set" => found'[q] >= 1
    <3>1. pc[p] = "idle"
      BY Zenon DEF Incr
    <3>2. pc[q] # "idle" => before'[q] = {}
      BY <1>0, <2>1, <3>1, Zenon DEF WarmInv, SeqTypeOK
    <3>3. pc[q] \in Seeding => Reseeding
      BY Zenon DEF Reseeding
    <3> QED
      BY <1>0, <2>1, <3>1, <3>2, <3>3 DEF WarmInv, SeqTypeOK, Return
  <2> QED
    BY <1>0, <2>1, <2>5, <2>8, <2>9, <2>10 DEF WarmInv, SeqTypeOK
<1> QED
  BY <1>1, <1>2, Zenon

\* Every other command of Next preserves the invariant.
LEMMA StepWarm == ASSUME WarmInv, NEW p \in Callers, CallStep(p) PROVE WarmInv'
<1> USE SeqAssumption
<1>1. CASE TakeLock(p)
  <2>1. ~lock /\ lock' = TRUE /\ pc' = [pc EXCEPT ![p] = "read"]
    BY <1>1, Zenon DEF TakeLock, WarmInv
  <2>2. SeqTypeOK'
    BY <1>1, <2>1, Zenon DEF TakeLock, WarmInv, SeqTypeOK, Steps, Seeding
  <2> QED
    BY <1>1, <2>1, <2>2 DEF TakeLock, WarmInv, SeqTypeOK, SeqUnique, SeqOrdered, Seeding
<1>2. CASE IncrAfterWait(p)
  BY <1>2, Zenon DEF IncrAfterWait, WarmInv
<1>3. CASE ReadMax(p)
  <2> PICK m \in persisted \union {0} :
         /\ found' = [found EXCEPT ![p] = m]
         /\ IF m < 1
              THEN Return(p, 1) /\ pc' = [pc EXCEPT ![p] = "unlock"]
              ELSE pc' = [pc EXCEPT ![p] = "set"] /\ UNCHANGED <<got, handed, reused>>
    BY <1>3, Zenon DEF ReadMax
  <2>1. /\ pc[p] = "read" /\ m \in Nat /\ SeqTypeOK /\ SeqUnique /\ SeqOrdered
        /\ UNCHANGED <<seqKey, lock, before, persisted, raced, calls, failovers, failures>>
    BY <1>3, Zenon DEF ReadMax, WarmInv, SeqTypeOK
  <2>2. CASE m < 1
    <3>1. Return(p, 1) /\ 1 \notin handed /\ before'[p] = {}
      BY <2>1, <2>2, Zenon DEF WarmInv, Seeding
    <3>2. SeqTypeOK'
      <4>1. got' \in [Callers -> Nat] /\ handed' \subseteq Nat /\ reused' \subseteq Nat
        BY <2>1, <3>1, ReturnTypes, Zenon
      <4>2. handed \subseteq handed'
        BY <3>1, Zenon DEF Return
      <4>3. pc' \in [Callers -> Steps] /\ found' \in [Callers -> Nat]
        BY <2>1, <2>2, Zenon DEF SeqTypeOK, Steps
      <4> QED
        BY <2>1, <4>1, <4>2, <4>3, Zenon DEF SeqTypeOK
    <3>3. SeqUnique' /\ SeqOrdered'
      BY <2>1, <3>1, ReturnIsFresh, Zenon
    <3> QED
      BY <2>1, <2>2, <3>1, <3>2, <3>3 DEF WarmInv, SeqTypeOK, Seeding, Return
  <2>3. CASE m >= 1
    <3>0. pc' = [pc EXCEPT ![p] = "set"] /\ UNCHANGED <<got, handed, reused>>
      BY <2>1, <2>3
    <3>1. SeqTypeOK'
      <4>1. pc' \in [Callers -> Steps] /\ found' \in [Callers -> Nat]
        BY <2>1, <3>0, Zenon DEF SeqTypeOK, Steps, Seeding
      <4> QED
        BY <2>1, <3>0, <4>1, Zenon DEF SeqTypeOK
    <3> QED
      BY <2>1, <2>3, <3>0, <3>1, Zenon DEF WarmInv, SeqTypeOK, SeqUnique, SeqOrdered, Seeding
  <2> QED
    BY <2>1, <2>2, <2>3
<1>4. CASE Reseed(p)
  <2>1. seqKey <= seqKey'
    BY <1>4 DEF Reseed, WarmInv, SeqTypeOK, Seeding
  <2> QED
    BY <1>4, <2>1 DEF Reseed, WarmInv, SeqTypeOK, SeqUnique, SeqOrdered, Steps, Seeding
<1>5. CASE IncrAfterReseed(p)
  <2>1. SeqTypeOK /\ SeqUnique /\ SeqOrdered /\ before'[p] = {} /\ Return(p, seqKey + 1)
    BY <1>5, Zenon DEF IncrAfterReseed, WarmInv
  <2>2. seqKey + 1 \in Nat /\ seqKey + 1 \notin handed
    BY <2>1 DEF WarmInv, SeqTypeOK
  <2>3. SeqTypeOK'
    BY <1>5, <2>1, <2>2, ReturnTypes, Zenon DEF IncrAfterReseed, SeqTypeOK, Steps, Seeding, Return
  <2>4. SeqUnique' /\ SeqOrdered'
    BY <1>5, <2>1, <2>2, ReturnIsFresh, Zenon DEF IncrAfterReseed
  <2> QED
    BY <1>5, <2>1, <2>3, <2>4 DEF IncrAfterReseed, WarmInv, SeqTypeOK, Seeding, Return
<1>6. CASE Unlock(p)
  BY <1>6, Zenon DEF Unlock, WarmInv, SeqTypeOK, SeqUnique, SeqOrdered, Steps, Seeding
<1> QED
  BY <1>1, <1>2, <1>3, <1>4, <1>5, <1>6, Zenon DEF CallStep

\* Failed commands, crashes, the persister and the lock TTL preserve the invariant.
LEMMA OtherWarm ==
  ASSUME WarmInv, (\E p \in Callers : Fail(p) \/ CallerCrash(p)) \/ Persist \/ LockExpire
  PROVE  WarmInv'
<1> USE SeqAssumption
<1>1. ASSUME NEW p \in Callers, Fail(p) PROVE WarmInv'
  BY <1>1 DEF Fail, WarmInv, SeqTypeOK, SeqUnique, SeqOrdered, Steps, Seeding
<1>2. ASSUME NEW p \in Callers, CallerCrash(p) PROVE WarmInv'
  BY <1>2 DEF CallerCrash, WarmInv, SeqTypeOK, SeqUnique, SeqOrdered, Steps, Seeding
<1>3. CASE Persist
  BY <1>3, Zenon DEF Persist, WarmInv, SeqTypeOK, SeqUnique, SeqOrdered
<1>4. CASE LockExpire
  BY <1>4, Zenon DEF LockExpire, WarmInv, SeqTypeOK, SeqUnique, SeqOrdered
<1> QED
  BY <1>1, <1>2, <1>3, <1>4, Zenon

\* Only a failover changes the number of failovers, and it raises it.
LEMMA FailoversCounted ==
  ASSUME failovers \in Nat, SeqNext
  PROVE  failovers' \in Nat /\ (failovers' = failovers \/ (Failover /\ failovers' # 0))
<1>1. ASSUME NEW p \in Callers, Incr(p) \/ CallStep(p) \/ Fail(p) \/ CallerCrash(p)
      PROVE  failovers' = failovers
  BY <1>1, Zenon DEF Incr, CallStep, TakeLock, IncrAfterWait, ReadMax, Reseed, IncrAfterReseed, Unlock,
              Fail, CallerCrash
<1>2. CASE Persist \/ LockExpire
  BY <1>2, Zenon DEF Persist, LockExpire
<1>3. CASE Failover
  BY <1>3 DEF Failover
<1> QED
  BY <1>1, <1>2, <1>3, Zenon DEF SeqNext

\* The inductive invariant: until a failover, WarmInv.
THEOREM SeqInductive == SeqSpec => []SeqInv
<1>1. SeqInit => SeqInv
  BY InitWarm DEF SeqInv, WarmInv
<1>2. SeqInv /\ [SeqNext]_seqVars => SeqInv'
  <2> SUFFICES ASSUME SeqInv, [SeqNext]_seqVars PROVE SeqInv'
    BY Zenon
  <2>1. CASE SeqNext
    <3>1. failovers' \in Nat /\ (failovers' = failovers \/ (Failover /\ failovers' # 0))
      BY <2>1, FailoversCounted, Zenon DEF SeqInv
    <3>2. ASSUME failovers' = 0 PROVE WarmInv'
      <4>1. WarmInv /\ ~(Failover /\ failovers' # 0)
        BY <3>1, <3>2, Zenon DEF SeqInv
      <4>2. CASE Failover
        BY <3>2, <4>2, <4>1 DEF Failover, WarmInv, SeqTypeOK
      <4> QED
        BY <2>1, <4>1, <4>2, IncrWarm, StepWarm, OtherWarm, Zenon DEF SeqNext
    <3> QED
      BY <3>1, <3>2, Zenon DEF SeqInv
  <2>2. CASE UNCHANGED seqVars
    BY <2>2, Zenon DEF seqVars, SeqInv, WarmInv, SeqTypeOK, SeqUnique, SeqOrdered
  <2> QED
    BY <2>1, <2>2, Zenon
<1> QED
  BY <1>1, <1>2, PTL DEF SeqSpec

\* Next never returns a sequence number twice before Redis loses the counter.
THEOREM NoReuseUntilFailover == SeqSpec => []UniqueUntilFailover
<1>1. SeqInv => UniqueUntilFailover
  BY Zenon DEF SeqInv, WarmInv, UniqueUntilFailover
<1> QED
  BY <1>1, SeqInductive, PTL

\* A call of Next that begins after another returned gets a larger number, until
\* Redis loses the counter.
THEOREM OrderUntilFailover == SeqSpec => []OrderedUntilFailover
<1>1. SeqInv => OrderedUntilFailover
  BY Zenon DEF SeqInv, WarmInv, OrderedUntilFailover
<1> QED
  BY <1>1, SeqInductive, PTL

(***************************************************************************)
(* RegionSend: one region numbers a chat.                                  *)
(***************************************************************************)
PostShape == [at : Regions \union {Nowhere}, via : Regions \union {Nowhere},
              pc : {"new", "arrived", "sent", "failed"}]

\* What a send, a number and the counters look like.
RegionShape ==
  /\ home \in Regions /\ endpoints \in [Regions -> [Regions -> Regions \union {Nowhere}]]
  /\ post \in [Posts -> PostShape]
  /\ \A s \in Posts : post[s].pc = "arrived" => post[s].at \in Regions
  /\ counter \in [Regions -> Nat] /\ regionFaults \in 0..MaxRegionFaults
  /\ taken \subseteq [region : Regions, seq : Nat, post : Posts]

\* With right or missing endpoints a forwarded call is at the home region, whose
\* counter is behind no number handed out.
HomeNumbers ==
  /\ \A s \in Posts : (post[s].pc = "arrived" /\ post[s].via # Nowhere) => post[s].at = home
  /\ \A t \in taken : t.region = home /\ t.seq <= counter[home]
  /\ \A a, b \in taken : a.seq = b.seq => a = b

RegionInv == RegionShape /\ (EndpointsRight => HomeNumbers)

\* A send that ends leaves the other sends where they are.
LEMMA PostPcMoves ==
  ASSUME post \in [Posts -> PostShape], NEW s \in Posts, NEW end \in {"sent", "failed"},
         post' = [post EXCEPT ![s].pc = end]
  PROVE  /\ post' \in [Posts -> PostShape]
         /\ \A x \in Posts : /\ post'[x].at = post[x].at /\ post'[x].via = post[x].via
                             /\ post'[x].pc = IF x = s THEN end ELSE post[x].pc
BY Zenon DEF PostShape

\* Nothing is posted yet.
LEMMA RegionInitInv == RegionInit => RegionInv
BY RegionAssumption DEF RegionInit, RegionInv, RegionShape, HomeNumbers, PostShape

\* A send that begins is not marked, so nothing is known of where it is.
LEMMA SubmitInv ==
  ASSUME RegionInv, NEW s \in Posts, NEW r \in Regions, Submit(s, r)
  PROVE  RegionInv'
<1> USE RegionAssumption
<1>1. RegionShape'
  BY DEF Submit, RegionInv, RegionShape, PostShape
<1>2. EndpointsRight' => HomeNumbers'
  BY Zenon DEF Submit, RegionInv, RegionShape, PostShape, HomeNumbers, EndpointsRight
<1> QED
  BY <1>1, <1>2, Zenon DEF RegionInv

\* A send is handled at home, because it arrived there or was forwarded there: it
\* gets the number after all those handed out.
LEMMA HandleSendInv ==
  ASSUME RegionInv, NEW s \in Posts, HandleSend(s)
  PROVE  RegionInv'
<1> USE RegionAssumption
<1> DEFINE r == post[s].at
           t == [region |-> r, seq |-> counter[r] + 1, post |-> s]
<1>1. /\ r \in Regions /\ (home = r \/ post[s].via # Nowhere) /\ post[s].pc = "arrived"
      /\ counter' = [counter EXCEPT ![r] = @ + 1] /\ taken' = taken \union {t}
      /\ UNCHANGED <<home, endpoints>>
  BY Zenon DEF HandleSend, isLocal, RegionInv, RegionShape
<1>2. /\ post' = [post EXCEPT ![s].pc = "sent"] \/ post' = [post EXCEPT ![s].pc = "failed"]
      /\ regionFaults' \in 0..MaxRegionFaults
  BY DEF HandleSend, RegionInv, RegionShape
<1>3. RegionShape'
  <2>1. counter[r] \in Nat /\ t \in [region : Regions, seq : Nat, post : Posts]
    BY <1>1 DEF RegionInv, RegionShape
  <2>2. taken' \subseteq [region : Regions, seq : Nat, post : Posts]
    BY <1>1, <2>1, Zenon DEF RegionInv, RegionShape
  <2>3. counter' \in [Regions -> Nat]
    BY <1>1, <2>1, Zenon DEF RegionInv, RegionShape
  <2>4. /\ post' \in [Posts -> PostShape]
        /\ \A x \in Posts : post'[x].pc = "arrived" => post'[x].at \in Regions
    BY <1>2, PostPcMoves, Zenon DEF RegionInv, RegionShape
  <2> QED
    BY <1>1, <1>2, <2>2, <2>3, <2>4, Zenon DEF RegionInv, RegionShape
<1>4. ASSUME EndpointsRight' PROVE HomeNumbers'
  <2>1. EndpointsRight /\ HomeNumbers
    BY <1>1, <1>4, Zenon DEF EndpointsRight, RegionInv
  <2>2. r = home
    BY <1>1, <2>1, Zenon DEF HomeNumbers
  <2>3. \A x \in taken : x.seq # t.seq
    BY <1>1, <2>1, <2>2 DEF HomeNumbers, RegionInv, RegionShape
  <2>4. \A x \in taken' : x.region = home' /\ x.seq <= counter'[home']
    BY <1>1, <2>1, <2>2 DEF HomeNumbers, RegionInv, RegionShape
  <2>5. \A a, b \in taken' : a.seq = b.seq => a = b
    BY <1>1, <2>1, <2>3, Zenon DEF HomeNumbers
  <2>6. \A x \in Posts : (post[x].pc = "arrived" /\ post[x].via # Nowhere)' => post'[x].at = home'
    BY <1>1, <1>2, <2>1, PostPcMoves DEF HomeNumbers, RegionInv, RegionShape
  <2> QED
    BY <2>4, <2>5, <2>6, Zenon DEF HomeNumbers
<1> QED
  BY <1>3, <1>4, Zenon DEF RegionInv

\* A call is forwarded to where the home region's name leads.
LEMMA ProxyInv ==
  ASSUME RegionInv, NEW s \in Posts, proxyToHomeRegion(s)
  PROVE  RegionInv'
<1> USE RegionAssumption
<1> DEFINE to == endpoints[post[s].at][home]
<1>1. /\ post[s].pc = "arrived" /\ post[s].at \in Regions /\ to \in Regions \union {Nowhere}
      /\ UNCHANGED <<home, endpoints, counter, taken>>
      /\ \/ to # Nowhere /\ post' = [post EXCEPT ![s].at = to, ![s].via = post[s].at]
         \/ post' = [post EXCEPT ![s].pc = "failed"]
      /\ regionFaults' \in 0..MaxRegionFaults
  <2>1. /\ post[s].pc = "arrived" /\ UNCHANGED <<home, endpoints, counter, taken>>
        /\ \/ to # Nowhere /\ post' = [post EXCEPT ![s].at = to, ![s].via = post[s].at]
           \/ post' = [post EXCEPT ![s].pc = "failed"]
    BY Zenon DEF proxyToHomeRegion
  <2>2. regionFaults' \in 0..MaxRegionFaults
    BY DEF proxyToHomeRegion, RegionInv, RegionShape
  <2>3. post[s].at \in Regions /\ to \in Regions \union {Nowhere}
    BY <2>1 DEF RegionInv, RegionShape
  <2> QED
    BY <2>1, <2>2, <2>3, Zenon
<1>2. CASE post' = [post EXCEPT ![s].pc = "failed"]
  <2>1. /\ post' \in [Posts -> PostShape]
        /\ \A x \in Posts : /\ post'[x].at = post[x].at /\ post'[x].via = post[x].via
                            /\ post'[x].pc = IF x = s THEN "failed" ELSE post[x].pc
    <3>1. post \in [Posts -> PostShape] /\ "failed" \in {"sent", "failed"}
      BY Zenon DEF RegionInv, RegionShape
    <3> QED
      BY <1>2, <3>1, PostPcMoves, Zenon
  <2>2. RegionShape'
    BY <1>1, <2>1, Zenon DEF RegionInv, RegionShape
  <2>3. ASSUME EndpointsRight' PROVE HomeNumbers'
    <3>1. HomeNumbers
      BY <1>1, <2>3, Zenon DEF RegionInv, EndpointsRight
    <3>2. \A x \in Posts : (post'[x].pc = "arrived" /\ post'[x].via # Nowhere) => post'[x].at = home
      BY <2>1, <3>1, Zenon DEF HomeNumbers
    <3> QED
      BY <1>1, <3>1, <3>2, Zenon DEF HomeNumbers
  <2> QED
    BY <2>2, <2>3, Zenon DEF RegionInv
<1>3. CASE to # Nowhere /\ post' = [post EXCEPT ![s].at = to, ![s].via = post[s].at]
  <2>1. /\ post' \in [Posts -> PostShape]
        /\ \A x \in Posts : /\ post'[x].pc = post[x].pc
                            /\ x = s => post'[x].at = to
                            /\ x # s => post'[x] = post[x]
    <3>1. post \in [Posts -> PostShape] /\ to \in Regions /\ post[s].at \in Regions
      BY <1>1, <1>3, Zenon DEF RegionInv, RegionShape
    <3> HIDE DEF to
    <3> QED
      BY <1>3, <3>1, Zenon DEF PostShape
  <2>2. RegionShape'
    BY <1>1, <1>3, <2>1, Zenon DEF RegionInv, RegionShape
  <2>3. ASSUME EndpointsRight' PROVE HomeNumbers'
    <3>1. HomeNumbers /\ to = home
      BY <1>1, <1>3, <2>3, Zenon DEF RegionInv, RegionShape, EndpointsRight
    <3>2. \A x \in Posts : (post'[x].pc = "arrived" /\ post'[x].via # Nowhere) => post'[x].at = home
      BY <2>1, <3>1, Zenon DEF HomeNumbers
    <3> QED
      BY <1>1, <3>1, <3>2, Zenon DEF HomeNumbers
  <2> QED
    BY <2>2, <2>3, Zenon DEF RegionInv
<1> QED
  BY <1>1, <1>2, <1>3, Zenon

\* The home region numbers every send, for any regions, endpoints and failures,
\* as long as no endpoint leads to another region than the one it is for.
THEOREM RegionInductive == RegionSpec => []RegionInv
<1>1. ASSUME RegionInv, [RegionNext]_regionVars PROVE RegionInv'
  <2>1. CASE UNCHANGED regionVars
    BY <1>1, <2>1, Zenon DEF regionVars, RegionInv, RegionShape, HomeNumbers, EndpointsRight
  <2>2. CASE RegionNext
    BY <1>1, <2>2, SubmitInv, HandleSendInv, ProxyInv, Zenon DEF RegionNext, Handling
  <2> QED
    BY <1>1, <2>1, <2>2, Zenon
<1> QED
  BY <1>1, RegionInitInv, PTL DEF RegionSpec

\* proxyToHomeRegion: two sends of a chat never get the same number unless an
\* endpoint leads to the wrong region.
THEOREM OneRegionNumbersAChat == RegionSpec => []OneWriterPerChat
<1>1. RegionInv => OneWriterPerChat
  BY Zenon DEF RegionInv, RegionShape, PostShape, HomeNumbers, OneWriterPerChat, RegionTypeOK
<1> QED
  BY <1>1, RegionInductive, PTL

(***************************************************************************)
(* ReadState.                                                              *)
(***************************************************************************)
MarkRow == [pc : {"new", "max", "done"}, seq : 0..TopSeq, owed : SUBSET (1..TopSeq),
            unread : Nat, failed : BOOLEAN]

\* The mirror is ahead of every finished record, and of every message an answer
\* in progress owes its caller.
MarksInv ==
  /\ ReadTypeOK /\ mark \in [Marks -> MarkRow]
  /\ \A n \in acked : n <= rowMax
  /\ \A m \in Marks :
       /\ mark[m].pc = "max" => \A k \in mark[m].owed : mark[m].seq < k /\ k <= rowMax
       /\ mark[m].pc = "done" /\ ~mark[m].failed => mark[m].unread >= Cardinality(mark[m].owed)

\* Messages between a pointer and the mirror are no more than their difference.
LEMMA UnreadCovers ==
  ASSUME NEW max \in 0..TopSeq, NEW read \in 0..TopSeq,
         NEW S, S \subseteq 1..TopSeq, \A k \in S : read < k /\ k <= max
  PROVE  Unread(max, read) \in Nat /\ Unread(max, read) >= Cardinality(S)
<1>1. S \subseteq (read + 1)..max
  BY ReadAssumption
<1>2. /\ IsFiniteSet((read + 1)..max)
      /\ Cardinality((read + 1)..max) = IF read + 1 > max THEN 0 ELSE max - (read + 1) + 1
  BY FS_Interval, ReadAssumption
<1>3. Cardinality(S) <= Cardinality((read + 1)..max) /\ Cardinality(S) \in Nat
  BY <1>1, <1>2, FS_Subset, FS_CardinalityType, Zenon
<1> QED
  BY <1>2, <1>3, ReadAssumption DEF Unread

\* Nothing is sent and nothing is read.
LEMMA ReadInitInv == ReadInit => MarksInv
<1> SUFFICES ASSUME ReadInit PROVE MarksInv
  BY Zenon
<1>1. /\ mark \in [Marks -> MarkRow]
      /\ \A m \in Marks : mark[m].pc = "new"
  BY ReadAssumption DEF ReadInit, MarkRow
<1>2. ReadTypeOK
  BY <1>1, ReadAssumption DEF ReadInit, ReadTypeOK
<1>3. \A n \in acked : n <= rowMax
  BY Zenon DEF ReadInit
<1>4. \A m \in Marks : mark[m].pc # "max" /\ mark[m].pc # "done"
  BY <1>1, Zenon
<1> QED
  BY <1>1, <1>2, <1>3, <1>4, Zenon DEF MarksInv

\* Sends and the persister: the mirror only grows.
LEMMA MirrorInv ==
  ASSUME MarksInv, fate' \in [1..TopSeq -> {"none", "queued", "stored", "burned"}],
         acked' \subseteq 1..TopSeq, rowMax' \in 0..TopSeq, rowMax <= rowMax',
         \A n \in acked' : n <= rowMax', UNCHANGED <<lastRead, mark, readFaults>>
  PROVE  MarksInv'
<1>1. ReadTypeOK'
  BY Zenon DEF MarksInv, ReadTypeOK
<1>2. ASSUME NEW m \in Marks, mark[m].pc = "max", NEW k \in mark[m].owed
      PROVE  mark[m].seq < k /\ k <= rowMax'
  <2>1. mark[m].seq < k /\ k <= rowMax
    BY <1>2, Zenon DEF MarksInv
  <2>2. k \in Int /\ rowMax \in Int /\ rowMax' \in Int
    <3>1. mark[m].owed \subseteq 1..TopSeq
      BY <1>2, Zenon DEF MarksInv, MarkRow
    <3> QED
      BY <3>1 DEF MarksInv, ReadTypeOK
  <2> QED
    BY <2>1, <2>2
<1> QED
  BY <1>1, <1>2, Zenon DEF MarksInv

\* handleMarkRead up to Members.MarkRead.
LEMMA MarkPointerInv ==
  ASSUME MarksInv, NEW m \in Marks, NEW n \in 1..TopSeq, MarkPointer(m, n)
  PROVE  MarksInv' /\ lastRead' >= lastRead
<1> DEFINE newSeq == MarkRead(n)
           owed == {k \in acked : k > newSeq}
           a == [mark[m] EXCEPT !.pc = "max", !.seq = newSeq, !.owed = owed]
<1>1. /\ mark \in [Marks -> MarkRow] /\ mark[m] \in MarkRow /\ lastRead \in 0..TopSeq
      /\ acked \subseteq 1..TopSeq /\ rowMax \in 0..TopSeq
  BY Zenon DEF MarksInv, ReadTypeOK
<1>2. newSeq \in 0..TopSeq /\ newSeq >= lastRead
  BY <1>1, ReadAssumption DEF MarkRead, Greatest
<1>3. lastRead' = newSeq /\ UNCHANGED <<fate, acked, rowMax, readFaults>>
  BY Zenon DEF MarkPointer
<1>4. mark' = [mark EXCEPT ![m] = a]
  BY <1>1, Zenon DEF MarkPointer
<1>5. \A k \in owed : newSeq < k /\ k <= rowMax
  <2>1. \A k \in acked : k <= rowMax
    BY Zenon DEF MarksInv
  <2> QED
    BY <2>1, <1>1, <1>2, Zenon
<1> HIDE DEF newSeq
<1>6. owed \subseteq 1..TopSeq
  BY <1>1, Zenon
<1> HIDE DEF owed
<1>7. a \in MarkRow /\ a.pc = "max" /\ a.seq = newSeq /\ a.owed = owed
  BY <1>1, <1>2, <1>6, Zenon DEF MarkRow
<1> HIDE DEF a
<1>8. /\ mark' \in [Marks -> MarkRow] /\ mark'[m] = a
      /\ \A x \in Marks : x # m => mark'[x] = mark[x]
  BY <1>1, <1>4, <1>7, Zenon
<1>9. ReadTypeOK'
  <2>1. \A x \in Marks : mark'[x].pc \in {"new", "max", "done"}
    BY <1>8, Zenon DEF MarkRow
  <2> QED
    BY <2>1, <1>2, <1>3, Zenon DEF MarksInv, ReadTypeOK
<1>10. a.pc # "done"
  BY <1>7, Zenon
<1>11. ASSUME NEW x \in Marks
       PROVE  /\ mark'[x].pc = "max" => \A k \in mark'[x].owed : mark'[x].seq < k /\ k <= rowMax'
              /\ mark'[x].pc = "done" /\ ~mark'[x].failed
                   => mark'[x].unread >= Cardinality(mark'[x].owed)
  <2>1. CASE x = m
    BY <2>1, <1>3, <1>5, <1>7, <1>8, <1>10, Zenon
  <2>2. CASE x # m
    BY <2>2, <1>3, <1>8, Zenon DEF MarksInv
  <2> QED
    BY <2>1, <2>2, Zenon
<1>12. \A k \in acked' : k <= rowMax'
  BY <1>3, Zenon DEF MarksInv
<1> QED
  BY <1>2, <1>3, <1>8, <1>9, <1>11, <1>12, Zenon DEF MarksInv

\* handleMarkRead from Sequences.Max on.
LEMMA MarkAnswerInv == ASSUME MarksInv, NEW m \in Marks, MarkAnswer(m) PROVE MarksInv'
<1>1. /\ mark \in [Marks -> MarkRow] /\ mark[m] \in MarkRow
      /\ rowMax \in 0..TopSeq /\ readFaults \in 0..MaxReadFaults
  BY Zenon DEF MarksInv, ReadTypeOK
<1>2. mark[m].pc = "max" /\ UNCHANGED <<fate, acked, rowMax, lastRead>>
  BY Zenon DEF MarkAnswer
<1>3. mark[m].seq \in 0..TopSeq /\ mark[m].owed \subseteq 1..TopSeq
  BY <1>1, Zenon DEF MarkRow
<1>4. \A k \in mark[m].owed : mark[m].seq < k /\ k <= rowMax
  BY <1>2, Zenon DEF MarksInv
<1>5. Unread(rowMax, mark[m].seq) \in Nat /\ Unread(rowMax, mark[m].seq) >= Cardinality(mark[m].owed)
  BY <1>1, <1>3, <1>4, UnreadCovers, Zenon
<1>6. readFaults' \in 0..MaxReadFaults
  BY <1>1, ReadAssumption DEF MarkAnswer, ReadFault
<1>7. PICK a \in MarkRow : /\ mark' = [mark EXCEPT ![m] = a] /\ a.pc = "done"
                           /\ ~a.failed => a.unread >= Cardinality(a.owed)
  <2>1. CASE mark' = [mark EXCEPT ![m].pc = "done", ![m].unread = Unread(rowMax, mark[m].seq)]
    <3> DEFINE a == [mark[m] EXCEPT !.pc = "done", !.unread = Unread(rowMax, mark[m].seq)]
    <3>1. a \in MarkRow /\ a.pc = "done" /\ a.unread = Unread(rowMax, mark[m].seq)
          /\ a.owed = mark[m].owed
      BY <1>1, <1>5, Zenon DEF MarkRow
    <3>2. mark' = [mark EXCEPT ![m] = a]
      BY <1>1, <2>1, Zenon
    <3> HIDE DEF a
    <3> QED
      BY <3>1, <3>2, <1>5, Zenon
  <2>2. CASE mark' = [mark EXCEPT ![m].pc = "done", ![m].failed = TRUE]
    <3> DEFINE a == [mark[m] EXCEPT !.pc = "done", !.failed = TRUE]
    <3>1. a \in MarkRow /\ a.pc = "done" /\ a.failed
      BY <1>1, Zenon DEF MarkRow
    <3>2. mark' = [mark EXCEPT ![m] = a]
      BY <1>1, <2>2, Zenon
    <3> HIDE DEF a
    <3> QED
      BY <3>1, <3>2, Zenon
  <2> QED
    BY <2>1, <2>2, Zenon DEF MarkAnswer
<1>8. /\ mark' \in [Marks -> MarkRow] /\ mark'[m] = a
      /\ \A x \in Marks : x # m => mark'[x] = mark[x]
  <2>1. mark' = [mark EXCEPT ![m] = a]
    BY <1>7, Zenon
  <2> QED
    BY <2>1, <1>1, Zenon
<1>9. ReadTypeOK'
  <2>1. \A x \in Marks : mark'[x].pc \in {"new", "max", "done"}
    BY <1>8, Zenon DEF MarkRow
  <2> QED
    BY <2>1, <1>2, <1>6, Zenon DEF MarksInv, ReadTypeOK
<1>10. mark'[m].pc # "max"
  <2>1. a.pc = "done"
    BY <1>7, Zenon
  <2> QED
    BY <2>1, <1>8, Zenon
<1>11. ASSUME NEW x \in Marks
       PROVE  /\ mark'[x].pc = "max" => \A k \in mark'[x].owed : mark'[x].seq < k /\ k <= rowMax'
              /\ mark'[x].pc = "done" /\ ~mark'[x].failed
                   => mark'[x].unread >= Cardinality(mark'[x].owed)
  <2>1. CASE x = m
    <3>1. ~mark'[m].failed => mark'[m].unread >= Cardinality(mark'[m].owed)
      BY <1>7, <1>8, Zenon
    <3> QED
      BY <2>1, <3>1, <1>10, Zenon
  <2>2. CASE x # m
    BY <2>2, <1>2, <1>8, Zenon DEF MarksInv
  <2> QED
    BY <2>1, <2>2, Zenon
<1>12. \A k \in acked' : k <= rowMax'
  BY <1>2, Zenon DEF MarksInv
<1> QED
  BY <1>8, <1>9, <1>11, <1>12, Zenon DEF MarksInv

\* What the two theorems below rest on, and that no step moves the pointer back.
LEMMA ReadStep == ASSUME MarksInv, [ReadNext]_pointerVars PROVE MarksInv' /\ lastRead' >= lastRead
<1>1. /\ fate \in [1..TopSeq -> {"none", "queued", "stored", "burned"}]
      /\ acked \subseteq 1..TopSeq /\ rowMax \in 0..TopSeq /\ lastRead \in 0..TopSeq
      /\ \A n \in acked : n <= rowMax
  BY Zenon DEF MarksInv, ReadTypeOK
<1>2. rowMax <= rowMax /\ lastRead >= lastRead
  BY <1>1
<1>3. ASSUME NEW m \in Marks, NEW n \in 1..TopSeq, MarkPointer(m, n)
      PROVE  MarksInv' /\ lastRead' >= lastRead
  BY <1>3, MarkPointerInv, Zenon
<1>4. ASSUME NEW m \in Marks, MarkAnswer(m) PROVE MarksInv' /\ lastRead' >= lastRead
  BY <1>2, <1>4, MarkAnswerInv, Zenon DEF MarkAnswer
<1>5. CASE TakeNumber
  <2>1. fate' \in [1..TopSeq -> {"none", "queued", "stored", "burned"}]
    BY <1>1, <1>5, Zenon DEF TakeNumber
  <2>2. UNCHANGED <<acked, rowMax, lastRead, mark, readFaults>>
    BY <1>5, Zenon DEF TakeNumber
  <2> QED
    BY <2>1, <2>2, <1>1, <1>2, MirrorInv, Zenon
<1>6. ASSUME NEW n \in 1..TopSeq, Store(n) PROVE MarksInv' /\ lastRead' >= lastRead
  <2>1. fate' \in [1..TopSeq -> {"none", "queued", "stored", "burned"}]
    BY <1>1, <1>6, Zenon DEF Store
  <2>2. UNCHANGED <<acked, rowMax, lastRead, mark, readFaults>>
    BY <1>6, Zenon DEF Store
  <2> QED
    BY <2>1, <2>2, <1>1, <1>2, MirrorInv, Zenon
<1>7. ASSUME NEW n \in 1..TopSeq, Advance(n) PROVE MarksInv' /\ lastRead' >= lastRead
  <2>1. /\ rowMax' = Greatest(rowMax, n) /\ acked' = acked \union {n}
        /\ UNCHANGED <<fate, lastRead, mark, readFaults>>
    BY <1>7, Zenon DEF Advance
  <2>2. rowMax' \in 0..TopSeq /\ rowMax <= rowMax' /\ n <= rowMax'
    BY <2>1, <1>1, ReadAssumption DEF Greatest
  <2>3. acked' \subseteq 1..TopSeq /\ \A k \in acked' : k <= rowMax'
    BY <2>1, <2>2, <1>1
  <2> QED
    BY <2>1, <2>2, <2>3, <1>1, <1>2, MirrorInv, Zenon
<1>8. CASE UNCHANGED pointerVars
  <2>1. UNCHANGED <<fate, acked, rowMax, lastRead, mark, readFaults>>
    BY <1>8, Zenon DEF pointerVars
  <2> QED
    BY <2>1, <1>1, <1>2, MirrorInv, Zenon
<1> QED
  BY <1>3, <1>4, <1>5, <1>6, <1>7, <1>8, Zenon DEF ReadNext

\* The mirrored maximum is ahead of whatever an unread count owes, in every order of
\* sends, redeliveries and devices.
THEOREM ReadInductive == ReadSpec => []MarksInv
<1>1. MarksInv /\ [ReadNext]_pointerVars => MarksInv'
  BY ReadStep, Zenon
<1> QED
  BY <1>1, ReadInitInv, PTL DEF ReadSpec

\* No unread count, of the chat list or of handleMarkRead, hides a message that the
\* persister had finished.
THEOREM UnreadCountsCover == ReadSpec => []UnreadHidesNothing
<1>1. MarksInv => UnreadHidesNothing
  <2> SUFFICES ASSUME MarksInv
               PROVE  Unread(rowMax, lastRead) >= Cardinality({n \in acked : n > lastRead})
    BY Zenon DEF MarksInv, UnreadHidesNothing
  <2>1. /\ acked \subseteq 1..TopSeq /\ rowMax \in 0..TopSeq /\ lastRead \in 0..TopSeq
        /\ \A n \in acked : n <= rowMax
    BY Zenon DEF MarksInv, ReadTypeOK
  <2>2. \A k \in {n \in acked : n > lastRead} : lastRead < k /\ k <= rowMax
    BY <2>1, Zenon
  <2>3. {n \in acked : n > lastRead} \subseteq 1..TopSeq
    BY <2>1, Zenon
  <2> QED
    BY <2>1, <2>2, <2>3, UnreadCovers, Zenon
<1> QED
  BY <1>1, ReadInductive, PTL

\* The read pointer only moves forward, whatever numbers devices report and in whatever
\* order (Members.MarkRead).
THEOREM PointerNeverGoesBack == ReadSpec => ReadNeverRegresses
<1>1. MarksInv /\ [ReadNext]_pointerVars => [lastRead' >= lastRead]_lastRead
  BY ReadStep, Zenon
<1> QED
  BY <1>1, ReadInductive, PTL DEF ReadSpec, ReadNeverRegresses


(***************************************************************************)
(* Dialogs.                                                                *)
(***************************************************************************)
CreatorRow == [pc : {"new", "insert", "done", "failed"}, pair : Peers \union {""},
               id : Creators \union {""}, created : BOOLEAN]

\* A create request tells what the rows say: an answered one names the row of its
\* pair, and the one that made a row is the only one that says so.
CreatorRight(c, cr, chats) ==
  /\ cr.pc = "insert" => cr.pair \in Peers
  /\ cr.pc = "done" => [id |-> cr.id, pair |-> cr.pair] \in chats
  /\ cr.created = TRUE => cr.pc = "done" /\ cr.id = c

RowsRight ==
  /\ chatRows \subseteq [id : Creators, pair : Peers]
  /\ \A r, s \in chatRows : r.pair = s.pair => r = s
  /\ \A r \in chatRows : creator[r.id].created = TRUE /\ creator[r.id].pair = r.pair

CreateInv ==
  /\ creator \in [Creators -> CreatorRow] /\ pairIndex \in PairIndexes /\ RowsRight
  /\ \A c \in Creators : CreatorRight(c, creator[c], chatRows)

Entries(list) == {list[i] : i \in Nat}
GapUpTo(l, i) == \E j \in l.gaps : j <= i

\* Ids looked up fall behind the chats only after a gap.
ListingRight(l) ==
  /\ l = [pc |-> l.pc, list |-> l.list, looked |-> l.looked, peerIDs |-> l.peerIDs,
          gaps |-> l.gaps, peer |-> l.peer]
  /\ l.pc \in {"new", "ids", "users", "done"}
  /\ l.looked \in Nat /\ l.gaps \subseteq Nat
  /\ l.peerIDs \in Seq(Entries(l.list)) /\ Len(l.peerIDs) <= l.looked
  /\ Len(l.peerIDs) = l.looked \/ GapUpTo(l, Len(l.peerIDs) + 1)
  /\ \A i \in 1..Len(l.peerIDs) : l.peerIDs[i] = l.list[i] \/ GapUpTo(l, i)
  /\ l.pc = "new" => l.peerIDs = << >> /\ l.peer = << >>
  /\ l.pc = "done" => \A i \in DOMAIN l.peer : l.peer[i] \in {l.list[i], "none"} \/ GapUpTo(l, i)

ListInv ==
  /\ member \in [Peers -> [Sides -> {"no", "in", "left"}]] /\ gone \subseteq Peers
  /\ dialogFaults \in 0..MaxDialogFaults /\ ListingRight(listing)

\* Nothing is created and nothing is listed.
LEMMA DialogInitInv == DialogInit => CreateInv /\ ListInv
<1> SUFFICES ASSUME DialogInit PROVE CreateInv /\ ListInv
  BY Zenon
<1>1. /\ creator \in [Creators -> CreatorRow]
      /\ \A c \in Creators : creator[c].pc = "new" /\ creator[c].created = FALSE
  BY Zenon DEF DialogInit, CreatorRow
<1>2. ASSUME NEW c \in Creators PROVE CreatorRight(c, creator[c], chatRows)
  BY <1>1, Zenon DEF CreatorRight
<1>3. RowsRight /\ pairIndex \in PairIndexes
  BY Zenon DEF DialogInit, RowsRight
<1>4. ListingRight(listing)
  <2>1. listing = [pc |-> "new", list |-> << >>, looked |-> 0, peerIDs |-> << >>,
                   gaps |-> {}, peer |-> << >>]
    BY Zenon DEF DialogInit
  <2>2. << >> \in Seq(Entries(<< >>)) /\ Len(<< >>) = 0
    OBVIOUS
  <2>3. /\ listing.pc = "new" /\ listing.looked = 0 /\ listing.peerIDs = << >>
        /\ listing.list = << >> /\ listing.gaps = {} /\ listing.peer = << >>
    BY <2>1, Zenon
  <2>4. /\ listing.pc # "done" /\ listing.pc \in {"new", "ids", "users", "done"}
        /\ 0 \in Nat /\ 0 <= 0 /\ 1..0 = {}
    BY <2>3
  <2> QED
    BY <2>1, <2>2, <2>3, <2>4, Zenon DEF ListingRight
<1>5. /\ member \in [Peers -> [Sides -> {"no", "in", "left"}]] /\ gone \subseteq Peers
      /\ dialogFaults \in 0..MaxDialogFaults
  <2>1. /\ member = [p \in Peers |-> [s \in Sides |-> "no"]] /\ gone = {} /\ dialogFaults = 0
    BY Zenon DEF DialogInit
  <2> QED
    BY <2>1, DialogAssumption
<1> QED
  BY <1>1, <1>2, <1>3, <1>4, <1>5, Zenon DEF CreateInv, ListInv

\* A request that ends, or goes on, without a row of its own.
LEMMA CreatorStep ==
  ASSUME CreateInv, NEW c \in Creators, creator[c].pc # "done", NEW cr \in CreatorRow,
         CreatorRight(c, cr, chatRows), cr.created = FALSE,
         creator' = [creator EXCEPT ![c] = cr], UNCHANGED <<chatRows, pairIndex>>
  PROVE  CreateInv'
<1>1. creator \in [Creators -> CreatorRow]
  BY Zenon DEF CreateInv
<1>2. /\ creator' \in [Creators -> CreatorRow] /\ creator'[c] = cr
      /\ \A d \in Creators : d # c => creator'[d] = creator[d]
  BY <1>1, Zenon
<1>3. ASSUME NEW d \in Creators PROVE CreatorRight(d, creator'[d], chatRows)
  <2>1. CASE d = c
    BY <2>1, <1>2, Zenon
  <2>2. CASE d # c
    BY <2>2, <1>2, Zenon DEF CreateInv
  <2> QED
    BY <2>1, <2>2, Zenon
<1>4. ASSUME NEW r \in chatRows PROVE r.id # c /\ r.id \in Creators
  <2>1. creator[r.id].created = TRUE
    BY Zenon DEF CreateInv, RowsRight
  <2>2. r.id \in Creators
    BY Zenon DEF CreateInv, RowsRight
  <2>3. creator[c].created # TRUE
    BY Zenon DEF CreateInv, CreatorRight
  <2> QED
    BY <2>1, <2>2, <2>3, Zenon
<1>5. RowsRight'
  BY <1>2, <1>4, Zenon DEF CreateInv, RowsRight
<1> QED
  BY <1>2, <1>3, <1>5, Zenon DEF CreateInv

\* The fast path of CreatePrivate.
LEMMA CreateLookInv ==
  ASSUME CreateInv, NEW c \in Creators, NEW p \in Peers, CreateLook(c, p) PROVE CreateInv'
<1>1. /\ creator \in [Creators -> CreatorRow] /\ creator[c] \in CreatorRow
      /\ chatRows \subseteq [id : Creators, pair : Peers]
  BY Zenon DEF CreateInv, RowsRight
<1>2. creator[c].pc = "new" /\ UNCHANGED <<chatRows, pairIndex>>
  BY Zenon DEF CreateLook
<1>3. creator[c].pc # "done" /\ creator[c].created = FALSE
  <2>1. creator[c].pc # "done"
    BY <1>2, Zenon
  <2>2. creator[c].created # TRUE
    BY <2>1, Zenon DEF CreateInv, CreatorRight
  <2>3. creator[c].created \in BOOLEAN
    BY <1>1, Zenon DEF CreatorRow
  <2> QED
    BY <2>1, <2>2, <2>3, Zenon
<1>4. ASSUME NEW r \in RowOf(p), AnswerCreate(c, p, r.id, FALSE) PROVE CreateInv'
  <2> DEFINE cr == [pc |-> "done", pair |-> p, id |-> r.id, created |-> FALSE]
  <2>1. r \in chatRows /\ r.pair = p
    BY <1>4, Zenon DEF RowOf
  <2>2. r.id \in Creators /\ [id |-> r.id, pair |-> p] = r
    BY <1>1, <2>1, Zenon
  <2>3. cr \in CreatorRow /\ cr.pc = "done" /\ cr.pair = p /\ cr.id = r.id /\ cr.created = FALSE
    BY <2>2, Zenon DEF CreatorRow
  <2>4. creator' = [creator EXCEPT ![c] = cr]
    BY <1>4, Zenon DEF AnswerCreate
  <2> HIDE DEF cr
  <2>5. cr.pc # "insert" /\ cr.created # TRUE
    BY <2>3, Zenon
  <2>6. CreatorRight(c, cr, chatRows)
    BY <2>1, <2>2, <2>3, <2>5, Zenon DEF CreatorRight
  <2> QED
    BY <2>3, <2>4, <2>6, <1>2, <1>3, CreatorStep, Zenon
<1>5. ASSUME creator' = [creator EXCEPT ![c].pc = "insert", ![c].pair = p] PROVE CreateInv'
  <2> DEFINE cr == [creator[c] EXCEPT !.pc = "insert", !.pair = p]
  <2>1. creator' = [creator EXCEPT ![c] = cr]
    BY <1>1, <1>5, Zenon
  <2>2. cr \in CreatorRow /\ cr.pc = "insert" /\ cr.pair = p /\ cr.created = creator[c].created
    BY <1>1, Zenon DEF CreatorRow
  <2> HIDE DEF cr
  <2>3. cr.pc # "done" /\ cr.created = FALSE /\ cr.created # TRUE
    <3>1. cr.pc # "done"
      BY <2>2, Zenon
    <3> QED
      BY <3>1, <2>2, <1>3, Zenon
  <2>4. CreatorRight(c, cr, chatRows)
    BY <2>2, <2>3, Zenon DEF CreatorRight
  <2> QED
    BY <2>1, <2>2, <2>3, <2>4, <1>2, <1>3, CreatorStep, Zenon
<1> QED
  BY <1>4, <1>5, Zenon DEF CreateLook

\* The insert of CreatePrivate, whoever else inserted in between.
LEMMA CreateInsertInv ==
  ASSUME CreateInv, NEW c \in Creators, CreateInsert(c) PROVE CreateInv' /\ creator[c].pair \in Peers
<1> DEFINE p == creator[c].pair
<1>1. /\ creator \in [Creators -> CreatorRow] /\ creator[c] \in CreatorRow
      /\ chatRows \subseteq [id : Creators, pair : Peers]
  BY Zenon DEF CreateInv, RowsRight
<1>2. creator[c].pc = "insert" /\ UNCHANGED pairIndex
  BY Zenon DEF CreateInsert
<1>3. p \in Peers
  BY <1>2, Zenon DEF CreateInv, CreatorRight
<1>4. creator[c].pc # "done" /\ creator[c].created = FALSE
  <2>1. creator[c].pc # "done"
    BY <1>2, Zenon
  <2>2. creator[c].created # TRUE
    BY <2>1, Zenon DEF CreateInv, CreatorRight
  <2>3. creator[c].created \in BOOLEAN
    BY <1>1, Zenon DEF CreatorRow
  <2> QED
    BY <2>1, <2>2, <2>3, Zenon
<1>5. ASSUME NEW r \in RowOf(p), AnswerCreate(c, p, r.id, FALSE), UNCHANGED chatRows
      PROVE  CreateInv'
  <2> DEFINE cr == [pc |-> "done", pair |-> p, id |-> r.id, created |-> FALSE]
  <2>1. r \in chatRows /\ r.pair = p
    BY <1>5, Zenon DEF RowOf
  <2>2. r.id \in Creators /\ [id |-> r.id, pair |-> p] = r
    BY <1>1, <2>1, Zenon
  <2>3. creator' = [creator EXCEPT ![c] = cr]
    BY <1>5, Zenon DEF AnswerCreate
  <2> HIDE DEF p
  <2>4. cr \in CreatorRow /\ cr.pc = "done" /\ cr.pair = p /\ cr.id = r.id /\ cr.created = FALSE
    BY <1>3, <2>2, Zenon DEF CreatorRow
  <2> HIDE DEF cr
  <2>5. cr.pc # "insert" /\ cr.created # TRUE
    BY <2>4, Zenon
  <2>6. CreatorRight(c, cr, chatRows)
    BY <2>1, <2>2, <2>4, <2>5, Zenon DEF CreatorRight
  <2> QED
    BY <2>3, <2>4, <2>6, <1>2, <1>4, <1>5, CreatorStep, Zenon
<1>6. ASSUME creator' = [creator EXCEPT ![c].pc = "failed"], UNCHANGED chatRows PROVE CreateInv'
  <2> DEFINE cr == [creator[c] EXCEPT !.pc = "failed"]
  <2>1. creator' = [creator EXCEPT ![c] = cr]
    BY <1>1, <1>6, Zenon
  <2>2. cr \in CreatorRow /\ cr.pc = "failed" /\ cr.created = creator[c].created
    BY <1>1, Zenon DEF CreatorRow
  <2> HIDE DEF cr
  <2>3. cr.pc # "done" /\ cr.pc # "insert"
    BY <2>2, Zenon
  <2>4. CreatorRight(c, cr, chatRows) /\ cr.created = FALSE
    BY <2>2, <2>3, <1>4, Zenon DEF CreatorRight
  <2> QED
    BY <2>1, <2>2, <2>4, <1>2, <1>4, <1>6, CreatorStep, Zenon
<1>7. ASSUME RowOf(p) = {}, chatRows' = chatRows \union {[id |-> c, pair |-> p]},
             AnswerCreate(c, p, c, TRUE)
      PROVE  CreateInv'
  <2> DEFINE cr == [pc |-> "done", pair |-> p, id |-> c, created |-> TRUE]
             new == [id |-> c, pair |-> p]
  <2>1. creator' = [creator EXCEPT ![c] = cr]
    BY <1>7, Zenon DEF AnswerCreate
  <2>2. \A r \in chatRows : r.pair # p
    BY <1>7, Zenon DEF RowOf
  <2>3. chatRows' = chatRows \union {new}
    BY <1>7, Zenon
  <2> HIDE DEF p
  <2>4. new \in [id : Creators, pair : Peers] /\ new.id = c /\ new.pair = p
    BY <1>3, Zenon
  <2>5. cr \in CreatorRow /\ cr.pc = "done" /\ cr.pair = p /\ cr.id = c /\ cr.created = TRUE
    BY <1>3, Zenon DEF CreatorRow
  <2>6. new = [id |-> cr.id, pair |-> cr.pair]
    BY <2>5, Zenon
  <2> HIDE DEF cr, new
  <2>7. cr.pc # "insert"
    BY <2>5, Zenon
  <2>8. /\ creator' \in [Creators -> CreatorRow] /\ creator'[c] = cr
        /\ \A d \in Creators : d # c => creator'[d] = creator[d]
    BY <1>1, <2>1, <2>5, Zenon
  <2>9. ASSUME NEW d \in Creators PROVE CreatorRight(d, creator'[d], chatRows')
    <3>1. CASE d = c
      BY <3>1, <2>3, <2>5, <2>6, <2>7, <2>8, Zenon DEF CreatorRight
    <3>2. CASE d # c
      <4>1. CreatorRight(d, creator[d], chatRows) /\ creator'[d] = creator[d]
        BY <3>2, <2>8, Zenon DEF CreateInv
      <4> QED
        BY <4>1, <2>3, Zenon DEF CreatorRight
    <3> QED
      BY <3>1, <3>2, Zenon
  <2>10. ASSUME NEW r \in chatRows
         PROVE  r.id # c /\ r.id \in Creators
    <3>1. creator[r.id].created = TRUE /\ creator[c].created # TRUE
      BY <1>4, Zenon DEF CreateInv, RowsRight
    <3> QED
      BY <3>1, <1>1, Zenon
  <2>11. \A r, s \in chatRows' : r.pair = s.pair => r = s
    <3>1. \A r, s \in chatRows : r.pair = s.pair => r = s
      BY Zenon DEF CreateInv, RowsRight
    <3> QED
      BY <3>1, <2>2, <2>3, <2>4, Zenon
  <2>12. ASSUME NEW r \in chatRows' PROVE creator'[r.id].created = TRUE /\ creator'[r.id].pair = r.pair
    <3>1. CASE r = new
      BY <3>1, <2>4, <2>5, <2>8, Zenon
    <3>2. CASE r \in chatRows
      <4>1. creator[r.id].created = TRUE /\ creator[r.id].pair = r.pair
        BY <3>2, Zenon DEF CreateInv, RowsRight
      <4> QED
        BY <3>2, <4>1, <2>8, <2>10, Zenon
    <3> QED
      BY <3>1, <3>2, <2>3, Zenon
  <2>13. chatRows' \subseteq [id : Creators, pair : Peers]
    BY <1>1, <2>3, <2>4, Zenon
  <2>14. RowsRight'
    BY <2>11, <2>12, <2>13, Zenon DEF RowsRight
  <2> QED
    BY <1>2, <2>8, <2>9, <2>14, Zenon DEF CreateInv
<1> QED
  BY <1>3, <1>5, <1>6, <1>7, Zenon DEF CreateInsert

\* Creating, leaving and deleting do not touch a listing in progress.
LEMMA ListingApart ==
  ASSUME ListInv, member' \in [Peers -> [Sides -> {"no", "in", "left"}]], gone' \subseteq Peers,
         UNCHANGED <<listing, dialogFaults>>
  PROVE  ListInv'
BY Zenon DEF ListInv

\* Dialogs: the list is taken, no peer is looked up yet.
LEMMA ListDialogsInv == ASSUME ListInv, ListDialogs PROVE ListInv'
<1> DEFINE l == listing
           s == SelectSeq(DialogOrder, LAMBDA p : member[p]["me"] = "in")
<1>1. /\ ListingRight(l) /\ l.pc = "new" /\ UNCHANGED <<member, gone, dialogFaults>>
      /\ listing' = [l EXCEPT !.pc = IF s = <<>> THEN "done" ELSE "ids", !.list = s]
  BY Zenon DEF ListInv, ListDialogs
<1> HIDE DEF s, l
<1>2. PICK next \in {"done", "ids"} : listing' = [l EXCEPT !.pc = next, !.list = s]
  BY <1>1, Zenon
<1>3. l = [pc |-> l.pc, list |-> l.list, looked |-> l.looked, peerIDs |-> l.peerIDs,
           gaps |-> l.gaps, peer |-> l.peer]
  BY <1>1, Zenon DEF ListingRight
<1>4. listing' = [pc |-> next, list |-> s, looked |-> l.looked, peerIDs |-> l.peerIDs,
                  gaps |-> l.gaps, peer |-> l.peer]
  BY <1>2, <1>3, Zenon
<1>5. /\ listing'.pc = next /\ listing'.list = s /\ listing'.looked = l.looked
      /\ listing'.peerIDs = l.peerIDs /\ listing'.gaps = l.gaps /\ listing'.peer = l.peer
  BY <1>4, Zenon
<1>6. l.peerIDs = << >> /\ l.peer = << >>
  BY <1>1, Zenon DEF ListingRight
<1>7. << >> \in Seq(Entries(s)) /\ 1..Len(<< >>) = {} /\ DOMAIN << >> = {}
  OBVIOUS
<1>8. next \in {"new", "ids", "users", "done"} /\ next # "new"
  BY Zenon
<1>9. ListingRight(listing')
  BY <1>1, <1>4, <1>5, <1>6, <1>7, <1>8, Zenon DEF ListingRight, GapUpTo
<1> QED
  BY <1>1, <1>9, Zenon DEF ListInv

\* Members.IDs of the next chat adds its peer's id, or leaves a gap.
LEMMA LookUpPeerInv == ASSUME ListInv, LookUpPeer PROVE ListInv'
<1> DEFINE l == listing
           i == l.looked + 1
<1>1. /\ ListingRight(l) /\ UNCHANGED <<member, gone>> /\ dialogFaults \in 0..MaxDialogFaults
  BY Zenon DEF ListInv, LookUpPeer
<1>2. dialogFaults' \in 0..MaxDialogFaults
  BY <1>1, DialogAssumption DEF LookUpPeer, DialogFault
<1>3. PICK next \in {"users", "ids"} :
        \/ listing' = [[l EXCEPT !.looked = i, !.pc = next] EXCEPT !.peerIDs = Append(@, l.list[i])]
        \/ listing' = [[l EXCEPT !.looked = i, !.pc = next] EXCEPT !.gaps = @ \union {i}]
  BY Zenon DEF LookUpPeer
<1> HIDE DEF l
<1>4. l = [pc |-> l.pc, list |-> l.list, looked |-> l.looked, peerIDs |-> l.peerIDs,
           gaps |-> l.gaps, peer |-> l.peer]
  BY <1>1, Zenon DEF ListingRight
<1>5. /\ l.looked \in Nat /\ l.gaps \subseteq Nat /\ i \in Nat /\ l.peerIDs \in Seq(Entries(l.list))
      /\ Len(l.peerIDs) \in Nat /\ Len(l.peerIDs) <= l.looked
  BY <1>1 DEF ListingRight
<1>6. /\ Len(l.peerIDs) = l.looked \/ GapUpTo(l, Len(l.peerIDs) + 1)
      /\ \A k \in 1..Len(l.peerIDs) : l.peerIDs[k] = l.list[k] \/ GapUpTo(l, k)
  BY <1>1, Zenon DEF ListingRight
<1>7. next \in {"new", "ids", "users", "done"} /\ next # "new" /\ next # "done"
  BY Zenon
<1>8. CASE listing' = [[l EXCEPT !.looked = i, !.pc = next] EXCEPT !.peerIDs = Append(@, l.list[i])]
  <2> DEFINE ids == Append(l.peerIDs, l.list[i])
  <2>1. l.list[i] \in Entries(l.list)
    BY <1>5, Zenon DEF Entries
  <2>2. /\ ids \in Seq(Entries(l.list)) /\ Len(ids) = Len(l.peerIDs) + 1
        /\ ids[Len(l.peerIDs) + 1] = l.list[i]
        /\ \A k \in 1..Len(l.peerIDs) : ids[k] = l.peerIDs[k]
    BY <2>1, <1>5
  <2>3. listing' = [pc |-> next, list |-> l.list, looked |-> i, peerIDs |-> ids,
                    gaps |-> l.gaps, peer |-> l.peer]
    BY <1>4, <1>8, Zenon
  <2> HIDE DEF ids
  <2>4. /\ listing'.pc = next /\ listing'.list = l.list /\ listing'.looked = i
        /\ listing'.peerIDs = ids /\ listing'.gaps = l.gaps /\ listing'.peer = l.peer
    BY <2>3, Zenon
  <2>5. Len(ids) <= i /\ (Len(ids) = i \/ \E j \in l.gaps : j <= Len(ids) + 1)
    BY <2>2, <1>5, <1>6 DEF GapUpTo
  <2>6. ASSUME NEW k \in 1..Len(ids) PROVE ids[k] = l.list[k] \/ \E j \in l.gaps : j <= k
    <3>1. CASE k \in 1..Len(l.peerIDs)
      BY <3>1, <2>2, <1>6, Zenon DEF GapUpTo
    <3>2. CASE k = Len(l.peerIDs) + 1
      BY <3>2, <2>2, <1>5, <1>6, Zenon DEF GapUpTo
    <3> QED
      BY <3>1, <3>2, <2>2, <1>5
  <2>7. ListingRight(listing')
    BY <1>5, <1>7, <2>2, <2>3, <2>4, <2>5, <2>6, Zenon DEF ListingRight, GapUpTo
  <2> QED
    BY <2>7, <1>1, <1>2, Zenon DEF ListInv
<1>9. CASE listing' = [[l EXCEPT !.looked = i, !.pc = next] EXCEPT !.gaps = @ \union {i}]
  <2>1. listing' = [pc |-> next, list |-> l.list, looked |-> i, peerIDs |-> l.peerIDs,
                    gaps |-> l.gaps \union {i}, peer |-> l.peer]
    BY <1>4, <1>9, Zenon
  <2>2. /\ listing'.pc = next /\ listing'.list = l.list /\ listing'.looked = i
        /\ listing'.peerIDs = l.peerIDs /\ listing'.gaps = l.gaps \union {i} /\ listing'.peer = l.peer
    BY <2>1, Zenon
  <2>3. /\ Len(l.peerIDs) <= i /\ l.gaps \union {i} \subseteq Nat
        /\ \E j \in l.gaps \union {i} : j <= Len(l.peerIDs) + 1
    <3>1. Len(l.peerIDs) <= i /\ l.gaps \union {i} \subseteq Nat
      BY <1>5
    <3>2. CASE Len(l.peerIDs) = l.looked
      <4>1. i <= Len(l.peerIDs) + 1
        BY <3>2, <1>5
      <4> QED
        BY <3>1, <4>1, Zenon
    <3>3. CASE GapUpTo(l, Len(l.peerIDs) + 1)
      BY <3>1, <3>3, Zenon DEF GapUpTo
    <3> QED
      BY <3>2, <3>3, <1>6, Zenon
  <2>4. \A k \in 1..Len(l.peerIDs) :
          l.peerIDs[k] = l.list[k] \/ \E j \in l.gaps \union {i} : j <= k
    BY <1>6, Zenon DEF GapUpTo
  <2>5. ListingRight(listing')
    BY <1>5, <1>7, <2>1, <2>2, <2>3, <2>4, Zenon DEF ListingRight, GapUpTo
  <2> QED
    BY <2>5, <1>1, <1>2, Zenon DEF ListInv
<1> QED
  BY <1>3, <1>8, <1>9, Zenon

\* Users.GetMany: the ids are dealt out in order.
LEMMA HydrateInv == ASSUME ListInv, Hydrate PROVE ListInv'
<1> DEFINE l == listing
<1>1. /\ ListingRight(l) /\ UNCHANGED <<member, gone>> /\ dialogFaults \in 0..MaxDialogFaults
  BY Zenon DEF ListInv, Hydrate
<1>2. dialogFaults' \in 0..MaxDialogFaults
  BY <1>1, DialogAssumption DEF Hydrate, DialogFault
<1>3. PICK users : listing' = [l EXCEPT !.pc = "done", !.peer = Dealt(l, users)]
  BY Zenon DEF Hydrate
<1> HIDE DEF l
<1>4. l = [pc |-> l.pc, list |-> l.list, looked |-> l.looked, peerIDs |-> l.peerIDs,
           gaps |-> l.gaps, peer |-> l.peer]
  BY <1>1, Zenon DEF ListingRight
<1> DEFINE dealt == Dealt(l, users)
<1>5. ASSUME NEW i \in DOMAIN dealt
      PROVE  dealt[i] \in {l.list[i], "none"} \/ GapUpTo(l, i)
  <2>1. i \in 1..Len(l.list)
    BY Zenon DEF Dealt
  <2>2. i \in Nat /\ 1 <= i
    BY <2>1
  <2>3. dealt[i] = IF i <= Len(l.peerIDs) /\ l.peerIDs[i] \in users THEN l.peerIDs[i] ELSE "none"
    BY <2>1, Zenon DEF Dealt
  <2>4. CASE i <= Len(l.peerIDs) /\ l.peerIDs[i] \in users
    <3>1. l.peerIDs \in Seq(Entries(l.list))
      BY <1>1, Zenon DEF ListingRight
    <3>2. i \in 1..Len(l.peerIDs)
      BY <2>2, <2>4, <3>1
    <3> QED
      BY <1>1, <2>3, <2>4, <3>2, Zenon DEF ListingRight
  <2>5. CASE ~(i <= Len(l.peerIDs) /\ l.peerIDs[i] \in users)
    BY <2>3, <2>5, Zenon
  <2> QED
    BY <2>4, <2>5, Zenon
<1> HIDE DEF dealt
<1>6. listing' = [pc |-> "done", list |-> l.list, looked |-> l.looked, peerIDs |-> l.peerIDs,
                  gaps |-> l.gaps, peer |-> dealt]
  BY <1>3, <1>4, Zenon DEF dealt
<1>7. /\ listing'.pc = "done" /\ listing'.list = l.list /\ listing'.looked = l.looked
      /\ listing'.peerIDs = l.peerIDs /\ listing'.gaps = l.gaps /\ listing'.peer = dealt
      /\ "done" # "new" /\ "done" \in {"new", "ids", "users", "done"}
  BY <1>6, Zenon
<1>8. ListingRight(listing')
  BY <1>1, <1>5, <1>6, <1>7, Zenon DEF ListingRight, GapUpTo
<1> QED
  BY <1>1, <1>2, <1>8, Zenon DEF ListInv

\* Creates converge and listings deal their peers in order, at every moment.
THEOREM DialogInductive == DialogSpec => [](CreateInv /\ ListInv)
<1>1. CreateInv /\ ListInv /\ [DialogNext]_dialogVars => CreateInv' /\ ListInv'
  <2> SUFFICES ASSUME CreateInv, ListInv, [DialogNext]_dialogVars PROVE CreateInv' /\ ListInv'
    BY Zenon
  <2>1. /\ member \in [Peers -> [Sides -> {"no", "in", "left"}]] /\ gone \subseteq Peers
    BY Zenon DEF ListInv
  <2>2. ASSUME UNCHANGED creating PROVE CreateInv'
    <3>1. UNCHANGED <<chatRows, creator, pairIndex>>
      BY <2>2, Zenon DEF creating
    <3> QED
      BY <3>1, Zenon DEF CreateInv, RowsRight
  <2>3. ASSUME NEW c \in Creators, CreateInsert(c) PROVE CreateInv' /\ ListInv'
    <3>1. CreateInv' /\ creator[c].pair \in Peers
      BY <2>3, CreateInsertInv, Zenon
    <3>2. UNCHANGED <<gone, listing, dialogFaults>>
      BY <2>3, Zenon DEF CreateInsert
    <3>3. CASE UNCHANGED member
      BY <3>1, <3>2, <3>3, <2>1, ListingApart, Zenon
    <3>4. CASE member' = [member EXCEPT ![creator[c].pair] = [s \in Sides |-> "in"]]
      <4>1. member' \in [Peers -> [Sides -> {"no", "in", "left"}]]
        BY <3>4, <2>1, <3>1, Zenon
      <4> QED
        BY <3>1, <3>2, <4>1, <2>1, ListingApart, Zenon
    <3> QED
      BY <2>3, <3>3, <3>4, Zenon DEF CreateInsert
  <2>4. ASSUME NEW c \in Creators, NEW p \in Peers, CreateLook(c, p) PROVE CreateInv' /\ ListInv'
    <3>1. UNCHANGED <<member, gone, listing, dialogFaults>>
      BY <2>4, Zenon DEF CreateLook
    <3> QED
      BY <2>1, <2>4, <3>1, CreateLookInv, ListingApart, Zenon
  <2>5. ASSUME NEW p \in Peers, DeletePeer(p) PROVE CreateInv' /\ ListInv'
    BY <2>1, <2>2, <2>5, ListingApart, Zenon DEF DeletePeer
  <2>6. ASSUME NEW p \in Peers, NEW s \in Sides, LeavePrivate(p, s) PROVE CreateInv' /\ ListInv'
    <3>1. member' \in [Peers -> [Sides -> {"no", "in", "left"}]]
      BY <2>1, <2>6, Zenon DEF LeavePrivate
    <3> QED
      BY <2>1, <2>2, <2>6, <3>1, ListingApart, Zenon DEF LeavePrivate
  <2>7. CASE ListDialogs
    BY <2>2, <2>7, ListDialogsInv, Zenon DEF ListDialogs
  <2>8. CASE LookUpPeer
    BY <2>2, <2>8, LookUpPeerInv, Zenon DEF LookUpPeer
  <2>9. CASE Hydrate
    BY <2>2, <2>9, HydrateInv, Zenon DEF Hydrate
  <2>10. CASE UNCHANGED dialogVars
    <3>1. UNCHANGED <<member, gone, listing, dialogFaults>> /\ UNCHANGED creating
      BY <2>10, Zenon DEF dialogVars
    <3> QED
      BY <2>1, <2>2, <3>1, ListingApart, Zenon
  <2> QED
    BY <2>3, <2>4, <2>5, <2>6, <2>7, <2>8, <2>9, <2>10, Zenon DEF DialogNext
<1> QED
  BY <1>1, DialogInitInv, PTL DEF DialogSpec

\* Two devices that open one private chat get one chat, announced as new once, and the chat
\* list names the wrong party only after a chat that had no id to add.
THEOREM PrivateChatsAlwaysRight == DialogSpec => []PrivateChatsRight
<1>1. CreateInv /\ ListInv => PrivateChatsRight
  <2> SUFFICES ASSUME CreateInv, ListInv PROVE PrivateChatsRight
    BY Zenon
  <2>1. creator \in [Creators -> CreatorRow] /\ chatRows \subseteq [id : Creators, pair : Peers]
    BY Zenon DEF CreateInv, RowsRight
  <2>2. \A c \in Creators : /\ creator[c].pc \in {"new", "insert", "done", "failed"}
                            /\ creator[c].created \in BOOLEAN
    BY <2>1, Zenon DEF CreatorRow
  <2>3. DialogTypeOK
    BY <2>1, <2>2, Zenon DEF DialogTypeOK, CreateInv, ListInv, ListingRight
  <2>4. ASSUME NEW c \in Creators, NEW d \in Creators, creator[c].pc = "done",
               creator[d].pc = "done", creator[c].pair = creator[d].pair
        PROVE  creator[c].id = creator[d].id
    <3> DEFINE r == [id |-> creator[c].id, pair |-> creator[c].pair]
               s == [id |-> creator[d].id, pair |-> creator[d].pair]
    <3>1. r \in chatRows /\ s \in chatRows
      BY <2>4, Zenon DEF CreateInv, CreatorRight
    <3>2. r.pair = s.pair /\ r.id = creator[c].id /\ s.id = creator[d].id
      BY <2>4, Zenon
    <3> HIDE DEF r, s
    <3>3. r = s
      BY <3>1, <3>2, Zenon DEF CreateInv, RowsRight
    <3> QED
      BY <3>2, <3>3, Zenon
  <2>5. ASSUME NEW r \in chatRows
        PROVE  Cardinality({c \in Creators : creator[c].created /\ creator[c].pair = r.pair}) = 1
    <3>1. /\ r.id \in Creators
      BY <2>1, Zenon
    <3>2. creator[r.id].created = TRUE /\ creator[r.id].pair = r.pair
      BY Zenon DEF CreateInv, RowsRight
    <3>3. ASSUME NEW c \in Creators, creator[c].created = TRUE, creator[c].pair = r.pair
          PROVE  c = r.id
      <4> DEFINE s == [id |-> creator[c].id, pair |-> creator[c].pair]
      <4>1. s \in chatRows /\ creator[c].id = c
        BY <3>3, Zenon DEF CreateInv, CreatorRight
      <4>2. s.pair = r.pair /\ s.id = creator[c].id
        BY <3>3, Zenon
      <4> HIDE DEF s
      <4>3. s = r
        BY <4>1, <4>2, Zenon DEF CreateInv, RowsRight
      <4> QED
        BY <4>1, <4>2, <4>3, Zenon
    <3>4. {c \in Creators : creator[c].created /\ creator[c].pair = r.pair} = {r.id}
      BY <2>2, <3>1, <3>2, <3>3, Zenon
    <3> QED
      BY <3>4, FS_Singleton, Zenon
  <2>6. CreatesConverge
    BY <2>4, <2>5, Zenon DEF CreatesConverge
  <2>7. PeersRight
    BY Zenon DEF ListInv, ListingRight, GapUpTo, PeersRight
  <2> QED
    BY <2>3, <2>6, <2>7, Zenon DEF PrivateChatsRight
<1> QED
  BY <1>1, DialogInductive, PTL
=============================================================================
