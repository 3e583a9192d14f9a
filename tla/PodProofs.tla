----------------------------- MODULE PodProofs ------------------------------
(***************************************************************************)
(* Proofs about what a pod does by itself.  A gateway pod's listeners and  *)
(* its shutdown (Shutdown), for any clients and any limit on connections:  *)
(* slots are exact, and stores outlive sessions.  The token bucket         *)
(* (RateLimiter) for every rate, burst and clock lag.  The ids of messages *)
(* and chats (Snowflake) for any pods and node numbers.                    *)
(***************************************************************************)
EXTENDS Shutdown, RateLimiter, Snowflake, FiniteSetTheorems, SequenceTheorems, TLAPS

(***************************************************************************)
(* Shutdown: slots are exact, and stores outlive sessions.                 *)
(***************************************************************************)
Stages == {"start", "up", "drain", "collect", "hint", "close", "stopped"}
Started == {"start", "up", "drain", "collect", "hint"}
ConnStates == Holding \union {"none", "dialed", "gone"}
Served == Holding \ {"over"}
InSession == {"admitted", "run", "ending"}

CloserNames == {"redis", "kafka", "gateway", "tcp", "udp", "ws"}

\* The closers still to run are the first ones registered.
ClosersRight ==
  /\ closers \in Seq(CloserNames) /\ Len(closers) <= 6
  /\ \A i \in 1..Len(closers) : closers[i] = AllClosers[i]
  /\ stage = "start" => Len(closers) < 6

StopShape ==
  /\ stage \in Stages /\ listening \subseteq Listeners
  /\ slots \in [Listeners -> Nat] /\ conn \in [Dialers -> ConnStates]
  /\ sigterm \in BOOLEAN /\ draining \in BOOLEAN
  /\ toHint \union writing \union bound \union queued \union hinted \union parted \subseteq Dialers

\* Before the closers run, a listener that is not registered has no connection;
\* once they run, one that is closed has none in a session, and none gets there
\* because the gateway is draining.
ClosedIsQuiet ==
  /\ stage \in {"collect", "hint", "close", "stopped"} => draining
  /\ \A k \in Listeners \ Range(closers) :
       /\ stage \in Started => k \notin listening /\ Connections(k, ConnStates \ {"none"}) = {}
       /\ Connections(k, InSession) # {} => stage \in Started

StopInv == StopShape /\ ClosersRight /\ SlotsAccounted /\ ClosedIsQuiet

\* There are finitely many clients.
LEMMA DialersFinite == IsFiniteSet(Dialers)
BY ShutdownAssumption, FS_Union, Zenon DEF Dialers

\* ... and so finitely many connections.
LEMMA ConnectionsFinite ==
  ASSUME NEW k, NEW states
  PROVE  /\ Connections(k, states) \in SUBSET Dialers /\ IsFiniteSet(Connections(k, states))
         /\ Cardinality(Connections(k, states)) \in 0..Cardinality(Dialers)
<1>1. Connections(k, states) \in SUBSET Dialers
  BY Zenon DEF Connections
<1>2. /\ IsFiniteSet(Connections(k, states))
      /\ Cardinality(Connections(k, states)) <= Cardinality(Dialers)
  BY <1>1, DialersFinite, FS_Subset, Zenon
<1> QED
  BY <1>1, <1>2, DialersFinite, FS_CardinalityType

\* A step after which the same connections hold a slot, and the same are served.
LEMMA SameSlots ==
  ASSUME SlotsAccounted, UNCHANGED slots, NEW f, conn' = f,
         \A c \in Dialers : /\ conn[c] \in Holding <=> f[c] \in Holding
                            /\ conn[c] \in Served <=> f[c] \in Served
  PROVE  SlotsAccounted'
<1>1. \A k \in Listeners : /\ Connections(k, Holding)' = Connections(k, Holding)
                           /\ Connections(k, Served)' = Connections(k, Served)
  BY Zenon DEF Connections
<1> QED
  BY <1>1, Zenon DEF SlotsAccounted, Served

\* A connection that ends gives its slot back.
LEMMA FreedSlot ==
  ASSUME StopShape, SlotsAccounted, NEW c \in Dialers, conn[c] \in Holding,
         Goes(c, "gone"), FreeSlot(c)
  PROVE  SlotsAccounted' /\ slots' \in [Listeners -> Nat]
<1> DEFINE k == KindOf(c)
<1>1. k \in Listeners
  BY Zenon DEF KindOf, Listeners
<1>2. \A j \in Listeners \ {k} : /\ Connections(j, Holding)' = Connections(j, Holding)
                                 /\ Connections(j, Served)' = Connections(j, Served)
  BY Zenon DEF Connections, Goes, StopShape
<1>3. Connections(k, Holding)' = Connections(k, Holding) \ {c} /\ c \in Connections(k, Holding)
  BY Zenon DEF Connections, Goes, StopShape, Holding
<1>4. Connections(k, Served)' = Connections(k, Served) \ {c}
  BY Zenon DEF Connections, Goes, StopShape, Served, Holding
<1>5. Cardinality(Connections(k, Holding)') = Cardinality(Connections(k, Holding)) - 1
  BY <1>3, FS_RemoveElement, ConnectionsFinite
<1>6. Cardinality(Connections(k, Served)') <= Cardinality(Connections(k, Served))
  BY <1>4, FS_Subset, ConnectionsFinite, Zenon
<1>7. Cardinality(Connections(k, Holding)) \in Nat \ {0}
  BY <1>3, ConnectionsFinite, FS_EmptySet, FS_CardinalityType, Zenon
<1>8. slots' = [slots EXCEPT ![k] = slots[k] - 1] /\ slots[k] = Cardinality(Connections(k, Holding))
  BY <1>1, Zenon DEF FreeSlot, SlotsAccounted
<1>9. slots' \in [Listeners -> Nat]
  BY <1>1, <1>7, <1>8 DEF StopShape
<1>10. Cardinality(Connections(k, Served)) \in Nat /\ Cardinality(Connections(k, Served)') \in Nat
  BY <1>4, ConnectionsFinite, FS_Subset, FS_CardinalityType, Zenon
<1>11. \A j \in Listeners : /\ slots'[j] = Cardinality(Connections(j, Holding)')
                            /\ Cardinality(Connections(j, Served)') <= MaxConnections
  <2>1. \A j \in Listeners : /\ slots[j] = Cardinality(Connections(j, Holding))
                             /\ Cardinality(Connections(j, Served)) <= MaxConnections
    BY Zenon DEF SlotsAccounted, Served
  <2>2. \A j \in Listeners : slots'[j] = IF j = k THEN slots[j] - 1 ELSE slots[j]
    BY <1>1, <1>8, Zenon DEF StopShape
  <2>3. ASSUME NEW j \in Listeners, j # k
        PROVE  /\ slots'[j] = Cardinality(Connections(j, Holding)')
               /\ Cardinality(Connections(j, Served)') <= MaxConnections
    BY <1>2, <2>1, <2>2, <2>3, Zenon
  <2>4. /\ slots'[k] = Cardinality(Connections(k, Holding)')
        /\ Cardinality(Connections(k, Served)') <= MaxConnections
    BY <1>1, <1>5, <1>6, <1>10, <2>1, <2>2, ShutdownAssumption
  <2> QED
    BY <2>3, <2>4, Zenon
<1> QED
  BY <1>9, <1>11, Zenon DEF SlotsAccounted, Served

\* A connection that is accepted takes a slot, and is served only below the limit.
LEMMA TakenSlot ==
  ASSUME StopShape, SlotsAccounted, NEW c \in Dialers, Count(c)
  PROVE  SlotsAccounted' /\ slots' \in [Listeners -> Nat]
<1> DEFINE k == KindOf(c)
           H == Connections(k, Holding)
           V == Connections(k, Served)
<1>1. k \in Listeners
  BY Zenon DEF KindOf, Listeners
<1>2. \A j \in Listeners \ {k} : /\ Connections(j, Holding)' = Connections(j, Holding)
                                 /\ Connections(j, Served)' = Connections(j, Served)
  BY Zenon DEF Connections, Count, Goes, StopShape
<1>3. /\ slots' = [slots EXCEPT ![k] = slots[k] + 1] /\ slots[k] = Cardinality(H)
      /\ slots'[k] = slots[k] + 1 /\ slots' \in [Listeners -> Nat]
  BY <1>1 DEF Count, TakeSlot, SlotsAccounted, StopShape
<1>4. H' = H \union {c} /\ c \notin H
  BY Zenon DEF Connections, Count, Goes, StopShape, Holding
<1>5. Cardinality(H') = Cardinality(H) + 1
  BY <1>4, FS_AddElement, ConnectionsFinite, Zenon
<1>6. Cardinality(V') <= MaxConnections
  <2>1. CASE slots'[k] > MaxConnections
    <3>1. V' = V
      BY <2>1, Zenon DEF Connections, Count, Goes, StopShape, Served, Holding
    <3> QED
      BY <1>1, <3>1, Zenon DEF SlotsAccounted, Served
  <2>2. CASE ~(slots'[k] > MaxConnections)
    <3>1. V' \in SUBSET H' /\ IsFiniteSet(H')
      <4>1. V' \in SUBSET H'
        BY Zenon DEF Connections, Served
      <4>2. IsFiniteSet(H')
        BY <1>4, ConnectionsFinite, FS_AddElement
      <4> QED
        BY <4>1, <4>2, Zenon
    <3>2. Cardinality(V') <= Cardinality(H') /\ Cardinality(V') \in Nat
      BY <3>1, FS_Subset, FS_CardinalityType, Zenon
    <3> QED
      BY <1>1, <1>3, <1>5, <2>2, <3>2, ShutdownAssumption DEF StopShape
  <2> QED
    BY <2>1, <2>2, Zenon
<1>7. \A j \in Listeners : /\ slots'[j] = Cardinality(Connections(j, Holding)')
                           /\ Cardinality(Connections(j, Served)') <= MaxConnections
  BY <1>1, <1>2, <1>3, <1>5, <1>6, Zenon DEF SlotsAccounted, Served, StopShape
<1> QED
  BY <1>3, <1>7, Zenon DEF SlotsAccounted, Served

\* A connection in a session is a connection.
LEMMA SessionsAreConnections ==
  ASSUME NEW k, Connections(k, ConnStates \ {"none"}) = {}
  PROVE  Connections(k, InSession) = {}
BY Zenon DEF Connections, InSession, ConnStates, Holding

\* A step of one connection: it begins only at a listener that listens, and gets
\* into a session only while the gateway is not draining.
LEMMA QuietMove ==
  ASSUME StopInv, NEW c \in Dialers, NEW to \in ConnStates, Goes(c, to),
         UNCHANGED <<stage, closers, listening, draining>>,
         conn[c] = "none" => KindOf(c) \in listening,
         to \in InSession => conn[c] \in InSession \/ ~draining
  PROVE  ClosedIsQuiet'
<1>1. stage \in {"collect", "hint", "close", "stopped"} => draining
  BY Zenon DEF StopInv, ClosedIsQuiet
<1>2. ASSUME NEW k \in Listeners \ Range(closers)
      PROVE  /\ stage \in Started =>
                  k \notin listening /\ Connections(k, ConnStates \ {"none"})' = {}
             /\ Connections(k, InSession)' # {} => stage \in Started
  <2>1. CASE stage \in Started
    <3>1. k \notin listening /\ Connections(k, ConnStates \ {"none"}) = {}
      BY <1>2, <2>1, Zenon DEF StopInv, ClosedIsQuiet
    <3>2. KindOf(c) # k
      BY <3>1, Zenon DEF Connections, StopInv, StopShape
    <3>3. Connections(k, ConnStates \ {"none"})' = {}
      BY <3>1, <3>2, Zenon DEF Connections, Goes, StopInv, StopShape
    <3> QED
      BY <2>1, <3>1, <3>3, Zenon
  <2>2. CASE stage \notin Started
    <3>1. Connections(k, InSession) = {} /\ draining
      BY <1>1, <1>2, <2>2, Zenon DEF StopInv, StopShape, ClosedIsQuiet, Stages, Started
    <3>2. Connections(k, InSession)' = {}
      BY <3>1, Zenon DEF Connections, Goes, StopInv, StopShape
    <3> QED
      BY <2>2, <3>2, Zenon
  <2> QED
    BY <2>1, <2>2, Zenon
<1> QED
  BY <1>1, <1>2, Zenon DEF ClosedIsQuiet

\* A step that leaves the connections, the closers and the listeners alone.
LEMMA StageMove ==
  ASSUME StopInv, UNCHANGED <<slots, conn, closers, listening>>,
         stage' \in Stages, sigterm' \in BOOLEAN, draining' \in BOOLEAN,
         (toHint \union writing \union bound \union queued \union hinted \union parted)'
           \subseteq Dialers,
         stage' = "start" => stage = "start",
         stage' \in Started => stage \in Started,
         stage' \in {"collect", "hint", "close", "stopped"} => draining'
  PROVE  StopInv'
<1>1. StopShape' /\ ClosersRight'
  BY Zenon DEF StopInv, StopShape, ClosersRight
<1>2. SlotsAccounted'
  BY SameSlots, Zenon DEF StopInv
<1>3. \A k, states : Connections(k, states)' = Connections(k, states)
  BY Zenon DEF Connections
<1>4. ASSUME NEW k \in Listeners \ Range(closers')
      PROVE  /\ stage' \in Started =>
                  k \notin listening' /\ Connections(k, ConnStates \ {"none"})' = {}
             /\ Connections(k, InSession)' # {} => stage' \in Started
  <2>1. CASE stage \in Started
    BY <1>3, <1>4, <2>1, SessionsAreConnections, Zenon DEF StopInv, ClosedIsQuiet
  <2>2. CASE stage \notin Started
    BY <1>3, <1>4, <2>2, Zenon DEF StopInv, ClosedIsQuiet
  <2> QED
    BY <2>1, <2>2, Zenon
<1> QED
  BY <1>1, <1>2, <1>4, Zenon DEF StopInv, ClosedIsQuiet

\* A pod that has registered nothing.
LEMMA StopInitInv == StopInit => StopInv
<1> SUFFICES ASSUME StopInit PROVE StopInv
  BY Zenon
<1>0. ClosersRight
  BY EmptySeq DEF StopInit, ClosersRight
<1>1. StopShape
  BY Zenon DEF StopInit, StopShape, Stages, ConnStates
<1>2. \A k, states : "none" \notin states => Connections(k, states) = {}
  BY Zenon DEF StopInit, Connections
<1>3. SlotsAccounted
  <2>1. \A k \in Listeners : /\ Connections(k, Holding) = {}
                             /\ Connections(k, Holding \ {"over"}) = {}
    BY <1>2, Zenon DEF Holding
  <2>2. Cardinality({}) = 0 /\ 0 <= MaxConnections
    BY FS_EmptySet, ShutdownAssumption
  <2> QED
    BY <2>1, <2>2, Zenon DEF StopInit, SlotsAccounted
<1>4. ClosedIsQuiet
  BY <1>2, Zenon DEF StopInit, ClosedIsQuiet, InSession, Started
<1> QED
  BY <1>0, <1>1, <1>3, <1>4, Zenon DEF StopInv

\* The process between SIGTERM and its closers, and what happens to a session
\* without ending it.
LEMMA ProcessInv ==
  ASSUME StopInv,
         \/ StartFails \/ Sigterm \/ BeginDrain \/ MarkDraining \/ Collect \/ WindowElapses
         \/ Stopped
         \/ \E c \in Dialers : Hint(c) \/ Bind(c) \/ Leave(c) \/ WriterSends(c) \/ WriterStops(c)
  PROVE  StopInv'
<1> USE DEF StopInv, StopShape, ClosedIsQuiet, Stages, Started
<1>1. CASE StartFails \/ Sigterm \/ BeginDrain
  BY <1>1, StageMove, Zenon DEF StartFails, Sigterm, BeginDrain, linkVars
<1>2. CASE MarkDraining \/ Collect
  BY <1>2, StageMove, Zenon DEF MarkDraining, Collect, linkVars
<1>3. CASE WindowElapses \/ Stopped
  BY <1>3, StageMove, Zenon DEF WindowElapses, Stopped, linkVars
<1>4. ASSUME NEW c \in Dialers, Hint(c) PROVE StopInv'
  BY <1>4, StageMove, Zenon DEF Hint
<1>5. ASSUME NEW c \in Dialers, Bind(c) \/ Leave(c) \/ WriterSends(c) \/ WriterStops(c)
      PROVE  StopInv'
  BY <1>5, StageMove, Zenon DEF Bind, Leave, WriterSends, WriterStops, podVars
<1> QED
  BY <1>1, <1>2, <1>3, <1>4, <1>5, Zenon

\* run registers a closer before its listener serves.
LEMMA RegisterInv ==
  ASSUME StopInv, Register
  PROVE  StopInv'
<1> DEFINE n == Len(closers) + 1
           x == AllClosers[n]
<1>1. /\ closers \in Seq(CloserNames) /\ Len(closers) \in 0..5 /\ n \in 1..6 /\ x \in CloserNames
      /\ \A i \in 1..Len(closers) : closers[i] = AllClosers[i]
  <2>1. closers \in Seq(CloserNames) /\ Len(closers) < 6
    BY Zenon DEF Register, StopInv, ClosersRight
  <2>2. Len(closers) \in Nat
    BY <2>1, LenProperties, Zenon
  <2>a. \A l \in Nat : l < 6 => l \in 0..5 /\ l + 1 \in 1..6
    OBVIOUS
  <2>3. Len(closers) \in 0..5 /\ n \in 1..6
    BY <2>1, <2>2, <2>a, Zenon
  <2>4. x \in CloserNames
    BY <2>3 DEF AllClosers, CloserNames
  <2> QED
    BY <2>1, <2>3, <2>4, Zenon DEF StopInv, ClosersRight
<1>2. /\ closers' = Append(closers, x)
      /\ listening' = listening \union ({x} \intersect Listeners)
      /\ stage = "start" /\ stage' = IF n = 6 THEN "up" ELSE "start"
      /\ UNCHANGED <<sigterm, draining, toHint, slots, conn, writing, bound, queued, hinted, parted>>
  BY Zenon DEF Register, AllClosers, linkVars
<1>3. /\ closers' \in Seq(CloserNames) /\ Len(closers') = n
      /\ \A i \in 1..n : closers'[i] = IF i = n THEN x ELSE closers[i]
  BY <1>1, <1>2
<1>4. ClosersRight'
  BY <1>1, <1>2, <1>3 DEF ClosersRight
<1>5. Range(closers) \union {x} \subseteq Range(closers')
  <2>1. DOMAIN closers = 1..Len(closers) /\ DOMAIN closers' = 1..n
    BY <1>1, <1>3, LenProperties, Zenon
  <2> QED
    BY <1>1, <1>3, <2>1 DEF Range
<1>6. StopShape'
  BY <1>2, Zenon DEF StopInv, StopShape, Stages
<1>7. SlotsAccounted'
  BY <1>2, SameSlots, Zenon DEF StopInv
<1>8. ASSUME NEW k \in Listeners \ Range(closers')
      PROVE  k \notin listening' /\ Connections(k, ConnStates \ {"none"})' = {}
  <2>1. k \notin Range(closers) /\ k # x /\ stage \in Started
    BY <1>2, <1>5, <1>8, Zenon DEF Started
  <2>2. k \notin listening /\ Connections(k, ConnStates \ {"none"}) = {}
    BY <1>8, <2>1, Zenon DEF StopInv, ClosedIsQuiet
  <2>3. Connections(k, ConnStates \ {"none"})' = Connections(k, ConnStates \ {"none"})
    BY <1>2, Zenon DEF Connections
  <2> QED
    BY <1>2, <2>1, <2>2, <2>3, Zenon
<1>9. stage' \in Started /\ stage' \notin {"collect", "hint", "close", "stopped"}
  BY <1>2, Zenon DEF Started
<1> QED
  BY <1>4, <1>6, <1>7, <1>8, <1>9, Zenon DEF StopInv, ClosedIsQuiet

\* A listener's closer returns when its WaitGroup is empty; what is upgraded after
\* that finds the gateway draining.
LEMMA CloserInv ==
  ASSUME StopInv, CloserReturns
  PROVE  StopInv'
<1> DEFINE n == Len(closers)
<1>1. /\ closers \in Seq(CloserNames) /\ n \in 1..6 /\ DOMAIN closers = 1..n
      /\ stage = "close" /\ closers' = SubSeq(closers, 1, n - 1)
      /\ closers[n] \in Listeners => Waited(closers[n]) = {}
      /\ UNCHANGED <<sigterm, stage, listening, draining, toHint, slots, conn, writing, bound,
                     queued, hinted, parted>>
  <2>1. closers \in Seq(CloserNames) /\ n <= 6 /\ closers # <<>>
    BY Zenon DEF CloserReturns, StopInv, ClosersRight
  <2>2. n \in Nat \ {0} /\ DOMAIN closers = 1..n
    BY <2>1, LenProperties, EmptySeq, Zenon
  <2>3. \A k \in Nat \ {0} : k <= 6 => k \in 1..6
    OBVIOUS
  <2>4. /\ stage = "close" /\ closers' = SubSeq(closers, 1, n - 1)
        /\ closers[n] \in Listeners => Waited(closers[n]) = {}
    BY Zenon DEF CloserReturns, NextCloser
  <2>5. UNCHANGED <<sigterm, stage, listening, draining, toHint, slots, conn, writing, bound,
                    queued, hinted, parted>>
    BY Zenon DEF CloserReturns, linkVars
  <2> QED
    BY <2>1, <2>2, <2>3, <2>4, <2>5, Zenon
<1>2. /\ closers' \in Seq(CloserNames) /\ Len(closers') = n - 1
      /\ \A i \in 1..(n - 1) : closers'[i] = closers[i]
  BY <1>1
<1>3. ClosersRight'
  BY <1>1, <1>2 DEF StopInv, ClosersRight
<1>4. Range(closers) \subseteq Range(closers') \union {closers[n]}
  <2>1. DOMAIN closers' = 1..(n - 1)
    BY <1>1, <1>2, LenProperties, Zenon
  <2>2. ASSUME NEW i \in 1..n, i # n
        PROVE  i \in DOMAIN closers' /\ closers'[i] = closers[i]
    <3>1. \A l \in 1..6 : \A j \in 1..l : j # l => j \in 1..(l - 1)
      OBVIOUS
    <3>2. i \in 1..(n - 1)
      BY <1>1, <2>2, <3>1, Zenon
    <3> QED
      BY <1>2, <2>1, <3>2, Zenon
  <2> HIDE DEF n
  <2> QED
    BY <1>1, <2>2, Zenon DEF Range
<1>5. StopShape'
  BY <1>1, Zenon DEF StopInv, StopShape
<1>6. SlotsAccounted'
  BY <1>1, SameSlots, Zenon DEF StopInv
<1>7. ASSUME NEW k \in Listeners \ Range(closers') PROVE Connections(k, InSession)' = {}
  <2>1. CASE k \notin Range(closers)
    BY <1>1, <1>7, <2>1, Zenon DEF StopInv, ClosedIsQuiet, Started, Connections
  <2>2. CASE k = closers[n]
    BY <1>1, <1>7, <2>2, Zenon DEF Waited, Connections, InSession
  <2> QED
    BY <1>4, <1>7, <2>1, <2>2, Zenon
<1>8. ClosedIsQuiet'
  BY <1>1, <1>7, Zenon DEF StopInv, ClosedIsQuiet, Started
<1> QED
  BY <1>3, <1>5, <1>6, <1>8, Zenon DEF StopInv

\* The socket closes: what is lost was only dialed.
LEMMA StopListeningInv ==
  ASSUME StopInv, NEW k \in Listeners, StopListening(k)
  PROVE  StopInv'
<1>1. PICK lost \in SUBSET {c \in Dialers : KindOf(c) = k /\ conn[c] = "dialed"} :
        conn' = [c \in Dialers |-> IF c \in lost THEN "gone" ELSE conn[c]]
  BY Zenon DEF StopListening
<1>2. /\ listening' = listening \ {k}
      /\ UNCHANGED <<sigterm, stage, closers, draining, toHint, slots, writing, bound, queued,
                     hinted, parted>>
  BY Zenon DEF StopListening
<1>3. \A c \in Dialers : conn'[c] = conn[c] \/ (conn[c] = "dialed" /\ conn'[c] = "gone")
  BY <1>1, Zenon
<1>4. StopShape'
  BY <1>1, <1>2, Zenon DEF StopInv, StopShape, ConnStates
<1>5. ClosersRight'
  BY <1>2, Zenon DEF StopInv, ClosersRight
<1>6. SlotsAccounted'
  BY <1>2, <1>3, SameSlots, Zenon DEF StopInv, Holding, Served
<1>7. ClosedIsQuiet'
  <2>1. \A j \in Listeners : Connections(j, InSession)' = Connections(j, InSession)
    BY <1>3, Zenon DEF Connections, InSession
  <2>2. \A j \in Listeners : Connections(j, ConnStates \ {"none"})'
                               = Connections(j, ConnStates \ {"none"})
    BY <1>3, Zenon DEF Connections, ConnStates
  <2> QED
    BY <1>2, <2>1, <2>2, Zenon DEF StopInv, ClosedIsQuiet
<1> QED
  BY <1>4, <1>5, <1>6, <1>7, Zenon DEF StopInv

\* A step of one connection that accounts for its slot.
LEMMA ConnMove ==
  ASSUME StopInv, NEW c \in Dialers, NEW to \in ConnStates, Goes(c, to),
         UNCHANGED podVars, SlotsAccounted', slots' \in [Listeners -> Nat],
         (writing \union bound \union queued \union hinted \union parted)' \subseteq Dialers,
         conn[c] = "none" => KindOf(c) \in listening,
         to \in InSession => conn[c] \in InSession \/ ~draining
  PROVE  StopInv'
<1>1. StopShape'
  BY Zenon DEF StopInv, StopShape, Goes, podVars
<1>2. ClosersRight'
  BY Zenon DEF StopInv, ClosersRight, podVars
<1>3. ClosedIsQuiet'
  BY QuietMove, Zenon DEF podVars
<1> QED
  BY <1>1, <1>2, <1>3, Zenon DEF StopInv

\* A step of one connection that keeps its slot, or has none yet.
LEMMA KeptSlot ==
  ASSUME StopInv, NEW c \in Dialers, NEW to \in ConnStates, Goes(c, to), UNCHANGED slots,
         conn[c] \in Holding <=> to \in Holding, conn[c] \in Served <=> to \in Served
  PROVE  SlotsAccounted' /\ slots' \in [Listeners -> Nat]
<1>1. \A d \in Dialers : conn'[d] = IF d = c THEN to ELSE conn[d]
  BY Zenon DEF Goes, StopInv, StopShape
<1> QED
  BY <1>1, SameSlots, Zenon DEF StopInv, StopShape

\* Accepting or upgrading a connection, and handing it to the gateway.
LEMMA ConnectionInv ==
  ASSUME StopInv, NEW c \in Dialers,
         \/ Dial(c) \/ Count(c) \/ Refuse(c) \/ Spawn(c) \/ Upgrade(c) \/ Handle(c) \/ Admit(c)
         \/ ReadEnds(c) \/ SessionCloses(c)
  PROVE  StopInv'
<1> USE DEF Holding, ConnStates, Served, InSession
<1>0. StopShape /\ SlotsAccounted
  BY Zenon DEF StopInv
<1>1. CASE Dial(c)
  <2>1. SlotsAccounted' /\ slots' \in [Listeners -> Nat]
    BY <1>1, KeptSlot, Zenon DEF Dial
  <2> QED
    BY <1>0, <1>1, <2>1, ConnMove, Zenon DEF Dial, StopShape
<1>2. CASE Count(c)
  <2>1. SlotsAccounted' /\ slots' \in [Listeners -> Nat]
    BY <1>0, <1>2, TakenSlot, Zenon
  <2> QED
    BY <1>0, <1>2, <2>1, ConnMove, Zenon DEF Count, StopShape
<1>3. CASE Spawn(c) \/ ReadEnds(c)
  <2>1. SlotsAccounted' /\ slots' \in [Listeners -> Nat]
    BY <1>3, KeptSlot, Zenon DEF Spawn, ReadEnds
  <2> QED
    BY <1>0, <1>3, <2>1, ConnMove, Zenon DEF Spawn, ReadEnds, StopShape
<1>4. CASE Refuse(c) \/ SessionCloses(c)
  <2>1. SlotsAccounted' /\ slots' \in [Listeners -> Nat]
    BY <1>0, <1>4, FreedSlot, Zenon DEF Refuse, SessionCloses
  <2> QED
    BY <1>0, <1>4, <2>1, ConnMove, Zenon DEF Refuse, SessionCloses, StopShape
<1>5. CASE Upgrade(c)
  <2>1. conn[c] \in {"setup", "counted"}
    BY <1>5, Zenon DEF Upgrade, Upgrading
  <2>2. SlotsAccounted' /\ slots' \in [Listeners -> Nat]
    BY <1>0, <1>5, <2>1, FreedSlot, KeptSlot, Zenon DEF Upgrade
  <2> QED
    BY <1>0, <1>5, <2>1, <2>2, ConnMove, Zenon DEF Upgrade, StopShape
<1>6. CASE Handle(c)
  <2>1. SlotsAccounted' /\ slots' \in [Listeners -> Nat]
    BY <1>0, <1>6, FreedSlot, KeptSlot, Zenon DEF Handle
  <2> QED
    BY <1>0, <1>6, <2>1, ConnMove, Zenon DEF Handle, StopShape
<1>7. CASE Admit(c)
  <2>1. SlotsAccounted' /\ slots' \in [Listeners -> Nat]
    BY <1>0, <1>7, FreedSlot, KeptSlot, Zenon DEF Admit
  <2> QED
    BY <1>0, <1>7, <2>1, ConnMove DEF Admit, StopShape
<1> QED
  BY <1>1, <1>2, <1>3, <1>4, <1>5, <1>6, <1>7, Zenon

\* The inductive invariant of a pod that starts, serves and stops: slots are exact,
\* the closers left are a prefix of those registered, and a closed listener is
\* quiet.
THEOREM StopInductive == StopSpec => []StopInv
<1>1. StopInv /\ [StopNext]_stopVars => StopInv'
  <2> SUFFICES ASSUME StopInv, StopNext \/ UNCHANGED stopVars PROVE StopInv'
    BY Zenon
  <2>1. CASE UNCHANGED stopVars
    BY <2>1, StageMove, Zenon DEF stopVars, podVars, linkVars, StopInv, StopShape, ClosedIsQuiet
  <2>2. CASE StopNext
    <3>1. CASE \E k \in Listeners : StopListening(k)
      BY <3>1, StopListeningInv, Zenon
    <3>2. CASE Register \/ CloserReturns
      BY <3>2, RegisterInv, CloserInv, Zenon
    <3>3. CASE \E c \in Dialers : \/ Dial(c) \/ Count(c) \/ Refuse(c) \/ Spawn(c) \/ Upgrade(c)
                                  \/ Handle(c) \/ Admit(c) \/ ReadEnds(c) \/ SessionCloses(c)
      BY <3>3, ConnectionInv, Zenon
    <3>4. CASE \/ StartFails \/ Sigterm \/ BeginDrain \/ MarkDraining \/ Collect
               \/ WindowElapses \/ Stopped
               \/ \E c \in Dialers : \/ Hint(c) \/ Bind(c) \/ Leave(c) \/ WriterSends(c)
                                     \/ WriterStops(c)
      BY <3>4, ProcessInv, Zenon
    <3> QED
      BY <2>2, <3>1, <3>2, <3>3, <3>4, Zenon DEF StopNext, StopWork, PodProceeds
  <2> QED
    BY <2>1, <2>2, Zenon
<1> QED
  BY <1>1, StopInitInv, PTL DEF StopSpec

\* A prefix of a sequence of six.
LEMMA PrefixIs ==
  ASSUME NEW S, NEW s \in Seq(S), Len(s) = 6, NEW n \in 0..6
  PROVE  /\ SubSeq(s, 1, n) \in Seq(S) /\ Len(SubSeq(s, 1, n)) = n
         /\ \A i \in 1..n : SubSeq(s, 1, n)[i] = s[i]
<1>1. \A i \in 1..n : s[i] \in S /\ i \in Int /\ 1 + i - 1 = i
  <2>1. \A i \in 1..n : i \in 1..6 /\ i \in Int /\ 1 + i - 1 = i
    OBVIOUS
  <2> QED
    BY <2>1, ElementOfSeq, Zenon
<1>2. /\ SubSeq(s, 1, n) \in Seq(S)
      /\ Len(SubSeq(s, 1, n)) = IF 1 <= n THEN n - 1 + 1 ELSE 0
      /\ \A i \in 1..(n - 1 + 1) : SubSeq(s, 1, n)[i] = s[1 + i - 1]
  BY <1>1, SubSeqProperties
<1> QED
  BY <1>1, <1>2

\* The slots of a listener are exact and never exceed MaxConnections served, and
\* the shared stores are closed after the last session, for any number of clients
\* and any limit (TCPListener, WSListener, Gateway.Drain, App.shutdown).
THEOREM PodKeepsAccounts == StopSpec => []PodSound
<1>1. StopInv => PodSound
  <2> SUFFICES ASSUME StopInv PROVE PodSound
    BY Zenon
  <2>1. closers = SubSeq(AllClosers, 1, Len(closers))
    <3>1. closers \in Seq(CloserNames) /\ Len(closers) \in 0..6 /\ DOMAIN closers = 1..Len(closers)
      <4>1. closers \in Seq(CloserNames) /\ Len(closers) <= 6
        BY Zenon DEF StopInv, ClosersRight
      <4>2. \A l \in Nat : l <= 6 => l \in 0..6
        OBVIOUS
      <4> QED
        BY <4>1, <4>2, LenProperties, Zenon
    <3>2. AllClosers \in Seq(CloserNames) /\ Len(AllClosers) = 6
      BY DEF AllClosers, CloserNames
    <3>3. /\ SubSeq(AllClosers, 1, Len(closers)) \in Seq(CloserNames)
          /\ Len(SubSeq(AllClosers, 1, Len(closers))) = Len(closers)
          /\ \A i \in 1..Len(closers) : SubSeq(AllClosers, 1, Len(closers))[i] = AllClosers[i]
      BY <3>1, <3>2, PrefixIs, Zenon
    <3>4. \A i \in 1..Len(closers) : closers[i] = AllClosers[i]
      BY Zenon DEF StopInv, ClosersRight
    <3> QED
      BY <3>1, <3>3, <3>4, SeqEqual, Zenon
  <2>2. slots \in [Listeners -> 0..Cardinality(Dialers)]
    <3>1. slots \in [Listeners -> Nat] /\ \A k \in Listeners : slots[k] = Cardinality(Connections(k, Holding))
      BY Zenon DEF StopInv, StopShape, SlotsAccounted
    <3>2. \A k \in Listeners : slots[k] \in 0..Cardinality(Dialers)
      BY <3>1, ConnectionsFinite, Zenon
    <3> QED
      BY <3>1, <3>2, Zenon
  <2>3. StopTypeOK
    BY <2>1, <2>2, Zenon DEF StopInv, StopShape, StopTypeOK, Stages, ConnStates
  <2>4. StoresOutliveSessions
    <3> SUFFICES ASSUME stage \in {"close", "stopped"}, Range(closers) \intersect Listeners = {},
                        NEW c \in Dialers
                 PROVE  conn[c] \notin {"admitted", "run", "ending"}
      BY Zenon DEF StoresOutliveSessions
    <3>1. KindOf(c) \in Listeners \ Range(closers)
      BY Zenon DEF KindOf, Listeners
    <3>2. Connections(KindOf(c), InSession) = {}
      BY <3>1, Zenon DEF StopInv, ClosedIsQuiet, Started
    <3> QED
      BY <3>2, Zenon DEF Connections, InSession
  <2> QED
    BY <2>3, <2>4, Zenon DEF StopInv, PodSound
<1> QED
  BY <1>1, StopInductive, PTL

(***************************************************************************)
(* RateLimiter.                                                            *)
(***************************************************************************)
BucketRow == [live : BOOLEAN, tokens : 0..Capacity, ts : Int, expires : Int]

\* What ts ticks of refill allow, with what was refilled twice.
Allowed(ts) == RateNum * (ts + ClockLag + rewound)

\* Tokens granted and tokens left together stay within the burst and the refill up
\* to the stored time; a dropped key had been full again before its TTL was over.
LimitInv ==
  /\ tick \in 0..MaxTick /\ admitted \in Nat /\ rewound \in Nat
  /\ bucket \in BucketRow /\ refusal \in [due : Int, valid : BOOLEAN]
  /\ bucket.live = TRUE =>
       /\ bucket.ts <= tick + ClockLag
       /\ bucket.expires >= bucket.ts - ClockLag + KeyTTL
       /\ admitted + bucket.tokens <= Capacity + Allowed(bucket.ts)
  /\ bucket.live = FALSE => admitted <= Allowed(tick - ClockLag)
  /\ refusal.valid = TRUE /\ bucket.live = TRUE =>
       /\ bucket.ts <= refusal.due
       /\ bucket.tokens + (refusal.due - bucket.ts) * RateNum >= RateDen

\* Products by the rate.
LEMMA RateMonotone ==
  ASSUME NEW a \in Int, NEW b \in Int, a <= b PROVE RateNum * a <= RateNum * b
<1>1. b - a \in Nat /\ RateNum \in Nat
  BY RateAssumption
<1>2. RateNum * (b - a) \in Nat
  BY <1>1
<1>3. RateNum * b = RateNum * a + RateNum * (b - a)
  BY <1>1
<1> QED
  BY <1>1, <1>2, <1>3

\* A capacity is a positive number of units, one token at least.
LEMMA CapacityFacts ==
  /\ Capacity \in Nat /\ RateDen <= Capacity
  /\ RateNum \in Nat /\ RateDen \in Nat /\ RateNum > 0 /\ RateDen > 0
  /\ ClockLag \in Nat /\ TTLMargin \in Nat /\ 2 * ClockLag < TTLMargin
<1>1. /\ RateNum \in Nat /\ RateDen \in Nat /\ Burst \in Nat
      /\ RateNum > 0 /\ RateDen > 0 /\ Burst > 0
  BY RateAssumption
<1>2. Burst * RateDen \in Nat /\ Burst * RateDen >= RateDen
  BY <1>1
<1> QED
  BY <1>1, <1>2, RateAssumption, Zenon DEF Capacity

\* A quotient rounded down is less than one divisor short.
LEMMA Quotient ==
  ASSUME NEW x \in Nat, NEW d \in Nat, d > 0
  PROVE  x \div d \in Nat /\ d * (x \div d) <= x /\ x < d * (x \div d) + d
OBVIOUS

\* A key that is kept for KeyTTL refills a whole burst, however far the clocks are
\* apart.
LEMMA TTLCoversRefill ==
  /\ KeyTTL \in Nat
  /\ \A a \in Int : a >= KeyTTL - 2 * ClockLag => Capacity <= RateNum * a
<1> DEFINE q == Capacity \div RateNum
<1>1. q \in Nat /\ Capacity < RateNum * q + RateNum
  BY CapacityFacts, Quotient, Zenon
<1>2. KeyTTL = q + TTLMargin
  BY Zenon DEF KeyTTL, Capacity
<1> HIDE DEF q
<1>3. KeyTTL \in Nat /\ KeyTTL - 2 * ClockLag >= q + 1 /\ KeyTTL - 2 * ClockLag \in Int
  BY <1>1, <1>2, CapacityFacts
<1>4. ASSUME NEW a \in Int, a >= KeyTTL - 2 * ClockLag PROVE Capacity <= RateNum * a
  <2>1. q + 1 <= a /\ q + 1 \in Int
    BY <1>1, <1>3, <1>4
  <2>2. RateNum * (q + 1) <= RateNum * a
    BY <2>1, RateMonotone, Zenon
  <2>3. RateNum * (q + 1) = RateNum * q + RateNum
    BY <1>1, CapacityFacts
  <2>4. RateNum * q \in Int /\ RateNum * a \in Int
    BY <1>1, <1>4, CapacityFacts
  <2> QED
    BY <2>2, <2>3, <2>4, <1>1, CapacityFacts
<1> QED
  BY <1>3, <1>4, Zenon

\* The wait the script answers with makes up the deficit.
LEMMA WaitCovers ==
  ASSUME NEW deficit \in Nat
  PROVE  RetryAfter(deficit) \in Nat /\ RetryAfter(deficit) * RateNum >= deficit
<1> DEFINE q == (deficit + RateNum - 1) \div RateNum
<1>1. deficit + RateNum - 1 \in Nat
  BY CapacityFacts
<1>2. q \in Nat /\ deficit + RateNum - 1 < RateNum * q + RateNum
  BY <1>1, CapacityFacts, Quotient, Zenon
<1>3. RetryAfter(deficit) = q
  BY Zenon DEF RetryAfter
<1> HIDE DEF q
<1>4. RateNum * q \in Int /\ q * RateNum = RateNum * q
  BY <1>2, CapacityFacts
<1> QED
  BY <1>2, <1>3, <1>4, CapacityFacts

\* The bucket is created full by the first call.
LEMMA LimitInitInv == LimitInit => LimitInv
<1> SUFFICES ASSUME LimitInit PROVE LimitInv
  BY Zenon
<1>1. /\ tick = 0 /\ admitted = 0 /\ rewound = 0
      /\ refusal = [due |-> 0, valid |-> FALSE]
      /\ bucket = [live |-> FALSE, tokens |-> 0, ts |-> 0, expires |-> 0]
  BY Zenon DEF LimitInit, NoRefusal
<1>2. tick \in 0..MaxTick /\ admitted \in Nat /\ rewound \in Nat
  BY <1>1, RateAssumption
<1>3. bucket \in BucketRow /\ refusal \in [due : Int, valid : BOOLEAN]
  BY <1>1, CapacityFacts DEF BucketRow
<1>4. bucket.live # TRUE
  BY <1>1, Zenon
<1>5. admitted <= RateNum * (tick - ClockLag + ClockLag + rewound)
  <2>1. tick - ClockLag + ClockLag + rewound = 0
    BY <1>1, CapacityFacts
  <2> QED
    BY <1>1, <2>1, CapacityFacts
<1> QED
  BY <1>2, <1>3, <1>4, <1>5, Zenon DEF LimitInv, Allowed

\* What a call finds: with the tokens granted it stays within what the burst and
\* the refill up to the call's time allow, whether the key lived or had expired.
LEMMA CallFinds ==
  ASSUME LimitInv, NEW now \in tick - ClockLag..tick + ClockLag, Rewind(now)
  PROVE  /\ Refilled(now) \in 0..Capacity /\ rewound' \in Nat
         /\ admitted + Refilled(now) <= Capacity + RateNum * (now + ClockLag + rewound')
<1>1. /\ tick \in Int /\ now \in Int /\ ClockLag \in Nat /\ rewound \in Nat /\ admitted \in Nat
      /\ RateNum \in Nat /\ Capacity \in Nat
  BY CapacityFacts DEF LimitInv
<1>2. /\ bucket.live \in BOOLEAN /\ bucket.tokens \in 0..Capacity /\ bucket.ts \in Int
  BY Zenon DEF LimitInv, BucketRow
<1>3. CASE bucket.live = FALSE
  <2>1. Refilled(now) = Capacity /\ rewound' = rewound
    BY <1>1, <1>3 DEF Refilled, Rewind
  <2>2. admitted <= RateNum * (tick - ClockLag + ClockLag + rewound)
    BY <1>3, Zenon DEF LimitInv, Allowed
  <2>3. RateNum * (tick - ClockLag + ClockLag + rewound) <= RateNum * (now + ClockLag + rewound)
    BY <1>1, RateMonotone
  <2>4. /\ RateNum * (tick - ClockLag + ClockLag + rewound) \in Int
        /\ RateNum * (now + ClockLag + rewound) \in Int
    BY <1>1
  <2> QED
    BY <2>1, <2>2, <2>3, <2>4, <1>1
<1>4. CASE bucket.live = TRUE
  <2>1. admitted + bucket.tokens <= Capacity + RateNum * (bucket.ts + ClockLag + rewound)
    BY <1>4, Zenon DEF LimitInv, Allowed
  <2>2. CASE now >= bucket.ts
    <3>1. rewound' = rewound
      BY <1>1, <1>2, <1>4, <2>2 DEF Rewind, Most
    <3>2. Refilled(now) = Least(Capacity, bucket.tokens + (now - bucket.ts) * RateNum)
      <4>1. Most(0, now - bucket.ts) = now - bucket.ts
        BY <1>1, <1>2, <2>2 DEF Most
      <4> QED
        BY <4>1, <1>4, Zenon DEF Refilled
    <3>3. (now - bucket.ts) * RateNum \in Nat
      BY <1>1, <1>2, <2>2
    <3>4. RateNum * (now + ClockLag + rewound)
            = RateNum * (bucket.ts + ClockLag + rewound) + (now - bucket.ts) * RateNum
      BY <1>1, <1>2
    <3>5. RateNum * (bucket.ts + ClockLag + rewound) \in Int
      BY <1>1, <1>2
    <3> QED
      BY <2>1, <3>1, <3>2, <3>3, <3>4, <3>5, <1>1, <1>2 DEF Least
  <2>3. CASE now < bucket.ts
    <3>1. rewound' = rewound + (bucket.ts - now)
      BY <1>1, <1>2, <1>4, <2>3 DEF Rewind, Most
    <3>2. Refilled(now) = bucket.tokens
      <4>1. Most(0, now - bucket.ts) = 0
        BY <1>1, <1>2, <2>3 DEF Most
      <4> QED
        BY <4>1, <1>1, <1>2, <1>4 DEF Refilled, Least
    <3>3. now + ClockLag + rewound' = bucket.ts + ClockLag + rewound
      BY <3>1, <1>1, <1>2
    <3> QED
      BY <2>1, <2>3, <3>1, <3>2, <3>3, <1>1, <1>2
  <2> QED
    BY <2>2, <2>3, <1>1, <1>2
<1> QED
  BY <1>2, <1>3, <1>4, Zenon

\* What a decision writes back keeps the account, if it is what the call found
\* less what it grants.
LEMMA DecisionInv ==
  ASSUME LimitInv, NEW now \in tick - ClockLag..tick + ClockLag, Rewind(now),
         NEW left \in 0..Capacity, StoreBucket(now, left), UNCHANGED tick,
         admitted' \in Nat, admitted' + left = admitted + Refilled(now),
         refusal' \in [due : Int, valid : BOOLEAN],
         refusal'.valid = TRUE =>
           now <= refusal'.due /\ left + (refusal'.due - now) * RateNum >= RateDen
  PROVE  LimitInv'
<1>1. /\ tick \in 0..MaxTick /\ now \in Int /\ ClockLag \in Nat /\ KeyTTL \in Nat
  BY CapacityFacts, TTLCoversRefill DEF LimitInv
<1>2. /\ bucket' = [live |-> TRUE, tokens |-> left, ts |-> now, expires |-> tick + KeyTTL]
  BY Zenon DEF StoreBucket
<1>3. /\ bucket' \in BucketRow /\ bucket'.live = TRUE /\ bucket'.tokens = left
      /\ bucket'.ts = now /\ bucket'.expires = tick + KeyTTL /\ bucket'.live # FALSE
  BY <1>1, <1>2 DEF BucketRow
<1>4. rewound' \in Nat /\ admitted' + left <= Capacity + RateNum * (now + ClockLag + rewound')
  BY CallFinds, Zenon
<1>5. now <= tick + ClockLag /\ tick + KeyTTL >= now - ClockLag + KeyTTL
  BY <1>1
<1>6. tick' = tick
  BY Zenon
<1>7. Allowed(now)' = RateNum * (now + ClockLag + rewound')
  BY Zenon DEF Allowed
<1>8. (bucket'.live = TRUE) =>
        /\ bucket'.ts <= tick' + ClockLag
        /\ bucket'.expires >= bucket'.ts - ClockLag + KeyTTL
        /\ admitted' + bucket'.tokens <= Capacity + Allowed(bucket.ts)'
  BY <1>3, <1>4, <1>5, <1>6, <1>7, Zenon DEF Allowed
<1>9. refusal'.valid = TRUE /\ bucket'.live = TRUE =>
        /\ bucket'.ts <= refusal'.due
        /\ bucket'.tokens + (refusal'.due - bucket'.ts) * RateNum >= RateDen
  BY <1>3, Zenon
<1> QED
  BY <1>1, <1>3, <1>4, <1>6, <1>8, <1>9, Zenon DEF LimitInv, KeyTTL

\* AllowN, granted.
LEMMA GrantInv ==
  ASSUME LimitInv, NEW now \in tick - ClockLag..tick + ClockLag, Grant(now) PROVE LimitInv'
<1>1. /\ Refilled(now) >= RateDen /\ StoreBucket(now, Refilled(now) - RateDen) /\ Rewind(now)
      /\ admitted' = admitted + RateDen /\ refusal' = NoRefusal /\ UNCHANGED tick
  BY Zenon DEF Grant
<1>2. Refilled(now) \in 0..Capacity /\ admitted \in Nat /\ RateDen \in Nat
  BY <1>1, CallFinds, CapacityFacts, Zenon DEF LimitInv
<1>3. /\ Refilled(now) - RateDen \in 0..Capacity /\ admitted' \in Nat
      /\ admitted' + (Refilled(now) - RateDen) = admitted + Refilled(now)
  BY <1>1, <1>2, CapacityFacts
<1>4. refusal' \in [due : Int, valid : BOOLEAN] /\ refusal'.valid # TRUE
  BY <1>1 DEF NoRefusal
<1> QED
  BY <1>1, <1>3, <1>4, DecisionInv, Zenon

\* AllowN, refused.
LEMMA DenyInv ==
  ASSUME LimitInv, NEW now \in tick - ClockLag..tick + ClockLag, Deny(now) PROVE LimitInv'
<1> DEFINE wait == RetryAfter(RateDen - Refilled(now))
<1>1. /\ Refilled(now) < RateDen /\ StoreBucket(now, Refilled(now)) /\ Rewind(now)
      /\ refusal' = [due |-> now + wait, valid |-> TRUE]
      /\ UNCHANGED <<tick, admitted>>
  BY Zenon DEF Deny
<1>2. Refilled(now) \in 0..Capacity /\ admitted \in Nat
  BY <1>1, CallFinds, Zenon DEF LimitInv
<1>3. RateDen - Refilled(now) \in Nat
  BY <1>1, <1>2, CapacityFacts
<1>4. wait \in Nat /\ wait * RateNum >= RateDen - Refilled(now)
  BY <1>3, WaitCovers, Zenon
<1> HIDE DEF wait
<1>5. refusal' \in [due : Int, valid : BOOLEAN] /\ refusal'.due = now + wait
  BY <1>1, <1>4 DEF LimitInv
<1>6. refusal'.due - now = wait /\ now <= refusal'.due
  BY <1>4, <1>5 DEF LimitInv
<1>7. Refilled(now) + (refusal'.due - now) * RateNum >= RateDen
  <2>1. wait * RateNum \in Int
    BY <1>4, CapacityFacts
  <2> QED
    BY <2>1, <1>2, <1>4, <1>6, CapacityFacts
<1>8. admitted' \in Nat /\ admitted' + Refilled(now) = admitted + Refilled(now)
  BY <1>1, <1>2, Zenon
<1> QED
  BY <1>1, <1>2, <1>5, <1>6, <1>7, <1>8, DecisionInv, Zenon

\* A tick of Redis' time, and with it the end of a key's TTL.
LEMMA PassInv == ASSUME LimitInv, Pass PROVE LimitInv'
<1>1. /\ tick \in 0..MaxTick /\ tick' = tick + 1 /\ tick' \in 0..MaxTick
      /\ ClockLag \in Nat /\ RateNum \in Nat /\ Capacity \in Nat /\ KeyTTL \in Nat
      /\ admitted \in Nat /\ rewound \in Nat
  BY CapacityFacts, TTLCoversRefill, RateAssumption DEF LimitInv, Pass
<1>2. UNCHANGED <<admitted, rewound, refusal>> /\ refusal \in [due : Int, valid : BOOLEAN]
  BY Zenon DEF Pass, LimitInv
<1>3. /\ bucket \in BucketRow /\ bucket.live \in BOOLEAN /\ bucket.tokens \in 0..Capacity
      /\ bucket.ts \in Int /\ bucket.expires \in Int
  BY Zenon DEF LimitInv, BucketRow
<1>4. CASE bucket.live = TRUE /\ tick' >= bucket.expires
  <2>1. /\ bucket' \in BucketRow /\ bucket'.live = FALSE /\ bucket'.live # TRUE
    <3>1. bucket' = [bucket EXCEPT !.live = FALSE, !.tokens = 0]
      BY <1>4, Zenon DEF Pass
    <3>2. 0 \in 0..Capacity
      BY <1>1
    <3>3. bucket' = [live |-> FALSE, tokens |-> 0, ts |-> bucket.ts, expires |-> bucket.expires]
      <4>1. bucket \in [live : BOOLEAN, tokens : 0..Capacity, ts : Int, expires : Int]
        BY <1>3, Zenon DEF BucketRow
      <4> QED
        BY <3>1, <4>1, Zenon
    <3>4. bucket' \in BucketRow /\ bucket'.live = FALSE
      BY <3>2, <3>3, <1>3, Zenon DEF BucketRow
    <3> QED
      BY <3>4, Zenon
  <2>2. /\ bucket.expires >= bucket.ts - ClockLag + KeyTTL
        /\ admitted + bucket.tokens <= Capacity + RateNum * (bucket.ts + ClockLag + rewound)
    BY <1>4, Zenon DEF LimitInv, Allowed
  <2> DEFINE a == tick' - ClockLag - bucket.ts
  <2>3. a \in Int /\ a >= KeyTTL - 2 * ClockLag
    BY <1>1, <1>3, <1>4, <2>2
  <2>4. Capacity <= RateNum * a
    BY <2>3, TTLCoversRefill, Zenon
  <2>5. RateNum * (tick' - ClockLag + ClockLag + rewound)
          = RateNum * (bucket.ts + ClockLag + rewound) + RateNum * a
    BY <1>1, <1>3
  <2>6. RateNum * (bucket.ts + ClockLag + rewound) \in Int /\ RateNum * a \in Int
    BY <1>1, <1>3, <2>3
  <2> HIDE DEF a
  <2>7. admitted <= RateNum * (tick' - ClockLag + ClockLag + rewound)
    BY <2>2, <2>4, <2>5, <2>6, <1>1, <1>3
  <2> QED
    BY <1>1, <1>2, <2>1, <2>7, Zenon DEF LimitInv, Allowed
<1>5. CASE ~(bucket.live = TRUE /\ tick' >= bucket.expires)
  <2>1. bucket' = bucket
    BY <1>3, <1>5, Zenon DEF Pass
  <2>2. bucket.live = TRUE => bucket.ts <= tick' + ClockLag
    <3>1. bucket.live = TRUE => bucket.ts <= tick + ClockLag
      BY Zenon DEF LimitInv
    <3> QED
      BY <3>1, <1>1, <1>3
  <2>3. bucket.live = FALSE => admitted <= RateNum * (tick' - ClockLag + ClockLag + rewound)
    <3>1. bucket.live = FALSE => admitted <= RateNum * (tick - ClockLag + ClockLag + rewound)
      BY Zenon DEF LimitInv, Allowed
    <3>2. RateNum * (tick - ClockLag + ClockLag + rewound)
            <= RateNum * (tick' - ClockLag + ClockLag + rewound)
      BY <1>1, RateMonotone
    <3>3. /\ RateNum * (tick - ClockLag + ClockLag + rewound) \in Int
          /\ RateNum * (tick' - ClockLag + ClockLag + rewound) \in Int
      BY <1>1
    <3> QED
      BY <3>1, <3>2, <3>3, <1>1
  <2> QED
    BY <1>1, <1>2, <2>1, <2>2, <2>3, Zenon DEF LimitInv, Allowed
<1> QED
  BY <1>4, <1>5, Zenon

\* The account of tokens granted and left holds at every moment, for every rate, burst,
\* clock lag and margin that RateAssumption allows.
THEOREM LimitInductive == LimitSpec => []LimitInv
<1>1. LimitInv /\ [LimitNext]_limitVars => LimitInv'
  <2> SUFFICES ASSUME LimitInv, [LimitNext]_limitVars PROVE LimitInv'
    BY Zenon
  <2>1. CASE UNCHANGED limitVars
    <3>1. UNCHANGED <<tick, bucket, admitted, rewound, refusal>>
      BY <2>1, Zenon DEF limitVars
    <3> QED
      BY <3>1, Zenon DEF LimitInv, Allowed
  <2> QED
    BY <2>1, PassInv, GrantInv, DenyInv, Zenon DEF LimitNext
<1> QED
  BY <1>1, LimitInitInv, PTL DEF LimitSpec

\* The bucket grants no more than its burst and the refill, expiry and clock skew
\* included, and lets in a caller that waited as told.
THEOREM BucketsKeepTheirPromises == LimitSpec => []BucketKept
<1>1. LimitInv => BucketKept
  <2> SUFFICES ASSUME LimitInv PROVE BucketKept
    BY Zenon
  <2>1. /\ tick \in 0..MaxTick /\ ClockLag \in Nat /\ RateNum \in Nat /\ RateNum > 0
        /\ Capacity \in Nat /\ RateDen \in Nat /\ RateDen <= Capacity
        /\ admitted \in Nat /\ rewound \in Nat
    BY CapacityFacts, Zenon DEF LimitInv
  <2>2. /\ bucket.live \in BOOLEAN /\ bucket.tokens \in 0..Capacity /\ bucket.ts \in Int
        /\ refusal.valid \in BOOLEAN /\ refusal.due \in Int
    BY Zenon DEF LimitInv, BucketRow
  <2>3. LimitTypeOK
    BY <2>1, <2>2, Zenon DEF LimitTypeOK
  <2> DEFINE most == RateNum * (tick + 2 * ClockLag + rewound)
  <2>4. ASSUME bucket.live = TRUE PROVE AdmissionBounded
    <3>1. /\ bucket.ts <= tick + ClockLag
          /\ admitted + bucket.tokens <= Capacity + RateNum * (bucket.ts + ClockLag + rewound)
      BY <2>4, Zenon DEF LimitInv, Allowed
    <3>2. RateNum * (bucket.ts + ClockLag + rewound) <= most
      BY <2>1, <2>2, <3>1, RateMonotone
    <3>3. RateNum * (bucket.ts + ClockLag + rewound) \in Int /\ most \in Int
      BY <2>1, <2>2
    <3> QED
      BY <2>1, <2>2, <3>1, <3>2, <3>3 DEF AdmissionBounded
  <2>5. ASSUME bucket.live = FALSE PROVE AdmissionBounded
    <3>1. admitted <= RateNum * (tick - ClockLag + ClockLag + rewound)
      BY <2>5, Zenon DEF LimitInv, Allowed
    <3>2. RateNum * (tick - ClockLag + ClockLag + rewound) <= most
      BY <2>1, RateMonotone
    <3>3. RateNum * (tick - ClockLag + ClockLag + rewound) \in Int /\ most \in Int
      BY <2>1
    <3> QED
      BY <2>1, <3>1, <3>2, <3>3 DEF AdmissionBounded
  <2>6. ASSUME refusal.valid = TRUE, bucket.live = TRUE
        PROVE  Refilled(Most(refusal.due, bucket.ts)) >= RateDen
    <3>1. /\ bucket.ts <= refusal.due
          /\ bucket.tokens + (refusal.due - bucket.ts) * RateNum >= RateDen
      BY <2>6, Zenon DEF LimitInv
    <3>2. Most(refusal.due, bucket.ts) = refusal.due
          /\ Most(0, refusal.due - bucket.ts) = refusal.due - bucket.ts
      BY <2>2, <3>1 DEF Most
    <3>3. (refusal.due - bucket.ts) * RateNum \in Int
      BY <2>1, <2>2
    <3>4. Refilled(refusal.due) = Least(Capacity, bucket.tokens + (refusal.due - bucket.ts) * RateNum)
      BY <2>6, <3>2, Zenon DEF Refilled
    <3> QED
      BY <2>1, <2>2, <3>1, <3>2, <3>3, <3>4 DEF Least
  <2>7. ASSUME bucket.live = FALSE PROVE Refilled(Most(refusal.due, bucket.ts)) >= RateDen
    BY <2>1, <2>7, Zenon DEF Refilled
  <2>8. RetryAfterSuffices
    BY <2>2, <2>6, <2>7, Zenon DEF RetryAfterSuffices
  <2> QED
    BY <2>2, <2>3, <2>4, <2>5, <2>8, Zenon DEF BucketKept
<1> QED
  BY <1>1, LimitInductive, PTL


(***************************************************************************)
(* Snowflake.                                                              *)
(***************************************************************************)
IdRow == [milli : 0..MaxMilli, node : NodeNumbers, step : 0..MaxStep, pod : Pods,
          life : Nat, n : Nat]

MadeBy(p) == {id \in made : id.pod = p}

\* The id is of an earlier life of its pod, or not above the generator's last.
NotAbove(id, l, g) ==
  \/ id.life < l
  \/ id.life = l /\ (id.milli < g.last \/ (id.milli = g.last /\ id.step <= g.step))

\* Ids carry their place in their pod's order and the pod's node number, and none
\* is above what its generator last made.
IdInv ==
  /\ IdTypeOK /\ life \in [Pods -> Nat] /\ IsFiniteSet(made) /\ made \subseteq IdRow
  /\ \A id \in made :
       /\ id.node = nodeOf[id.pod] /\ id.n < Cardinality(MadeBy(id.pod))
       /\ NotAbove(id, life[id.pod], gen[id.pod])
  /\ \A a, b \in made : a.pod = b.pod /\ a.n = b.n => a = b
  /\ IdsGrow

\* No id is made yet.
LEMMA IdInitInv == IdInit => IdInv
<1> SUFFICES ASSUME IdInit PROVE IdInv
  BY Zenon
<1>1. made = {} /\ IsFiniteSet(made)
  BY FS_EmptySet, Zenon DEF IdInit
<1>2. life \in [Pods -> Nat] /\ IdTypeOK
  BY IdAssumption DEF IdInit, IdTypeOK, NewSnowflake
<1> QED
  BY <1>1, <1>2, Zenon DEF IdInv, IdsGrow

\* Next, from the point where the step is chosen: an id above every id of the
\* generator's life so far keeps the invariant.
LEMMA MakeInv ==
  ASSUME IdInv, NEW p \in Pods, NEW step \in 0..MaxStep, Make(p, step),
         milli[p] > gen[p].last \/ (milli[p] = gen[p].last /\ step > gen[p].step)
  PROVE  IdInv'
<1> DEFINE new == [milli |-> milli[p], node |-> nodeOf[p], step |-> step,
                   pod |-> p, life |-> life[p], n |-> Cardinality(MadeBy(p))]
           g == [last |-> milli[p], step |-> step]
<1>1. /\ nodeOf \in [Pods -> NodeNumbers] /\ milli \in [Pods -> 0..MaxMilli]
      /\ gen \in [Pods -> [last : -1..MaxMilli, step : 0..MaxStep]]
      /\ life \in [Pods -> Nat] /\ IsFiniteSet(made) /\ made \subseteq IdRow
      /\ clockFaults \in 0..MaxClockFaults
  BY Zenon DEF IdInv, IdTypeOK
<1>2. /\ gen' = [gen EXCEPT ![p] = g] /\ made' = made \union {new}
      /\ UNCHANGED <<nodeOf, milli, life, clockFaults>>
  BY Zenon DEF Make, MadeBy
<1>3. \A q \in Pods : IsFiniteSet(MadeBy(q)) /\ Cardinality(MadeBy(q)) \in Nat
  <2>1. \A q \in Pods : MadeBy(q) \subseteq made
    BY Zenon DEF MadeBy
  <2> QED
    BY <1>1, <2>1, FS_Subset, FS_CardinalityType, Zenon
<1>4. /\ new \in IdRow /\ new.milli = milli[p] /\ new.node = nodeOf[p] /\ new.step = step
      /\ new.pod = p /\ new.life = life[p] /\ new.n = Cardinality(MadeBy(p))
  BY <1>1, <1>3, Zenon DEF IdRow
<1>5. g \in [last : -1..MaxMilli, step : 0..MaxStep] /\ g.last = milli[p] /\ g.step = step
  BY <1>1, IdAssumption
<1> HIDE DEF new, g
<1>6. IsFiniteSet(made') /\ made' \subseteq IdRow
  BY <1>1, <1>2, <1>4, FS_AddElement, Zenon
<1>7. gen' \in [Pods -> [last : -1..MaxMilli, step : 0..MaxStep]] /\ gen'[p] = g
      /\ \A q \in Pods : q # p => gen'[q] = gen[q]
  BY <1>1, <1>2, <1>5, Zenon
<1>8. \A id \in made' : id.step \in 0..MaxStep /\ id.pod \in Pods
  BY <1>6, Zenon DEF IdRow
<1>9. IdTypeOK'
  BY <1>1, <1>2, <1>7, <1>8, Zenon DEF IdTypeOK
<1>10. \A id \in made : id.pod = p => id.n < new.n
  BY <1>4, Zenon DEF IdInv
<1>11. new \notin MadeBy(p)
  <2> SUFFICES ASSUME new \in made, new.pod = p PROVE FALSE
    BY Zenon DEF MadeBy
  <2>1. new.n < new.n /\ new.n \in Nat
    BY <1>3, <1>4, <1>10, Zenon
  <2> QED
    BY <2>1
<1>12. /\ MadeBy(p)' = MadeBy(p) \union {new}
       /\ \A q \in Pods : q # p => MadeBy(q)' = MadeBy(q)
  BY <1>2, <1>4, Zenon DEF MadeBy
<1>13. Cardinality(MadeBy(p)') = Cardinality(MadeBy(p)) + 1
  BY <1>3, <1>11, <1>12, FS_AddElement
<1>14. \A id \in made : Below(id, new) \/ id.pod # p \/ id.life # life[p]
  <2> SUFFICES ASSUME NEW id \in made, id.pod = p, id.life = life[p] PROVE Below(id, new)
    BY Zenon
  <2>1. NotAbove(id, life[p], gen[p])
    BY Zenon DEF IdInv
  <2>2. /\ id.milli \in Int /\ id.step \in Int /\ gen[p].last \in Int /\ gen[p].step \in Int
        /\ milli[p] \in Int /\ step \in Int /\ life[p] \in Int
    BY <1>1, IdAssumption DEF IdRow
  <2> QED
    BY <2>1, <2>2, <1>4 DEF NotAbove, Below
<1>15. ASSUME NEW id \in made'
       PROVE  /\ id.node = nodeOf'[id.pod] /\ id.n < Cardinality(MadeBy(id.pod)')
              /\ NotAbove(id, life'[id.pod], gen'[id.pod])
  <2>1. CASE id = new
    <3>1. Cardinality(MadeBy(p)) < Cardinality(MadeBy(p)')
      BY <1>3, <1>13
    <3>2. NotAbove(new, life[p], g)
      BY <1>1, <1>4, <1>5 DEF NotAbove
    <3> QED
      BY <2>1, <3>1, <3>2, <1>2, <1>4, <1>7, Zenon
  <2>2. CASE id \in made /\ id.pod # p
    <3>1. id.pod \in Pods
      BY <2>2, Zenon DEF IdInv, IdTypeOK
    <3> QED
      BY <2>2, <3>1, <1>2, <1>7, <1>12, Zenon DEF IdInv
  <2>3. CASE id \in made /\ id.pod = p
    <3>1. id.node = nodeOf[p] /\ id.n < Cardinality(MadeBy(p)) /\ NotAbove(id, life[p], gen[p])
      BY <2>3, Zenon DEF IdInv
    <3>2. /\ id.n \in Int /\ id.milli \in Int /\ id.step \in Int /\ id.life \in Int
          /\ gen[p].last \in Int /\ gen[p].step \in Int
          /\ milli[p] \in Int /\ step \in Int /\ life[p] \in Int
      BY <1>1, <2>3, IdAssumption DEF IdRow
    <3>3. id.n < Cardinality(MadeBy(p)')
      BY <3>1, <3>2, <1>3, <1>13
    <3>4. NotAbove(id, life[p], g)
      BY <3>1, <3>2, <1>5 DEF NotAbove
    <3> QED
      BY <2>3, <3>1, <3>3, <3>4, <1>2, <1>7, Zenon
  <2> QED
    BY <2>1, <2>2, <2>3, <1>2, Zenon
<1>16. ASSUME NEW a \in made', NEW b \in made', a.pod = b.pod, a.n = b.n PROVE a = b
  <2>1. CASE a \in made /\ b \in made
    BY <1>16, <2>1, Zenon DEF IdInv
  <2>2. ASSUME NEW c \in made, c.pod = new.pod, c.n = new.n PROVE FALSE
    <3>1. new.n < new.n /\ new.n \in Nat
      BY <2>2, <1>3, <1>4, <1>10, Zenon
    <3> QED
      BY <3>1
  <2>3. a \in made \/ a = new
    BY <1>2, Zenon
  <2>4. b \in made \/ b = new
    BY <1>2, Zenon
  <2> QED
    BY <1>16, <2>1, <2>2, <2>3, <2>4, Zenon
<1>17. IdsGrow'
  <2> SUFFICES ASSUME NEW a \in made', NEW b \in made',
                      a.pod = b.pod, a.life = b.life, a.n < b.n
               PROVE  Below(a, b)
    BY Zenon DEF IdsGrow, Below
  <2>1. CASE a \in made /\ b \in made
    BY <2>1, Zenon DEF IdInv, IdsGrow
  <2>2. CASE a \in made /\ b = new
    BY <2>2, <1>4, <1>14, Zenon
  <2>3. CASE a = new
    <3>1. b = new \/ b.n < new.n
      BY <2>3, <1>2, <1>4, <1>10, Zenon
    <3>2. b.n \in Nat /\ new.n \in Nat
      BY <1>4, <1>6, Zenon DEF IdRow
    <3> QED
      BY <2>3, <3>1, <3>2
  <2> QED
    BY <2>1, <2>2, <2>3, <1>2, Zenon
<1> QED
  BY <1>1, <1>2, <1>6, <1>9, <1>15, <1>16, <1>17, Zenon DEF IdInv

\* A clock that ticks or steps back changes neither generators nor ids.
LEMMA ClockInv ==
  ASSUME IdInv, milli' \in [Pods -> 0..MaxMilli], clockFaults' \in 0..MaxClockFaults,
         UNCHANGED <<nodeOf, gen, made, life>>
  PROVE  IdInv'
<1>1. IdTypeOK'
  BY Zenon DEF IdInv, IdTypeOK
<1> QED
  BY <1>1, Zenon DEF IdInv, IdsGrow, MadeBy, NotAbove, Below

\* A restarted pod has made no id in its new life.
LEMMA RestartPodInv == ASSUME IdInv, NEW p \in Pods, RestartPod(p) PROVE IdInv'
<1>1. /\ gen \in [Pods -> [last : -1..MaxMilli, step : 0..MaxStep]]
      /\ life \in [Pods -> Nat] /\ made \subseteq IdRow /\ clockFaults \in 0..MaxClockFaults
  BY Zenon DEF IdInv, IdTypeOK
<1>2. UNCHANGED <<nodeOf, milli, made>>
  BY Zenon DEF RestartPod
<1>3. /\ gen' \in [Pods -> [last : -1..MaxMilli, step : 0..MaxStep]]
      /\ clockFaults' \in 0..MaxClockFaults /\ life' \in [Pods -> Nat]
      /\ life'[p] = life[p] + 1
      /\ \A q \in Pods : q # p => life'[q] = life[q] /\ gen'[q] = gen[q]
  BY <1>1, IdAssumption DEF RestartPod, NewSnowflake
<1>4. IdTypeOK'
  BY <1>2, <1>3, Zenon DEF IdInv, IdTypeOK
<1>5. ASSUME NEW id \in made PROVE NotAbove(id, life'[id.pod], gen'[id.pod])
  <2>1. NotAbove(id, life[id.pod], gen[id.pod]) /\ id.pod \in Pods
    BY <1>5, Zenon DEF IdInv, IdTypeOK
  <2>2. CASE id.pod # p
    BY <2>1, <2>2, <1>3, Zenon
  <2>3. CASE id.pod = p
    <3>1. id.life \in Nat /\ life[p] \in Nat
      BY <1>1, Zenon DEF IdRow
    <3> QED
      BY <2>1, <2>3, <3>1, <1>3 DEF NotAbove
  <2> QED
    BY <2>2, <2>3, Zenon
<1>6. ASSUME NEW id \in made
      PROVE  id.node = nodeOf'[id.pod] /\ id.n < Cardinality(MadeBy(id.pod)')
  BY <1>2, Zenon DEF IdInv, MadeBy
<1> QED
  BY <1>2, <1>3, <1>4, <1>5, <1>6, Zenon DEF IdInv, IdsGrow, Below

\* What holds of generators and ids at every moment, for every number of pods and every
\* assignment of node numbers.
THEOREM IdInductive == IdSpec => []IdInv
<1>1. IdInv /\ [IdNext]_idVars => IdInv'
  <2> SUFFICES ASSUME IdInv, [IdNext]_idVars PROVE IdInv'
    BY Zenon
  <2>1. /\ milli \in [Pods -> 0..MaxMilli] /\ clockFaults \in 0..MaxClockFaults
        /\ gen \in [Pods -> [last : -1..MaxMilli, step : 0..MaxStep]]
    BY Zenon DEF IdInv, IdTypeOK
  <2>2. ASSUME NEW p \in Pods, NextInMilli(p) PROVE IdInv'
    <3>1. gen[p].step + 1 \in 0..MaxStep /\ gen[p].step + 1 > gen[p].step
      BY <2>1, <2>2, IdAssumption DEF NextInMilli
    <3> QED
      BY <2>2, <3>1, MakeInv, Zenon DEF NextInMilli
  <2>3. ASSUME NEW p \in Pods, NextMilli(p) PROVE IdInv'
    <3>1. 0 \in 0..MaxStep
      BY IdAssumption
    <3> QED
      BY <2>3, <3>1, MakeInv, Zenon DEF NextMilli
  <2>4. ASSUME NEW p \in Pods, ClockTicks(p) PROVE IdInv'
    <3>1. milli' \in [Pods -> 0..MaxMilli]
      BY <2>1, <2>4, IdAssumption DEF ClockTicks
    <3> QED
      BY <2>1, <2>4, <3>1, ClockInv, Zenon DEF ClockTicks
  <2>5. ASSUME NEW p \in Pods, ClockStepsBack(p) PROVE IdInv'
    <3>1. milli' \in [Pods -> 0..MaxMilli] /\ clockFaults' \in 0..MaxClockFaults
      BY <2>1, <2>5, IdAssumption DEF ClockStepsBack
    <3> QED
      BY <2>5, <3>1, ClockInv, Zenon DEF ClockStepsBack
  <2>6. CASE UNCHANGED idVars
    <3>1. UNCHANGED <<nodeOf, milli, gen, made, life, clockFaults>>
      BY <2>6, Zenon DEF idVars
    <3> QED
      BY <2>1, <3>1, ClockInv, Zenon
  <2> QED
    BY <2>2, <2>3, <2>4, <2>5, <2>6, RestartPodInv, Zenon DEF IdNext
<1> QED
  BY <1>1, IdInitInv, PTL DEF IdSpec

\* The ids of one generator only grow, whatever its clock does, and two ids are equal only
\* across pods that share a node number or across a restart.
THEOREM OnlyNamedDuplicates == IdSpec => []IdsDistinct
<1>1. IdInv => IdsDistinct
  <2> SUFFICES ASSUME IdInv, NEW a \in made, NEW b \in made, a # b, Value(a) = Value(b)
               PROVE  \/ a.pod # b.pod /\ nodeOf[a.pod] = nodeOf[b.pod]
                      \/ a.pod = b.pod /\ a.life # b.life
    BY Zenon DEF IdInv, IdsDistinct, DuplicatesExplained
  <2>1. a.milli = b.milli /\ a.node = b.node /\ a.step = b.step
    BY Zenon DEF Value
  <2>2. a.node = nodeOf[a.pod] /\ b.node = nodeOf[b.pod]
    BY Zenon DEF IdInv
  <2>3. /\ a.milli \in Int /\ a.step \in Int /\ b.milli \in Int /\ b.step \in Int
        /\ a.n \in Int /\ b.n \in Int
    BY DEF IdInv, IdRow
  <2>4. ~Below(a, b) /\ ~Below(b, a)
    BY <2>1, <2>3 DEF Below
  <2>5. CASE a.pod = b.pod /\ a.life = b.life
    <3>1. a.n # b.n
      BY <2>5, Zenon DEF IdInv
    <3>2. a.n < b.n \/ b.n < a.n
      BY <3>1, <2>3
    <3>3. Below(a, b) \/ Below(b, a)
      BY <2>5, <3>2, Zenon DEF IdInv, IdsGrow
    <3> QED
      BY <2>4, <3>3, Zenon
  <2> QED
    BY <2>1, <2>2, <2>5, Zenon
<1> QED
  BY <1>1, IdInductive, PTL
=============================================================================
