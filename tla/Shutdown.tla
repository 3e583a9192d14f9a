------------------------------ MODULE Shutdown ------------------------------
(***************************************************************************)
(* The end of a realtime-gateway pod: App.Run and its shutdown, the TCP    *)
(* and WebSocket listeners with their connection slots, Gateway.Handle and *)
(* Drain, and the two loops of a session.  SIGTERM cancels the one context *)
(* that all of them were given.  A timer may fire at any time.             *)
(***************************************************************************)
EXTENDS Integers, Sequences, FiniteSets, Functions

CONSTANTS TcpClients, WsClients, \* clients, each connecting once
          MaxConnections         \* of a listener

ASSUME ShutdownAssumption ==
  /\ MaxConnections \in Nat \ {0} /\ TcpClients \intersect WsClients = {}
  /\ IsFiniteSet(TcpClients) /\ IsFiniteSet(WsClients)

Listeners == {"tcp", "ws"}
Dialers == TcpClients \union WsClients
KindOf(c) == IF c \in TcpClients THEN "tcp" ELSE "ws"
\* What run registers with OnShutdown, in its order.
AllClosers == <<"redis", "kafka", "gateway", "tcp", "udp", "ws">>

VARIABLES
  sigterm,         \* the context of the process is cancelled
  stage,           \* where Run is
  closers,         \* App.closers; in the end, those still to run
  listening,       \* listeners whose socket is open
  slots,           \* TCPListener.active, WSListener.active
  draining, toHint, \* Gateway.draining; sessions Drain has still to tell
  conn,            \* where a connection is
  writing,         \* sessions whose writeLoop runs
  bound,           \* sessions in Gateway.registry
  queued, hinted,  \* sessions with the hint in Session.out, or whose client got it
  parted           \* sessions whose client went, fell silent or sent what ends them

podVars == <<sigterm, stage, closers, listening, draining, toHint>>
linkVars == <<slots, conn, writing, bound, queued, hinted, parted>>
stopVars == <<podVars, linkVars>>

StopInit ==
  /\ sigterm = FALSE /\ stage = "start" /\ closers = <<>> /\ listening = {}
  /\ draining = FALSE /\ toHint = {}
  /\ slots = [k \in Listeners |-> 0] /\ conn = [c \in Dialers |-> "none"]
  /\ writing = {} /\ bound = {} /\ queued = {} /\ hinted = {} /\ parted = {}

Goes(c, to) == conn' = [conn EXCEPT ![c] = to]
TakeSlot(c) == slots' = [slots EXCEPT ![KindOf(c)] = @ + 1]
FreeSlot(c) == slots' = [slots EXCEPT ![KindOf(c)] = @ - 1]

(***************************************************************************)
(* The process: run, SIGTERM, shutdown, Drain and the closers.             *)
(***************************************************************************)
\* run registers the next closer; a listener serves from then on.
Register ==
  /\ stage = "start"
  /\ LET n == Len(closers) + 1 IN
       /\ closers' = Append(closers, AllClosers[n])
       /\ listening' = listening \union ({AllClosers[n]} \intersect Listeners)
       /\ stage' = IF n = Len(AllClosers) THEN "up" ELSE "start"
  /\ UNCHANGED <<sigterm, draining, toHint, linkVars>>

\* A listener cannot bind: Run shuts down what has been started.
StartFails ==
  /\ stage = "start" /\ Len(closers) \in 3..5 /\ stage' = "drain"
  /\ UNCHANGED <<sigterm, closers, listening, draining, toHint, linkVars>>

Sigterm ==
  /\ stage \in {"start", "up"} /\ ~sigterm /\ sigterm' = TRUE
  /\ UNCHANGED <<stage, closers, listening, draining, toHint, linkVars>>

\* Run sees the context end.
BeginDrain ==
  /\ stage = "up" /\ sigterm /\ stage' = "drain"
  /\ UNCHANGED <<sigterm, closers, listening, draining, toHint, linkVars>>

\* Drain: the flag, then the sessions in the registry, then one Enqueue each,
\* then the window, which the propagation delay follows.
MarkDraining ==
  /\ stage = "drain" /\ draining' = TRUE /\ stage' = "collect"
  /\ UNCHANGED <<sigterm, closers, listening, toHint, linkVars>>

Collect ==
  /\ stage = "collect" /\ toHint' = bound /\ stage' = "hint"
  /\ UNCHANGED <<sigterm, closers, listening, draining, linkVars>>

\* Enqueue passes over a closed session.
Hint(c) ==
  /\ stage = "hint" /\ c \in toHint /\ toHint' = toHint \ {c}
  /\ queued' = IF conn[c] = "run" THEN queued \union {c} ELSE queued
  /\ UNCHANGED <<sigterm, stage, closers, listening, draining, slots, conn, writing, bound,
                 hinted, parted>>

WindowElapses ==
  /\ stage = "hint" /\ toHint = {} /\ stage' = "close"
  /\ UNCHANGED <<sigterm, closers, listening, draining, toHint, linkVars>>

\* Closers run in reverse order of their registration.
NextCloser == closers[Len(closers)]

\* The socket is closed: by the goroutine that waits for the context, or by the
\* listener's closer.  What TCP had not accepted is reset; of the requests the
\* HTTP server was reading, Shutdown may let some go on.
StopListening(k) ==
  /\ k \in listening /\ listening' = listening \ {k}
  /\ sigterm \/ (stage = "close" /\ NextCloser = k)
  /\ \E lost \in SUBSET {c \in Dialers : KindOf(c) = k /\ conn[c] = "dialed"} :
       /\ k = "tcp" => \A c \in TcpClients : conn[c] = "dialed" => c \in lost
       /\ conn' = [c \in Dialers |-> IF c \in lost THEN "gone" ELSE conn[c]]
  /\ UNCHANGED <<sigterm, stage, closers, draining, toHint, slots, writing, bound, queued,
                 hinted, parted>>

\* The connections of a listener that are in one of the given states.
Connections(k, states) == {c \in Dialers : KindOf(c) = k /\ conn[c] \in states}

\* Those that its WaitGroup counts.
Waited(k) == Connections(k, {"setup", "handle", "admitted", "run", "ending"})

\* Mutant of CloserReturns: a listener's Close does not wait.
CloserReturnsAtOnce ==
  /\ stage = "close" /\ closers # <<>>
  /\ NextCloser \notin listening
  /\ closers' = SubSeq(closers, 1, Len(closers) - 1)
  /\ UNCHANGED <<sigterm, stage, listening, draining, toHint, linkVars>>

\* The next closer returns; those of the listeners wait, without a limit, for the
\* handlers.
CloserReturns ==
  /\ stage = "close" /\ closers # <<>>
  /\ NextCloser \in Listeners =>
       NextCloser \notin listening /\ Waited(NextCloser) = {}
  /\ closers' = SubSeq(closers, 1, Len(closers) - 1)
  /\ UNCHANGED <<sigterm, stage, listening, draining, toHint, linkVars>>

Stopped ==
  /\ stage = "close" /\ closers = <<>> /\ stage' = "stopped"
  /\ UNCHANGED <<sigterm, closers, listening, draining, toHint, linkVars>>

(***************************************************************************)
(* Connections: accept or upgrade, Handle, Run, Close.                     *)
(***************************************************************************)
Dial(c) ==
  /\ conn[c] = "none" /\ KindOf(c) \in listening /\ Goes(c, "dialed")
  /\ UNCHANGED <<podVars, slots, writing, bound, queued, hinted, parted>>

\* Serve counts the connection, and judges by the number it gets.  One goroutine
\* accepts TCP connections; each WebSocket request has its own.
Count(c) ==
  /\ conn[c] = "dialed"
  /\ c \in TcpClients => \A d \in TcpClients : conn[d] \notin {"over", "counted"}
  /\ TakeSlot(c)
  /\ Goes(c, IF slots'[KindOf(c)] > MaxConnections THEN "over" ELSE "counted")
  /\ UNCHANGED <<podVars, writing, bound, queued, hinted, parted>>

Refuse(c) ==
  /\ conn[c] = "over" /\ FreeSlot(c) /\ Goes(c, "gone")
  /\ UNCHANGED <<podVars, writing, bound, queued, hinted, parted>>

\* TCP: the WaitGroup counts the connection before its goroutine upgrades it.
Spawn(c) ==
  /\ c \in TcpClients /\ conn[c] = "counted" /\ Goes(c, "setup")
  /\ UNCHANGED <<podVars, slots, writing, bound, queued, hinted, parted>>

Upgrading(c) == conn[c] = IF c \in TcpClients THEN "setup" ELSE "counted"

\* Framing and obfuscation, or the WebSocket handshake, which the WaitGroup counts
\* only when it is over.
Upgrade(c) ==
  /\ Upgrading(c)
  /\ \/ Goes(c, "handle") /\ UNCHANGED slots
     \/ Goes(c, "gone") /\ FreeSlot(c)
  /\ UNCHANGED <<podVars, writing, bound, queued, hinted, parted>>

\* Handle refuses new work while draining.
Handle(c) ==
  /\ conn[c] = "handle"
  /\ IF draining THEN Goes(c, "gone") /\ FreeSlot(c) ELSE Goes(c, "admitted") /\ UNCHANGED slots
  /\ UNCHANGED <<podVars, writing, bound, queued, hinted, parted>>

\* The limiter, in Redis, admits it and Run starts, or not.
Admit(c) ==
  /\ conn[c] = "admitted"
  /\ \/ Goes(c, "run") /\ writing' = writing \union {c} /\ UNCHANGED slots
     \/ Goes(c, "gone") /\ FreeSlot(c) /\ UNCHANGED writing
  /\ UNCHANGED <<podVars, bound, queued, hinted, parted>>

\* attachIdentity; when the context has ended its Redis calls fail.
Bind(c) ==
  /\ conn[c] = "run" /\ c \notin parted /\ ~sigterm /\ bound' = bound \union {c}
  /\ UNCHANGED <<podVars, slots, conn, writing, queued, hinted, parted>>

Leave(c) ==
  /\ conn[c] = "run" /\ parted' = parted \union {c}
  /\ UNCHANGED <<podVars, slots, conn, writing, bound, queued, hinted>>

\* ReadFrame looks at the deadline of the context, not at its end: only an error,
\* an idle timeout or the client ends the read loop.
ReadEnds(c) ==
  /\ conn[c] = "run" /\ c \in parted /\ Goes(c, "ending")
  /\ UNCHANGED <<podVars, slots, writing, bound, queued, hinted, parted>>

\* writeLoop takes the hint from the queue; a write that fails ends it.
WriterSends(c) ==
  /\ c \in writing \intersect queued /\ queued' = queued \ {c}
  /\ \/ c \notin parted /\ hinted' = hinted \union {c} /\ UNCHANGED writing
     \/ c \in parted /\ writing' = writing \ {c} /\ UNCHANGED hinted
  /\ UNCHANGED <<podVars, slots, conn, bound, parted>>

\* writeLoop takes the end of its context: the session's, derived from the
\* process's.
WriterStops(c) ==
  /\ c \in writing /\ (sigterm \/ conn[c] = "ending") /\ writing' = writing \ {c}
  /\ UNCHANGED <<podVars, slots, conn, bound, queued, hinted, parted>>

\* Run waited for its loops; Close unsubscribes, publishes presence, and the
\* handler returns.
SessionCloses(c) ==
  /\ conn[c] = "ending" /\ c \notin writing
  /\ bound' = bound \ {c} /\ queued' = queued \ {c}
  /\ hinted' = hinted \ {c} /\ parted' = parted \ {c}
  /\ Goes(c, "gone") /\ FreeSlot(c)
  /\ UNCHANGED <<podVars, writing>>
-----------------------------------------------------------------------------
\* What the pod does by itself.
PodProceeds ==
  \/ Register \/ BeginDrain \/ MarkDraining \/ Collect \/ WindowElapses
  \/ CloserReturns \/ Stopped
  \/ \E k \in Listeners : StopListening(k)
  \/ \E c \in Dialers : \/ Hint(c) \/ Count(c) \/ Refuse(c) \/ Spawn(c) \/ Upgrade(c)
                        \/ Handle(c) \/ Admit(c) \/ ReadEnds(c) \/ WriterSends(c)
                        \/ WriterStops(c) \/ SessionCloses(c)

StopWork == stage # "stopped" /\ PodProceeds

StopNext == \/ StopWork
            \/ /\ stage # "stopped"
               /\ \/ StartFails \/ Sigterm
                  \/ \E c \in Dialers : Dial(c) \/ Bind(c) \/ Leave(c)

\* Goroutines that can run do, timers fire and handshakes end.  Nothing is
\* assumed of clients.
StopSpec == StopInit /\ [][StopNext]_stopVars /\ WF_stopVars(StopWork)
-----------------------------------------------------------------------------
Holding == {"over", "counted", "setup", "handle", "admitted", "run", "ending"}

StopTypeOK ==
  /\ stage \in {"start", "up", "drain", "collect", "hint", "close", "stopped"}
  /\ closers = SubSeq(AllClosers, 1, Len(closers)) /\ listening \subseteq Listeners
  /\ slots \in [Listeners -> 0..Cardinality(Dialers)]
  /\ conn \in [Dialers -> Holding \union {"none", "dialed", "gone"}]
  /\ sigterm \in BOOLEAN /\ draining \in BOOLEAN
  /\ toHint \union writing \union bound \union queued \union hinted \union parted \subseteq Dialers

\* MaxConnections: "Beyond this we close immediately rather than degrade
\* everyone."  The counter a listener judges by is exact through refusals, failed
\* upgrades and sessions that end, so that no slot leaks, and however accepts
\* interleave no more than MaxConnections are served.
SlotsAccounted == \A k \in Listeners :
  /\ slots[k] = Cardinality(Connections(k, Holding))
  /\ Cardinality(Connections(k, Holding \ {"over"})) <= MaxConnections

\* OnShutdown: "Closers run in reverse order of registration".  The shared
\* subscription, Kafka and Redis are closed only when no session runs or is being
\* closed, which needs them, although a connection that was being upgraded when
\* its listener's Close looked at the WaitGroup starts later: that one finds the
\* gateway draining.
StoresOutliveSessions ==
  (stage \in {"close", "stopped"} /\ Range(closers) \intersect Listeners = {})
    => \A c \in Dialers : conn[c] \notin {"admitted", "run", "ending"}

\* App.Run "blocks until shutdown completes".  Once SIGTERM is here only a client
\* that stays connected holds the process up: nothing closes its connection, so
\* the closers wait for it, longer than the grace period if it likes.
OnlyClientsDelayStop ==
  []<>(~sigterm \/ stage = "stopped" \/ \E c \in Dialers : conn[c] = "run" /\ c \notin parted)

\* docs/ARCHITECTURE.md: "On SIGTERM the gateway sends every live client a
\* "reconnect elsewhere" update and waits."  A bound session that stays is told.
LiveClientsAreTold == \A c \in Dialers :
  []<>(sigterm /\ conn[c] = "run" /\ c \in bound => c \in hinted \union parted)

\* A pod that starts, serves and stops keeps its accounts: slots are exact, and
\* what sessions need is closed after them.
PodSound == StopTypeOK /\ SlotsAccounted /\ StoresOutliveSessions
=============================================================================
