------------------------------ MODULE Gateway -------------------------------
(***************************************************************************)
(* A realtime-gateway pod: the life of its connections, the registry and   *)
(* the one Redis subscription they share, the goroutine that fans updates  *)
(* out, and the presence that connections, TTLs and the presence-service   *)
(* write.  Each Redis call of a connection is a step of its own.           *)
(***************************************************************************)
EXTENDS Integers, Sequences, FiniteSets

CONSTANTS Conns,      \* connections, each used once, numbered as they first speak
          Users, Nobody,
          AuthKeys,   \* auth keys; the device registered for a key is the key
          QueueSize,  \* UpdateQueueSize*16: the pod's queue of updates
          OutSize,    \* UpdateQueueSize: a session's queue
          MaxBinds,   \* bound: auth.bind calls
          MaxUpdates, \* bound: published updates
          MaxGwFaults   \* bound: failed Redis calls and pod crashes

\* An update being fanned out: its number, the sessions left, the one being sent to.
FanOuts == [n : Nat, targets : SUBSET Conns, sending : Conns \union {Nobody}]

ASSUME GatewayAssumption ==
  /\ Nobody \notin Users \union AuthKeys \union Conns \union FanOuts
  /\ Conns \subseteq Nat /\ IsFiniteSet(Conns)
  /\ QueueSize \in Nat /\ OutSize \in Nat
  /\ MaxBinds \in Nat /\ MaxUpdates \in Nat /\ MaxGwFaults \in Nat

VARIABLES
  doing,       \* where the connection's read goroutine is
  key, userOf, \* Session.authKey, userID
  channels,    \* Session.channels: users whose channel it registered for
  at,          \* the channel that subscribe or unsubscribe works on
  closed,      \* Session.closed
  registry, refs, subscribed, \* Gateway.registry, Subscription.channels, Redis
  stored, boundTo,            \* authkey: and authbind: keys in Redis
  presence, events,           \* pres: hashes; presence.events not yet applied
  podq, cur,   \* updates the pod received; the one being fanned out
  out,         \* Session.out
  published, binds, gwFaults,
  crossed      \* history: channels whose subscription was dropped under a user

sessVars == <<doing, key, userOf, channels, at, closed>>
subVars  == <<registry, refs, subscribed, crossed>>
keyVars  == <<stored, boundTo>>
presVars == <<presence, events>>
updVars  == <<podq, cur, out, published>>
gwVars == <<sessVars, subVars, keyVars, presVars, updVars, binds, gwFaults>>

\* NewSession; a connection that has not yet spoken holds nothing.
GwInit ==
  /\ doing = [c \in Conns |-> "plain"]
  /\ key = [c \in Conns |-> Nobody] /\ userOf = [c \in Conns |-> Nobody]
  /\ channels = [c \in Conns |-> {}] /\ at = [c \in Conns |-> Nobody]
  /\ closed = [c \in Conns |-> FALSE]
  /\ registry = [u \in Users |-> {}] /\ refs = [u \in Users |-> 0]
  /\ subscribed = [u \in Users |-> FALSE] /\ crossed = [u \in Users |-> FALSE]
  /\ stored = {} /\ boundTo = [k \in AuthKeys |-> Nobody]
  /\ presence = {} /\ events = {}
  /\ podq = <<>> /\ cur = Nobody
  /\ out = [c \in Conns |-> <<>>]
  /\ published = 0 /\ binds = 0 /\ gwFaults = 0

GwFault == gwFaults < MaxGwFaults /\ gwFaults' = gwFaults + 1
MovesTo(c, l) == doing' = [doing EXCEPT ![c] = l]

\* c is the next connection to speak: those that have not are alike.
Speaks(c) == doing[c] = "plain" /\ \A d \in Conns : d < c => doing[d] # "plain"

\* Run has not returned: the writer and the heartbeats live.
Running(c) == ~closed[c]

(***************************************************************************)
(* Handshake, resumption, boundTo, logout.                                 *)
(***************************************************************************)
\* The read loop ends: Run returns and Close begins.
End(c) == /\ MovesTo(c, "closing") /\ closed' = [closed EXCEPT ![c] = TRUE]
          /\ UNCHANGED <<key, userOf, channels, at>>

Disconnect(c) == /\ doing[c] \in {"ready", "zeroed"}
                 /\ End(c)
                 /\ UNCHANGED <<subVars, keyVars, presVars, updVars, binds, gwFaults>>

\* The handshake's last step stores the new key before it confirms it.
Handshake(c) ==
  /\ Speaks(c)
  /\ \/ \E k \in AuthKeys : /\ \A d \in Conns : key[d] # k
                            /\ stored' = stored \union {k}
                            /\ key' = [key EXCEPT ![c] = k]
        /\ MovesTo(c, "ready")
        /\ UNCHANGED <<userOf, channels, at, closed, gwFaults>>
     \/ GwFault /\ End(c) /\ UNCHANGED stored
  /\ UNCHANGED <<boundTo, subVars, presVars, updVars, binds>>

\* A client presents the key of an earlier connection: SessionStore.Load.
Resume(c) ==
  /\ Speaks(c)
  /\ \E k \in {key[d] : d \in Conns} \ {Nobody} :
       \/ /\ k \in stored
          /\ key' = [key EXCEPT ![c] = k] /\ MovesTo(c, "loaded")
          /\ UNCHANGED <<userOf, channels, at, closed, gwFaults>>
       \/ k \notin stored /\ End(c) /\ UNCHANGED gwFaults
       \/ GwFault /\ End(c)
  /\ UNCHANGED <<subVars, keyVars, presVars, updVars, binds>>

\* LoadBinding; a missing or unreadable binding leaves the session unbound.
LoadBinding(c) ==
  /\ doing[c] = "loaded"
  /\ \/ /\ boundTo[key[c]] # Nobody
        /\ userOf' = [userOf EXCEPT ![c] = boundTo[key[c]]]
        /\ MovesTo(c, "attach") /\ UNCHANGED gwFaults
     \/ boundTo[key[c]] = Nobody /\ MovesTo(c, "ready") /\ UNCHANGED <<userOf, gwFaults>>
     \/ GwFault /\ MovesTo(c, "ready") /\ UNCHANGED userOf
  /\ UNCHANGED <<key, channels, at, closed, subVars, keyVars, presVars, updVars, binds>>

\* handleAuthBind: the token resolved to u.  A failed SaveBinding is logged.
AuthBind(c, u) ==
  /\ doing[c] = "ready" /\ binds < MaxBinds /\ binds' = binds + 1
  /\ userOf' = [userOf EXCEPT ![c] = u]
  /\ \/ boundTo' = [boundTo EXCEPT ![key[c]] = u] /\ UNCHANGED gwFaults
     \/ GwFault /\ UNCHANGED boundTo
  /\ MovesTo(c, "attach")
  /\ UNCHANGED <<key, channels, at, closed, stored, subVars, presVars, updVars>>

\* handleDestroySession: the key is deleted and wiped, the connection stays
\* until its next frame fails to decrypt.
DestroySession(c) ==
  /\ doing[c] = "ready"
  /\ \/ /\ stored' = stored \ {key[c]}
        /\ boundTo' = [boundTo EXCEPT ![key[c]] = Nobody]
        /\ UNCHANGED gwFaults
     \/ GwFault /\ UNCHANGED keyVars
  /\ MovesTo(c, "zeroed")
  /\ UNCHANGED <<key, userOf, channels, at, closed, subVars, presVars, updVars, binds>>

(***************************************************************************)
(* attachIdentity, subscribe and Add; unsubscribe and Remove; Close.       *)
(***************************************************************************)
\* Register for the user's channel, unless the session already has it.
Attach(c) ==
  LET u == userOf[c] IN
  /\ doing[c] = "attach"
  /\ IF u \in channels[c]
       THEN MovesTo(c, "online") /\ UNCHANGED <<channels, at, registry>>
       ELSE /\ channels' = [channels EXCEPT ![c] = @ \union {u}]
            /\ registry' = [registry EXCEPT ![u] = @ \union {c}]
            /\ at' = [at EXCEPT ![c] = u]
            /\ MovesTo(c, "add")
  /\ UNCHANGED <<key, userOf, closed, refs, subscribed, crossed, keyVars, presVars, updVars,
                 binds, gwFaults>>

\* Mutant of AddRef: looks at the count it has just raised.
AddRefLate(c) ==
  /\ doing[c] = "add"
  /\ refs' = [refs EXCEPT ![at[c]] = @ + 1]
  /\ MovesTo(c, IF refs'[at[c]] > 0 THEN "online" ELSE "subscribe")
  /\ UNCHANGED <<key, userOf, channels, at, closed, registry, subscribed, crossed, keyVars,
                 presVars, updVars, binds, gwFaults>>

\* Subscription.Add up to its unlock.
AddRef(c) ==
  /\ doing[c] = "add"
  /\ refs' = [refs EXCEPT ![at[c]] = @ + 1]
  /\ MovesTo(c, IF refs[at[c]] > 0 THEN "online" ELSE "subscribe")
  /\ UNCHANGED <<key, userOf, channels, at, closed, registry, subscribed, crossed, keyVars,
                 presVars, updVars, binds, gwFaults>>

\* The SUBSCRIBE; when it fails Add gives its reference back, and the caller
\* unsubscribes, which gives it back again.
Subscribe(c) ==
  LET u == at[c] IN
  /\ doing[c] = "subscribe"
  /\ \/ /\ subscribed' = [subscribed EXCEPT ![u] = TRUE]
        /\ MovesTo(c, "online") /\ UNCHANGED <<registry, refs, gwFaults>>
     \/ /\ GwFault
        /\ refs' = [refs EXCEPT ![u] = @ - 1]
        /\ registry' = [registry EXCEPT ![u] = @ \ {c}]
        /\ MovesTo(c, "unref") /\ UNCHANGED subscribed
  /\ UNCHANGED <<key, userOf, channels, at, closed, crossed, keyVars, presVars, updVars, binds>>

\* Presence.Online, advisory, and the detached presence event.
Online(c) ==
  /\ doing[c] = "online"
  /\ \/ presence' = presence \union {<<userOf[c], key[c]>>} /\ UNCHANGED gwFaults
     \/ GwFault /\ UNCHANGED presence
  /\ events' = events \union {<<c, userOf[c], key[c], "online">>}
  /\ MovesTo(c, "ready")
  /\ UNCHANGED <<key, userOf, channels, at, closed, subVars, keyVars, updVars, binds>>

\* Close takes the next channel: unsubscribe up to its unlock.
CloseChannel(c) ==
  /\ doing[c] = "closing"
  /\ \E u \in channels[c] :
       /\ at' = [at EXCEPT ![c] = u]
       /\ registry' = [registry EXCEPT ![u] = @ \ {c}]
  /\ MovesTo(c, "unref")
  /\ UNCHANGED <<key, userOf, channels, closed, refs, subscribed, crossed, keyVars, presVars,
                 updVars, binds, gwFaults>>

\* The channel is done with; a failed attach goes back to the read loop.
Released(c) == /\ channels' = [channels EXCEPT ![c] = @ \ {at[c]}]
               /\ MovesTo(c, IF closed[c] THEN "closing" ELSE "ready")
               /\ at' = [at EXCEPT ![c] = Nobody]

\* Subscription.Remove up to its unlock.  After a failed Add the reference it
\* drops, if there is one, is another session's.
Unref(c) ==
  LET n == refs[at[c]] IN
  /\ doing[c] = "unref"
  /\ refs' = [refs EXCEPT ![at[c]] = IF n <= 1 THEN 0 ELSE n - 1]
  /\ IF n <= 1 THEN MovesTo(c, "unsub") /\ UNCHANGED <<channels, at>> ELSE Released(c)
  /\ crossed' = [crossed EXCEPT ![at[c]] = @ \/ (~closed[c] /\ n > 0)]
  /\ UNCHANGED <<key, userOf, closed, registry, subscribed, keyVars, presVars, updVars,
                 binds, gwFaults>>

\* The UNSUBSCRIBE, after the lock was released.
Unsub(c) ==
  /\ doing[c] = "unsub"
  /\ subscribed' = [subscribed EXCEPT ![at[c]] = FALSE]
  /\ crossed' = [crossed EXCEPT ![at[c]] = @ \/ refs[at[c]] > 0]
  /\ Released(c)
  /\ UNCHANGED <<key, userOf, closed, registry, refs, keyVars, presVars, updVars, binds,
                 gwFaults>>

\* Presence.Offline, the presence event, close(out).
CloseEnd(c) ==
  /\ doing[c] = "closing" /\ channels[c] = {}
  /\ IF userOf[c] = Nobody THEN UNCHANGED <<presVars, gwFaults>>
     ELSE /\ \/ presence' = presence \ {<<userOf[c], key[c]>>} /\ UNCHANGED gwFaults
             \/ GwFault /\ UNCHANGED presence
          /\ events' = events \union {<<c, userOf[c], key[c], "offline">>}
  /\ MovesTo(c, "gone")
  /\ out' = [out EXCEPT ![c] = <<>>] /\ userOf' = [userOf EXCEPT ![c] = Nobody]
  /\ UNCHANGED <<key, channels, at, closed, subVars, keyVars, podq, cur, published,
                 binds>>

(***************************************************************************)
(* Presence: heartbeats, TTLs, and the presence-service's consumer.        *)
(***************************************************************************)
\* Mutant of Heartbeat: extends the TTL of what is there, adds nothing.
HeartbeatExpireOnly(c) == Running(c) /\ userOf[c] # Nobody /\ UNCHANGED gwVars

Heartbeat(c) ==
  /\ Running(c) /\ userOf[c] # Nobody
  /\ presence' = presence \union {<<userOf[c], key[c]>>}
  /\ UNCHANGED <<sessVars, subVars, keyVars, events, updVars, binds, gwFaults>>

\* The TTL is the hash's: it runs out when no device of u is heard of, or when
\* heartbeats keep failing.
ExpirePresence(u) ==
  LET entries == {e \in presence : e[1] = u} IN
  /\ entries # {}
  /\ IF \E c \in Conns : Running(c) /\ userOf[c] = u THEN GwFault ELSE UNCHANGED gwFaults
  /\ presence' = presence \ entries
  /\ UNCHANGED <<sessVars, subVars, keyVars, events, updVars, binds>>

\* presence-service handleEvent, late and in any order: the gateway publishes
\* from detached goroutines.  A record may come twice; publishing may fail.
ApplyEvent(e) ==
  /\ \/ /\ presence' = (IF e[4] = "online" THEN presence \union {<<e[2], e[3]>>}
                                             ELSE presence \ {<<e[2], e[3]>>})
        /\ \/ events' = events \ {e} /\ UNCHANGED gwFaults
           \/ GwFault /\ UNCHANGED events
     \/ GwFault /\ events' = events \ {e} /\ UNCHANGED presence
  /\ UNCHANGED <<sessVars, subVars, keyVars, updVars, binds>>

(***************************************************************************)
(* Updates.                                                                *)
(***************************************************************************)
\* PUBLISH reaches subscribers only; pump drops what the queue cannot hold.
PublishUpdate(u) ==
  /\ published < MaxUpdates /\ published' = published + 1
  /\ podq' = IF subscribed[u] /\ Len(podq) < QueueSize
               THEN Append(podq, [u |-> u, n |-> published']) ELSE podq
  /\ UNCHANGED <<sessVars, subVars, keyVars, presVars, cur, out, binds, gwFaults>>

\* What is left to fan out of update n.
FanOut(n, targets) == IF targets = {} THEN Nobody
                      ELSE [n |-> n, targets |-> targets, sending |-> Nobody]

\* Mutant of Dispatch: takes the newest update first.
DispatchNewest ==
  /\ cur = Nobody /\ podq # <<>>
  /\ LET m == podq[Len(podq)] IN cur' = FanOut(m.n, registry[m.u])
  /\ podq' = SubSeq(podq, 1, Len(podq) - 1)
  /\ UNCHANGED <<sessVars, subVars, keyVars, presVars, out, published, binds, gwFaults>>

\* dispatchUpdates copies the sessions under the lock and lets it go.
Dispatch ==
  /\ cur = Nobody /\ podq # <<>>
  /\ LET m == Head(podq) IN cur' = FanOut(m.n, registry[m.u])
  /\ podq' = Tail(podq)
  /\ UNCHANGED <<sessVars, subVars, keyVars, presVars, out, published, binds, gwFaults>>

\* Enqueue's check of closed.
EnqueueCheck ==
  /\ cur # Nobody /\ cur.sending = Nobody
  /\ \E c \in cur.targets :
       cur' = IF closed[c] THEN FanOut(cur.n, cur.targets \ {c}) ELSE [cur EXCEPT !.sending = c]
  /\ UNCHANGED <<sessVars, subVars, keyVars, presVars, podq, out, published, binds, gwFaults>>

\* The pod is gone: its connections drop, Redis keeps what it has.
PodGone ==
  /\ doing' = [c \in Conns |-> IF doing[c] = "plain" THEN "plain" ELSE "gone"]
  /\ closed' = [c \in Conns |-> doing[c] # "plain"]
  /\ channels' = [c \in Conns |-> {}] /\ at' = [c \in Conns |-> Nobody]
  /\ registry' = [u \in Users |-> {}] /\ refs' = [u \in Users |-> 0]
  /\ subscribed' = [u \in Users |-> FALSE] /\ crossed' = [u \in Users |-> FALSE]
  /\ podq' = <<>> /\ cur' = Nobody /\ out' = [c \in Conns |-> <<>>]
  /\ userOf' = [c \in Conns |-> Nobody]
  /\ UNCHANGED <<key, keyVars, presVars, published, binds>>

\* Enqueue's send: a full queue drops the update, a closed one panics.
EnqueueSend ==
  /\ cur # Nobody /\ cur.sending # Nobody
  /\ LET c == cur.sending IN
       \/ /\ doing[c] # "gone"
          /\ out' = IF Len(out[c]) < OutSize THEN [out EXCEPT ![c] = Append(@, cur.n)] ELSE out
          /\ cur' = FanOut(cur.n, cur.targets \ {c})
          /\ UNCHANGED <<sessVars, subVars, keyVars, presVars, podq, published, binds>>
       \/ doing[c] = "gone" /\ PodGone
  /\ UNCHANGED gwFaults

\* writeLoop.
WriteUpdate(c) ==
  /\ Running(c) /\ out[c] # <<>>
  /\ out' = [out EXCEPT ![c] = Tail(@)]
  /\ UNCHANGED <<sessVars, subVars, keyVars, presVars, podq, cur, published, binds, gwFaults>>

PodCrash == GwFault /\ PodGone
-----------------------------------------------------------------------------
\* A connection's own calls, once begun.
Step(c) == \/ LoadBinding(c) \/ Attach(c) \/ AddRef(c) \/ Subscribe(c) \/ Online(c)
           \/ CloseChannel(c) \/ Unref(c) \/ Unsub(c) \/ CloseEnd(c)

GwNext == \/ \E c \in Conns : \/ Handshake(c) \/ Resume(c) \/ Disconnect(c)
                              \/ DestroySession(c) \/ Step(c) \/ Heartbeat(c) \/ WriteUpdate(c)
                              \/ \E u \in Users : AuthBind(c, u)
          \/ \E u \in Users : ExpirePresence(u) \/ PublishUpdate(u)
          \/ \E e \in events : ApplyEvent(e)
          \/ Dispatch \/ EnqueueCheck \/ EnqueueSend \/ PodCrash

GwSpec == GwInit /\ [][GwNext]_gwVars

\* Calls that began return, tickers tick, Redis expires keys and the consumer
\* consumes.
GwFairSpec == /\ GwSpec
              /\ \A c \in Conns : WF_gwVars(Step(c)) /\ WF_gwVars(Heartbeat(c))
              /\ \A u \in Users : WF_gwVars(ExpirePresence(u))
              /\ WF_gwVars(\E e \in events : ApplyEvent(e))
-----------------------------------------------------------------------------
Labels == {"plain", "loaded", "ready", "attach", "add", "subscribe", "online",
           "zeroed", "closing", "unref", "unsub", "gone"}

GwTypeOK == /\ doing \in [Conns -> Labels] /\ closed \in [Conns -> BOOLEAN]
            /\ key \in [Conns -> AuthKeys \union {Nobody}]
            /\ userOf \in [Conns -> Users \union {Nobody}]
            /\ channels \in [Conns -> SUBSET Users]
            /\ at \in [Conns -> Users \union {Nobody}]
            /\ registry \in [Users -> SUBSET Conns] /\ refs \in [Users -> Int]
            /\ subscribed \in [Users -> BOOLEAN] /\ crossed \in [Users -> BOOLEAN]

\* A call on channel u is in progress on c.
Busy(c, u) == at[c] = u /\ doing[c] \in {"add", "subscribe", "unref", "unsub"}

\* The registry the fan-out reads is exact: a session is in it for the channels
\* it holds and no others, so a closed session is in it for none, whichever
\* way attachIdentity failed and Close interleaved with other sessions.
RegistryIsExact == \A c \in Conns, u \in Users :
  /\ c \in registry[u] => u \in channels[c] /\ doing[c] # "gone"
  /\ u \in channels[c] /\ ~Busy(c, u) => c \in registry[u]

\* unsubscribe: "dropping the Redis subscription when the last interested
\* session goes away": no channel stays subscribed for nobody, whatever the
\* order of Adds, failed Adds and Removes.
NoSubscriptionLeak == \A u \in Users :
  (registry[u] = {} /\ \A c \in Conns : ~Busy(c, u)) => ~subscribed[u] /\ refs[u] = 0

\* A registered session is subscribed, unless its subscription was dropped under
\* it: an UNSUBSCRIBE sent after the lock was released met a new reference, or a
\* failed Add gave back its reference twice, the second time another session's.
\* Those are the only two ways to lose it.
SubscribedUnlessCrossed == \A c \in Conns, u \in Users :
  (c \in registry[u] /\ ~crossed[u] /\ \A d \in Conns : ~Busy(d, u)) => subscribed[u]

\* "This is a single goroutine on purpose": what waits in a session's queue is
\* older than the update being fanned out to it, and that is older than what the
\* pod still holds, so that a client sees updates in the order they were
\* published, whatever is dropped on the way.
DeliveredInOrder ==
  LET waiting(c) == out[c] \o (IF cur # Nobody /\ c \in cur.targets THEN <<cur.n>> ELSE <<>>)
                           \o [i \in 1..Len(podq) |-> podq[i].n]
  IN \A c \in Conns : \A i, j \in 1..Len(waiting(c)) : i < j => waiting(c)[i] < waiting(c)[j]

\* Presence "self-healing": when connections stop coming and going a user
\* shows as online exactly when one of their connections lives, although the
\* close of an old connection, a late presence event or a dead pod wrote over
\* what was right.
PresenceConverges == <>[](\A u \in Users :
  (\E e \in presence : e[1] = u) <=> (\E c \in Conns : Running(c) /\ userOf[c] = u))

\* What dispatchUpdates reads and what Redis sends agree with the sessions that
\* live: the registry is exact, no channel is subscribed for nobody, and a
\* registered session misses its channel in the two named ways only.
RoutesExact == GwTypeOK /\ RegistryIsExact /\ NoSubscriptionLeak /\ SubscribedUnlessCrossed
=============================================================================
