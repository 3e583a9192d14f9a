---------------------------- MODULE UdpTransport -----------------------------
(***************************************************************************)
(* The UDP transport: one client, the datagrams between it and a pod, and  *)
(* the pod's listener.  The goroutine that demultiplexes datagrams, the    *)
(* reaper and the handler of each connection the client's id ever had      *)
(* interleave.  Datagrams are lost, duplicated, delayed and reordered, and *)
(* the client's address changes.                                           *)
(***************************************************************************)
EXTENDS Integers, Sequences, FiniteSets

CONSTANTS Addrs, NoAddr,  \* addresses the client's NAT gives it
          Home,           \* the one it dials from
          PartCap,        \* the reassemblies a udpConn holds at a time
          Budgets         \* bounds, one record for each behaviour to explore: gens,
                          \* connections opened under the client's id; frames, written by
                          \* each end; moves of the client's address; losses of datagrams,
                          \* duplicates and late answers

ASSUME UdpAssumption ==
  /\ Home \in Addrs /\ NoAddr \notin Addrs
  /\ PartCap \in Nat
  /\ Budgets \subseteq [gens : Nat, frames : Nat, moves : Nat, losses : Nat]

VARIABLES
  udpConns,  \* every udpConn created for the id, in order
  udpReg,    \* l.conns[id]: an index into udpConns, 0 when there is none
  demux,     \* what Serve's goroutine does
  up, down,  \* datagrams in flight
  peer,      \* the UDPClient
  left,      \* what is left of the bounds
  panicked,  \* history: 0, or the index of the connection a send to whose closed channel ended the pod
  answered,  \* history: addresses at which the client received a challenge
  got        \* history: frames ReadFrame returned, at either end

udpVars == <<udpConns, udpReg, demux, up, down, peer, left, panicked, answered, got>>

InCap == 1                          \* the capacity of udpConn.in and UDPClient.in
Idle == [at |-> "idle"]

\* Reassembly buffers: for a frame's number the fragments held, the received
\* counter and the total its first datagram announced.
NoParts == [m \in {} |-> {}]

NewUdpConn(a) ==
  [remote |-> a, tok |-> 0, chalAddr |-> NoAddr, age |-> 2, parts |-> NoParts,
   in |-> <<>>, st |-> "open", hdl |-> "run"]

\* DialUDP: the hello is on its way.
UdpInit ==
  /\ udpConns = <<>> /\ udpReg = 0 /\ demux = Idle
  /\ up = {[kind |-> "hello", from |-> Home, msg |-> 0]} /\ down = {}
  /\ peer = [addr |-> Home, alive |-> TRUE, parts |-> NoParts, in |-> <<>>, echo |-> 0]
  /\ left \in Budgets /\ panicked = 0 /\ answered = {} /\ got = {}

Spend(what) == left[what] > 0 /\ left' = [left EXCEPT ![what] = @ - 1]
Lossy == Spend("losses")
Live == panicked = 0
SetConn(i, c) == udpConns' = [udpConns EXCEPT ![i] = c]

(***************************************************************************)
(* Reassembly, as both ends do it.                                         *)
(***************************************************************************)
Part(parts, d) ==
  IF d.msg \in DOMAIN parts THEN parts[d.msg] ELSE [frags |-> {}, received |-> 0, total |-> d.total]

\* Mutant of AddFrag: a repeated fragment is counted again.
AddFragCounting(p, f) == [p EXCEPT !.frags = @ \union {f}, !.received = @ + 1]

\* A fragment already held is not counted again.
AddFrag(p, f) ==
  IF f \in p.frags THEN p ELSE [p EXCEPT !.frags = @ \union {f}, !.received = @ + 1]

\* What a data datagram does to the buffers: the buffers after it, and the
\* fragments of the frame it completes.
Reassemble(parts, d) ==
  LET p == AddFrag(Part(parts, d), d.frag)
      others == DOMAIN parts \ {d.msg}
  IN IF d.total = 1 THEN [parts |-> parts, frame |-> {d.frag}]
     ELSE IF p.received = p.total THEN [parts |-> [m \in others |-> parts[m]], frame |-> p.frags]
     ELSE [parts |-> [m \in others \union {d.msg} |-> IF m = d.msg THEN p ELSE parts[m]], frame |-> {}]

\* A udpConn begins no further reassembly at its cap, and adds no fragment
\* of a different total.
Refused(parts, d) ==
  /\ d.total > 1
  /\ IF d.msg \in DOMAIN parts THEN parts[d.msg].total # d.total
     ELSE Cardinality(DOMAIN parts) >= PartCap

\* The inbound channel of either end drops what does not fit.
Offer(in, d, frame) ==
  IF frame # {} /\ Len(in) < InCap
  THEN Append(in, [msg |-> d.msg, total |-> d.total, frags |-> frame]) ELSE in

(***************************************************************************)
(* The listener's goroutine.                                               *)
(***************************************************************************)
\* ReadFromUDP and the lookup: a hello opens a connection and starts its
\* handler; a datagram of an unknown connection is dropped.
Lookup(d) ==
  /\ Live /\ demux = Idle /\ d \in up
  /\ up' = up \ {d}
  /\ \/ /\ udpReg # 0
        /\ demux' = [at |-> "hold", conn |-> udpReg, dgram |-> d,
                     opened |-> udpConns[udpReg].st # "closed"]
        /\ UNCHANGED <<udpConns, udpReg, left>>
     \/ /\ udpReg = 0 /\ d.kind = "hello" /\ Spend("gens")
        /\ udpConns' = Append(udpConns, NewUdpConn(d.from))
        /\ udpReg' = Len(udpConns) + 1
        /\ demux' = [at |-> "hold", conn |-> Len(udpConns) + 1, dgram |-> d, opened |-> TRUE]
     \/ /\ udpReg = 0 /\ d.kind # "hello"
        /\ UNCHANGED <<udpConns, udpReg, demux, left>>
  /\ UNCHANGED <<down, peer, panicked, answered, got>>

\* The pod is at MaxConnections: the hello opens nothing.
RefuseHello(d) ==
  /\ Live /\ demux = Idle /\ d \in up /\ udpReg = 0 /\ d.kind = "hello" /\ Lossy
  /\ up' = up \ {d}
  /\ UNCHANGED <<udpConns, udpReg, demux, down, peer, panicked, answered, got>>

\* Mutant of BeginMigration: no new challenge while one is pending.
BeginMigrationOnce(c, a) ==
  IF a = c.remote \/ c.age = 0 \/ c.chalAddr # NoAddr THEN c
  ELSE [c EXCEPT !.tok = c.tok + 1, !.chalAddr = a, !.age = 0]

\* beginMigration: at most one challenge a second, a new token each time.
BeginMigration(c, a) ==
  IF a = c.remote \/ c.age = 0 THEN c
  ELSE [c EXCEPT !.tok = c.tok + 1, !.chalAddr = a, !.age = 0]

\* completeMigration: a challenge is pending, is not older than five seconds,
\* was sent to this address, and the token is the one sent.
CompleteMigration(c, d) ==
  IF c.chalAddr = NoAddr \/ c.age = 2 \/ c.chalAddr # d.from \/ c.tok # d.tok THEN c
  ELSE [c EXCEPT !.remote = d.from, !.chalAddr = NoAddr]

\* onDatagram on the connection that was looked up.  Close, and a send to a
\* channel that a Close of another goroutine closed, are told apart.
OnDatagram ==
  /\ Live /\ demux.at = "hold"
  /\ LET i == demux.conn
         d == demux.dgram
         c == BeginMigration(udpConns[i], d.from)
         r == IF d.kind # "data" \/ Refused(udpConns[i].parts, d) THEN [parts |-> udpConns[i].parts, frame |-> {}]
              ELSE Reassemble(udpConns[i].parts, d)
     IN CASE d.kind = "close" ->
               /\ demux' = [at |-> "closing", conn |-> i]
               /\ SetConn(i, [udpConns[i] EXCEPT !.st = IF @ = "open" THEN "closing" ELSE @])
               /\ UNCHANGED <<down, panicked>>
          [] d.kind = "response" ->
               /\ demux' = Idle
               /\ SetConn(i, CompleteMigration(udpConns[i], d))
               /\ UNCHANGED <<down, panicked>>
          [] OTHER ->
               LET frame == IF d.msg = 0 THEN {} ELSE r.frame
               IN /\ IF frame # {} /\ c.st # "open"
                     THEN panicked' = i /\ UNCHANGED demux
                     ELSE UNCHANGED panicked /\ demux' = Idle
                  /\ SetConn(i, IF d.msg = 0 THEN c ELSE [c EXCEPT !.parts = r.parts, !.in = Offer(@, d, frame)])
                  /\ down' = IF c.tok # udpConns[i].tok
                             THEN down \union {[kind |-> "challenge", to |-> d.from, tok |-> c.tok]}
                             ELSE down
  /\ UNCHANGED <<udpReg, up, peer, left, answered, got>>

\* The Close that a datagram asked for returned to the listener's goroutine.
DemuxClosed ==
  /\ Live /\ demux.at = "closing" /\ udpConns[demux.conn].st = "closed"
  /\ demux' = Idle
  /\ UNCHANGED <<udpConns, udpReg, up, down, peer, left, panicked, answered, got>>

(***************************************************************************)
(* Closing a connection, its handler, the reaper.                          *)
(***************************************************************************)
\* Nothing the client still sends reaches connection i: its timers run out.
Silent(i) == ~peer.alive \/ udpReg # i

\* The first half of Close, by whichever goroutine is first: closed is set
\* and the channel is closed.  The others wait for it in closeOne.
BeginClose(c) == [c EXCEPT !.st = IF @ = "open" THEN "closing" ELSE @]

\* The second half: the peer is told, the id is removed from the registry.
EndClose(i) ==
  /\ Live /\ udpConns[i].st = "closing"
  /\ SetConn(i, [udpConns[i] EXCEPT !.st = "closed"])
  /\ down' = down \union {[kind |-> "close", to |-> udpConns[i].remote]}
  /\ udpReg' = 0
  /\ UNCHANGED <<demux, up, peer, left, panicked, answered, got>>

\* The reaper drops reassemblies past their time.
Sweep(i) ==
  /\ Live /\ udpReg = i /\ udpConns[i].parts # NoParts
  /\ SetConn(i, [udpConns[i] EXCEPT !.parts = NoParts])
  /\ UNCHANGED <<udpReg, demux, up, down, peer, left, panicked, answered, got>>

\* The reaper closes a registered connection that has gone silent.
Reap(i) ==
  /\ Live /\ udpReg = i /\ Silent(i) /\ udpConns[i].st = "open"
  /\ SetConn(i, BeginClose(udpConns[i]))
  /\ UNCHANGED <<udpReg, demux, up, down, peer, left, panicked, answered, got>>

\* ReadFrame returns the next frame to the handler, which goes on, or ends
\* the session because of it.
HandlerRead(i) ==
  /\ Live /\ udpConns[i].hdl = "run" /\ udpConns[i].in # <<>>
  /\ got' = got \union {Head(udpConns[i].in)}
  /\ \/ SetConn(i, [udpConns[i] EXCEPT !.in = Tail(@)])
     \/ SetConn(i, [BeginClose(udpConns[i]) EXCEPT !.in = Tail(@), !.hdl = "closing"])
  /\ UNCHANGED <<udpReg, demux, up, down, peer, left, panicked, answered>>

\* ReadFrame fails: the connection was closed, or its idle timer fired.
ReadFails(i) == udpConns[i].st # "open" \/ (Silent(i) /\ udpConns[i].in = <<>>)

\* The handler stops reading and closes the connection it owns.
HandlerStop(i) ==
  /\ Live /\ udpConns[i].hdl = "run" /\ ReadFails(i)
  /\ SetConn(i, [BeginClose(udpConns[i]) EXCEPT !.hdl = "closing"])
  /\ UNCHANGED <<udpReg, demux, up, down, peer, left, panicked, answered, got>>

\* It returns, and the deferred remove deletes whatever the id maps to.
HandlerReturn(i) ==
  /\ Live /\ udpConns[i].hdl = "closing" /\ udpConns[i].st = "closed"
  /\ SetConn(i, [udpConns[i] EXCEPT !.hdl = "done"])
  /\ udpReg' = 0
  /\ UNCHANGED <<demux, up, down, peer, left, panicked, answered, got>>

\* WriteFrame: every fragment goes to the address read once.
ServerWrite(i) ==
  /\ Live /\ udpConns[i].hdl = "run" /\ udpConns[i].st = "open" /\ Spend("frames")
  /\ \E t \in 1..2 :
       down' = down \union {[kind |-> "data", to |-> udpConns[i].remote, msg |-> left.frames,
                             total |-> t, frag |-> f] : f \in 1..t}
  /\ UNCHANGED <<udpConns, udpReg, demux, up, peer, panicked, answered, got>>

\* A second passes for the pending challenge, and then the five.
SecondPasses(i) ==
  /\ Live /\ udpConns[i].age < 2
  /\ \/ /\ (\A d \in down : d.kind # "challenge") /\ (\A d \in up : d.kind # "response")
        /\ peer.echo = 0 /\ (demux.at = "hold" => demux.dgram.kind # "response")
        /\ UNCHANGED left
     \/ Lossy
  /\ SetConn(i, [udpConns[i] EXCEPT !.age = @ + 1])
  /\ UNCHANGED <<udpReg, demux, up, down, peer, panicked, answered, got>>

(***************************************************************************)
(* The client and the network.                                             *)
(***************************************************************************)
\* WriteFrame: a frame, or an empty keepalive (numbered 0).
Write(m, t) ==
  /\ peer.alive
  /\ up' = up \union {[kind |-> "data", from |-> peer.addr, msg |-> m, total |-> t, frag |-> f] : f \in 1..t}

ClientWrite ==
  /\ Spend("frames") /\ \E t \in 1..2 : Write(left.frames, t)
  /\ UNCHANGED <<peer, udpConns, udpReg, demux, down, panicked, answered, got>>

KeepAlive ==
  /\ \A d \in up : d.kind = "data" => d.msg # 0
  /\ Write(0, 1)
  /\ UNCHANGED <<udpConns, udpReg, demux, down, peer, left, panicked, answered, got>>

\* readLoop on the next datagram: a challenge is to be echoed, a close ends
\* the client, data is reassembled.  What is sent to an address the client
\* has left does not arrive.
ClientRecv(d) ==
  /\ d \in down /\ peer.echo = 0
  /\ down' = down \ {d}
  /\ \/ /\ (d.to # peer.addr \/ ~peer.alive) /\ UNCHANGED <<peer, answered>>
     \/ /\ d.to = peer.addr /\ peer.alive /\ d.kind = "challenge"
        /\ peer' = [peer EXCEPT !.echo = d.tok] /\ answered' = answered \union {d.to}
     \/ /\ d.to = peer.addr /\ peer.alive /\ d.kind = "close"
        /\ peer' = [peer EXCEPT !.alive = FALSE] /\ UNCHANGED answered
     \/ /\ d.to = peer.addr /\ peer.alive /\ d.kind = "data"
        /\ LET r == Reassemble(peer.parts, d)
           IN peer' = [peer EXCEPT !.parts = r.parts, !.in = Offer(@, d, r.frame)]
        /\ UNCHANGED answered
  /\ UNCHANGED <<udpConns, udpReg, demux, up, left, panicked, got>>

\* The echo leaves from the address the client has by then.
Echo ==
  /\ peer.alive /\ peer.echo # 0
  /\ up' = up \union {[kind |-> "response", from |-> peer.addr, tok |-> peer.echo]}
  /\ peer' = [peer EXCEPT !.echo = 0]
  /\ UNCHANGED <<udpConns, udpReg, demux, down, left, panicked, answered, got>>

ClientRead ==
  /\ peer.in # <<>>
  /\ got' = got \union {Head(peer.in)}
  /\ peer' = [peer EXCEPT !.in = Tail(@)]
  /\ UNCHANGED <<udpConns, udpReg, demux, up, down, left, panicked, answered>>

\* The client closes, or vanishes without a word.
ClientEnd ==
  /\ peer.alive
  /\ peer' = [peer EXCEPT !.alive = FALSE]
  /\ \/ up' = up \union {[kind |-> "close", from |-> peer.addr]}
     \/ UNCHANGED up
  /\ UNCHANGED <<udpConns, udpReg, demux, down, left, panicked, answered, got>>

Rebind(a) ==
  /\ peer.alive /\ a # peer.addr /\ Spend("moves")
  /\ peer' = [peer EXCEPT !.addr = a]
  /\ UNCHANGED <<udpConns, udpReg, demux, up, down, panicked, answered, got>>

\* The network loses a datagram, or delivers one of the client's twice.
LoseUp(d) ==
  /\ d \in up /\ Lossy /\ up' = up \ {d}
  /\ UNCHANGED <<udpConns, udpReg, demux, down, peer, panicked, answered, got>>

LoseDown(d) ==
  /\ d \in down /\ Lossy /\ down' = down \ {d}
  /\ UNCHANGED <<udpConns, udpReg, demux, up, peer, panicked, answered, got>>

Duplicate ==
  /\ demux.at = "hold" /\ demux.dgram \notin up /\ Lossy
  /\ up' = up \union {demux.dgram}
  /\ UNCHANGED <<udpConns, udpReg, demux, down, peer, panicked, answered, got>>

UdpNext ==
  \/ \E d \in up : Lookup(d) \/ RefuseHello(d) \/ LoseUp(d)
  \/ OnDatagram \/ DemuxClosed
  \/ \E i \in DOMAIN udpConns :
        EndClose(i) \/ Sweep(i) \/ Reap(i) \/ HandlerRead(i) \/ HandlerStop(i)
        \/ HandlerReturn(i) \/ ServerWrite(i) \/ SecondPasses(i)
  \/ ClientWrite \/ KeepAlive \/ Echo \/ ClientRead \/ ClientEnd
  \/ \E d \in down : ClientRecv(d) \/ LoseDown(d)
  \/ \E a \in Addrs : Rebind(a)
  \/ Duplicate

\* Goroutines run; a datagram that is not lost arrives and is read; a live
\* client pings; time passes for a challenge whose answer is not on its way.
ResponseArrives == \E d \in up : d.kind = "response" /\ Lookup(d)
KeepAliveArrives == \E d \in up : d.kind = "data" /\ d.msg = 0 /\ Lookup(d)
ChallengeArrives == \E d \in down : d.kind = "challenge" /\ ClientRecv(d)
DemuxSteps == OnDatagram \/ DemuxClosed
TimePasses == \E i \in DOMAIN udpConns : SecondPasses(i)
ConnsEnd == \E i \in DOMAIN udpConns :
  EndClose(i) \/ Reap(i) \/ HandlerRead(i) \/ HandlerStop(i) \/ HandlerReturn(i)

UdpSpec ==
  /\ UdpInit /\ [][UdpNext]_udpVars
  /\ SF_udpVars(ResponseArrives) /\ SF_udpVars(KeepAliveArrives)
  /\ WF_udpVars(ChallengeArrives) /\ WF_udpVars(DemuxSteps) /\ WF_udpVars(KeepAlive)
  /\ WF_udpVars(Echo) /\ WF_udpVars(TimePasses) /\ WF_udpVars(ConnsEnd)

(***************************************************************************)
(* Properties.                                                             *)
(***************************************************************************)
UdpTypeOK ==
  /\ udpReg \in 0..Len(udpConns) /\ panicked \in 0..Len(udpConns)
  /\ demux.at \in {"idle", "hold", "closing"}
  /\ answered \subseteq Addrs /\ peer.addr \in Addrs
  /\ \A i \in DOMAIN udpConns :
       /\ udpConns[i].remote \in Addrs /\ udpConns[i].chalAddr \in Addrs \union {NoAddr}
       /\ udpConns[i].st \in {"open", "closing", "closed"}
       /\ udpConns[i].hdl \in {"run", "closing", "done"}
       /\ Len(udpConns[i].in) <= InCap /\ Cardinality(DOMAIN udpConns[i].parts) <= PartCap

\* Every frame that ReadFrame returns, at either end, has all the fragments it
\* was written as, whatever the network lost, repeated or reordered and
\* whenever the reaper swept the buffer.
FramesIntact == \A f \in got : f.frags = 1..f.total

\* The server sends only to the address the connection was opened from, or
\* to one at which the client has received a path challenge, even while the
\* client keeps moving and old datagrams arrive late.
RemoteValidated ==
  \A i \in DOMAIN udpConns : udpConns[i].remote \in {Home} \union answered

\* The pod sends on the closed channel of a connection, and panics, only when
\* it looked the connection up before the connection's Close had returned.
PanicOnlyInsideClose == panicked # 0 => demux.opened

\* Once its address stops changing, the client's connection comes to be at
\* that address: a lost challenge or echo is made good by later datagrams.
PathConverges ==
  <>[](panicked # 0 \/ ~peer.alive \/ udpReg = 0 \/ udpConns[udpReg].remote = peer.addr)

\* When the client is gone every handler started for it ends, also that of a
\* connection that a late remove of its predecessor hid from the reaper.
HandlersEnd ==
  []<>(panicked # 0 \/ peer.alive \/ \A i \in DOMAIN udpConns : udpConns[i].hdl = "done")

\* What the transport hands up is whole, where it sends is validated, and the
\* only way it ends the pod is the named one.
UdpSafe == UdpTypeOK /\ FramesIntact /\ RemoteValidated /\ PanicOnlyInsideClose
====
