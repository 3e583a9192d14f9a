------------------------------- MODULE MCWire --------------------------------
(***************************************************************************)
(* The wire, for TLC: the UDP transport, and an MTProto session.  A        *)
(* behaviour is one of the first or one of the second; the variables of    *)
(* the other stay as they were.                                            *)
(***************************************************************************)
EXTENDS UdpTransport, MtprotoSession

VARIABLE wire

\* Two rebindings and a loss; a duplicate and a second connection under the
\* client's id; two frames.
MCBudgets == {[gens |-> 1, frames |-> 0, moves |-> 2, losses |-> 1],
              [gens |-> 2, frames |-> 1, moves |-> 0, losses |-> 1],
              [gens |-> 1, frames |-> 2, moves |-> 0, losses |-> 0]}

MCPlan(calls, rots, ticks, dups, faults, kinds) ==
  [calls |-> calls, rots |-> rots, ticks |-> ticks, dups |-> dups, faults |-> faults,
   kinds |-> kinds, faulty |-> FALSE]

\* Faults during the handshake; bind and calls; a rotation; a fault during a
\* call; a logout; a frame that comes twice, with the clock standing and not.
MCPlans == {MCPlan(0, 0, 0, 1, 1, {}),
            MCPlan(3, 0, 0, 0, 0, {"bind", "call"}),
            MCPlan(2, 1, 0, 0, 0, {"ping", "bind"}),
            MCPlan(2, 0, 0, 0, 1, {"ping"}),
            MCPlan(3, 0, 0, 0, 0, {"ping", "destroy"}),
            MCPlan(3, 0, 0, 1, 0, {"ping"}),
            MCPlan(2, 0, 2, 1, 0, {"ping"})}

wireVars == <<udpVars, sesVars, wire>>

MCInit ==
  /\ UdpInit /\ SesInit /\ wire \in {"udp", "session"}
  /\ wire # "session" => skew = 0 /\ plan = MCPlan(0, 0, 0, 1, 1, {})
  /\ wire # "udp" => left = [gens |-> 1, frames |-> 0, moves |-> 2, losses |-> 1]

MCNext ==
  /\ UNCHANGED wire
  /\ IF wire = "udp" THEN UdpNext ELSE UNCHANGED udpVars
  /\ IF wire = "session" THEN SesNext ELSE UNCHANGED sesVars

UdpIs(A) == wire = "udp" /\ A
SesIs(A) == wire = "session" /\ A

MCSpec ==
  /\ MCInit /\ [][MCNext]_wireVars
  /\ SF_udpVars(UdpIs(ResponseArrives)) /\ SF_udpVars(UdpIs(KeepAliveArrives))
  /\ WF_udpVars(UdpIs(ChallengeArrives)) /\ WF_udpVars(UdpIs(DemuxSteps))
  /\ WF_udpVars(UdpIs(KeepAlive)) /\ WF_udpVars(UdpIs(Echo))
  /\ WF_udpVars(UdpIs(TimePasses)) /\ WF_udpVars(UdpIs(ConnsEnd))
  /\ WF_sesVars(SesIs(SrvSteps)) /\ WF_sesVars(SesIs(ReaderSteps))
  /\ \A c \in Callers : WF_sesVars(SesIs(CallerSteps(c)))

\* What must happen: a connection follows its client, handlers of clients that
\* are gone end, and every Invoke returns.
WireLiveness == PathConverges /\ HandlersEnd /\ EveryInvokeEnds
====
