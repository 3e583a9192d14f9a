--------------------------- MODULE MtprotoSession ----------------------------
(***************************************************************************)
(* One MTProto connection: the handshake, the Go client with its callers   *)
(* and read loop, the gateway session's reader, its salt rotation and its  *)
(* acknowledgements, and the service behind the gateway.  Frames keep      *)
(* their order on each way.  Over UDP a frame may arrive twice; the        *)
(* connection may break, a call may fail, a clock may be wrong.            *)
(***************************************************************************)
EXTENDS Integers, Sequences, FiniteSets, SequencesExt

CONSTANTS Callers, Nobody,  \* goroutines that call Invoke
          MaxSeen,          \* MsgIDValidator.maxSeen
          Behind, Ahead,    \* the validator's window, in ticks of the clock
          Skews,            \* what the client's clock may be ahead by
          Plans             \* bounds, one record for each behaviour to explore: calls,
                            \* rotations of the salt, ticks of the clock, frames that
                            \* arrive twice, faults (and whether one has happened),
                            \* and the kinds of request made

ASSUME SessionAssumption ==
  /\ Nobody \notin Callers
  /\ MaxSeen \in Nat \ {0} /\ Behind \in Nat /\ Ahead \in Nat /\ Skews \subseteq Int
  /\ \A p \in Plans : p.calls \in Nat /\ p.kinds \subseteq {"ping", "bind", "call", "destroy"}
                      /\ ~p.faulty

VARIABLES
  link,         \* the connection is up
  toSrv, toCli, \* frames under way
  cl,           \* the Client
  inv,          \* what each caller's Invoke does
  pending,      \* Client.pending: msg_id to caller
  srv,          \* the Session, and what its reader is doing
  stored,       \* the auth key is in the session store
  seen,         \* MsgIDValidator.seen: msg_id to arrival
  pushing,      \* the salt that the rotation has stored and not yet pushed, or 0
  acks,         \* Session.pendingAcks
  now, skew, plan,
  hist          \* history: the count of ids the validator passed, the ids handled in
                \* order, the ids refused for their salt, the ids the service ran, and
                \* what Invokes returned

sesVars == <<link, toSrv, toCli, cl, inv, pending, srv, stored, seen, pushing, acks,
             now, skew, plan, hist>>

Dormant == [st |-> "idle", id |-> 0, ts |-> 0, salt |-> 0, kind |-> "ping", res |-> [kind |-> "none"]]
NoJob == [kind |-> "none"]

\* Dial: the connection is open and req_pq is sent; NewSession.
SesInit ==
  /\ link = TRUE /\ toSrv = <<[c |-> "req_pq"]>> /\ toCli = <<>>
  /\ cl = [hs |-> "res_pq", salt |-> 0, loop |-> "none", closed |-> FALSE, last |-> 0, ts |-> 0]
  /\ inv = [c \in Callers |-> Dormant] /\ pending = [i \in {} |-> Nobody]
  /\ srv = [step |-> 0, key |-> "none", salt |-> 0, bound |-> FALSE, live |-> TRUE, job |-> NoJob]
  /\ stored = FALSE /\ seen = [i \in {} |-> 0] /\ pushing = 0 /\ acks = {}
  /\ now = 0 /\ skew \in Skews /\ plan \in Plans
  /\ hist = [passed |-> 0, handled |-> <<>>, salty |-> {}, ran |-> {}, outs |-> {}]

Use(what) ==
  plan[what] > 0 /\ plan' = [plan EXCEPT ![what] = @ - 1, !.faulty = @ \/ what = "faults"]
Clock == <<now, skew>>

\* The connection ends: the reader's Run returns, the socket is closed.  What
\* the client has not read yet it may still read.
SrvOver == srv' = [srv EXCEPT !.live = FALSE, !.job = NoJob] /\ link' = FALSE

(***************************************************************************)
(* The handshake.                                                          *)
(***************************************************************************)
\* handlePlain: the reply to the frame c at the handshake's step, or the end
\* of the session.  A step out of order, the deadline, the rate limit.
PlainReply(c) ==
  CASE c = "req_pq" /\ srv.step = 0 -> "res_pq"
    [] c = "req_dh_params" /\ srv.step = 1 -> "server_dh_params"
    [] c = "set_client_dh_params" /\ srv.step = 2 -> "dh_gen_ok"
    [] OTHER -> "refused"

\* The key is stored before it is confirmed.
HandlePlain ==
  /\ srv.live /\ srv.job = NoJob /\ toSrv # <<>> /\ "c" \in DOMAIN Head(toSrv)
  /\ toSrv' = Tail(toSrv)
  /\ LET c == Head(toSrv).c
         r == PlainReply(c)
     IN \/ /\ srv.key = "none" /\ r # "refused"
           /\ srv' = [srv EXCEPT !.step = @ + 1, !.key = IF r = "dh_gen_ok" THEN "k" ELSE @,
                                 !.salt = IF r = "dh_gen_ok" THEN 1 ELSE @]
           /\ stored' = (r = "dh_gen_ok")
           /\ toCli' = Append(toCli, [c |-> r])
           /\ UNCHANGED <<link, plan>>
        \/ /\ IF srv.key # "none" \/ r = "refused" THEN UNCHANGED plan ELSE Use("faults")
           /\ SrvOver
           /\ \/ UNCHANGED toCli
              \/ srv.key = "none" /\ c # "req_pq" /\ toCli' = Append(toCli, [c |-> "handshake_error"])
           /\ UNCHANGED stored
  /\ UNCHANGED <<cl, inv, pending, seen, pushing, acks, Clock, hist>>

\* readPlainInto and the client's next step; anything else than the frame
\* expected ends Dial.
Answer == [res_pq |-> "req_dh_params", server_dh_params |-> "set_client_dh_params"]
Expects == [res_pq |-> "server_dh_params", server_dh_params |-> "dh_gen_ok"]

DialFails ==
  /\ cl' = [cl EXCEPT !.hs = "failed"] /\ link' = FALSE
  /\ UNCHANGED toSrv

ClientHandshake ==
  /\ cl.hs \in {"res_pq", "server_dh_params", "dh_gen_ok"}
  /\ \/ /\ toCli # <<>> /\ toCli' = Tail(toCli) /\ UNCHANGED plan
        /\ IF Head(toCli) # [c |-> cl.hs] THEN DialFails
           ELSE IF cl.hs = "dh_gen_ok"
           THEN cl' = [cl EXCEPT !.hs = "done", !.loop = "run"] /\ UNCHANGED <<link, toSrv>>
           ELSE /\ cl' = [cl EXCEPT !.hs = Expects[@]] /\ UNCHANGED link
                /\ toSrv' = IF link THEN Append(toSrv, [c |-> Answer[cl.hs]]) ELSE toSrv
     \/ /\ toCli = <<>> /\ UNCHANGED toCli /\ DialFails
        /\ IF link THEN Use("faults") ELSE UNCHANGED plan
  /\ UNCHANGED <<inv, pending, srv, stored, seen, pushing, acks, Clock, hist>>

(***************************************************************************)
(* The client: Invoke and the read loop.                                   *)
(***************************************************************************)
Without(f, k) == [i \in DOMAIN f \ {k} |-> f[i]]
With(f, k, v) == [i \in DOMAIN f \union {k} |-> IF i = k THEN v ELSE f[i]]
SetInv(c, r) == inv' = [inv EXCEPT ![c] = r]
Clients == <<link, toSrv, toCli, srv, stored, seen, pushing, acks, Clock>>

\* MsgIDGenerator.Next: strictly increasing, however the clock moves.
NextID == cl.last + 1

\* The id is drawn, the caller's channel registered, the message encrypted
\* with the salt known by then.
InvokeBegin(c, kind) ==
  /\ cl.loop # "none" /\ ~cl.closed /\ inv[c].st = "idle" /\ kind \in plan.kinds
  /\ Use("calls")
  /\ LET ts == IF now + skew > cl.ts THEN now + skew ELSE cl.ts
     IN /\ cl' = [cl EXCEPT !.last = NextID, !.ts = ts]
        /\ SetInv(c, [st |-> "registered", id |-> NextID, ts |-> ts, salt |-> cl.salt, kind |-> kind,
                      res |-> [kind |-> "none"]])
  /\ pending' = With(pending, NextID, c)
  /\ UNCHANGED <<Clients, hist>>

\* Invoke returns r.
Returns(c, r) ==
  /\ SetInv(c, Dormant)
  /\ hist' = [hist EXCEPT !.outs = @ \union {[id |-> inv[c].id, kind |-> inv[c].kind, r |-> r]}]

\* The frame is written when the connection is free, or the write fails.  A
\* write to a connection that is gone may succeed.
InvokeWrite(c) ==
  /\ inv[c].st = "registered"
  /\ \/ /\ SetInv(c, [inv[c] EXCEPT !.st = "waiting"])
        /\ toSrv' = IF ~link THEN toSrv
                    ELSE Append(toSrv, [id |-> inv[c].id, ts |-> inv[c].ts, salt |-> inv[c].salt, kind |-> inv[c].kind])
        /\ UNCHANGED <<pending, hist>>
     \/ /\ ~link /\ Returns(c, [kind |-> "write"])
        /\ pending' = Without(pending, inv[c].id)
        /\ UNCHANGED toSrv
  /\ UNCHANGED <<link, toCli, cl, srv, stored, seen, pushing, acks, Clock, plan>>

\* cancelPending.
GiveUp(c) == pending' = Without(pending, inv[c].id)

\* A frame that answers request i, or carries it, or ends the read loop is on
\* its way.
Underway(i) ==
  \/ \E f \in Range(toSrv) : "id" \in DOMAIN f /\ f.id = i
  \/ \E f \in Range(toCli) : "kind" \in DOMAIN f /\ (f.kind = "garbled" \/ ("id" \in DOMAIN f /\ f.id = i))
  \/ srv.job # NoJob /\ srv.job.id = i

\* RequestTimeout, or the caller's context.  It outlasts a round trip unless
\* a fault delays the answer.
TimerFires(c) ==
  /\ \/ ~Underway(inv[c].id) /\ inv[c].res.kind = "none" /\ link /\ UNCHANGED plan
     \/ Use("faults")
  /\ GiveUp(c) /\ Returns(c, [kind |-> "timeout"])

\* The select at the end of Invoke; Bind adopts the salt it is given after
\* Invoke has returned.
InvokeEnd(c) ==
  /\ inv[c].st = "waiting"
  /\ \/ TimerFires(c) /\ UNCHANGED cl
     \/ /\ cl.loop = "ended" /\ Returns(c, [kind |-> "closed"]) /\ UNCHANGED <<pending, cl, plan>>
     \/ /\ inv[c].res.kind # "none" /\ Returns(c, inv[c].res) /\ UNCHANGED <<pending, plan>>
        /\ cl' = IF inv[c].kind = "bind" /\ inv[c].res.kind = "ok"
                 THEN [cl EXCEPT !.salt = inv[c].res.salt] ELSE cl
  /\ UNCHANGED Clients

\* c's channel is the one registered for the id.
Waits(c, id) == id \in DOMAIN pending /\ pending[id] = c /\ inv[c].id = id /\ inv[c].st # "idle"

\* deliver: the answer goes to whoever is registered for the id.
Deliver(id, r) ==
  /\ pending' = Without(pending, id)
  /\ inv' = [c \in Callers |-> IF Waits(c, id) THEN [inv[c] EXCEPT !.res = r] ELSE inv[c]]

\* The read loop ends; failPending hands the error to every caller.
LoopEnds == cl' = [cl EXCEPT !.loop = "ended"]

FailPending ==
  /\ inv' = [c \in Callers |-> IF \E i \in DOMAIN pending : Waits(c, i)
                               THEN [inv[c] EXCEPT !.res = [kind |-> "failed"]] ELSE inv[c]]
  /\ pending' = [i \in {} |-> Nobody]

\* readLoop on the next frame.
ReadLoop ==
  /\ cl.loop = "run" /\ toCli # <<>> /\ toCli' = Tail(toCli)
  /\ LET f == Head(toCli)
     IN CASE "c" \in DOMAIN f \/ f.kind = "garbled" -> LoopEnds /\ FailPending
          [] f.kind = "salt" -> cl' = [cl EXCEPT !.salt = f.salt] /\ UNCHANGED <<inv, pending>>
          [] f.kind = "ack" -> UNCHANGED <<cl, inv, pending>>
          [] OTHER -> Deliver(f.id, f.r) /\ UNCHANGED cl
  /\ UNCHANGED <<link, toSrv, srv, stored, seen, pushing, acks, Clock, plan, hist>>

\* The connection is gone and everything that arrived has been read.  Nobody
\* is told of an error when the client itself closed the connection.
ClientReadFails ==
  /\ cl.loop = "run" /\ ~link /\ (toCli = <<>> \/ cl.closed)
  /\ LoopEnds
  /\ IF cl.closed THEN UNCHANGED <<inv, pending>> ELSE FailPending
  /\ UNCHANGED <<Clients, plan, hist>>

ClientClose ==
  /\ cl.loop # "none" /\ ~cl.closed /\ link /\ Use("faults")
  /\ cl' = [cl EXCEPT !.closed = TRUE] /\ link' = FALSE
  /\ UNCHANGED <<toSrv, toCli, inv, pending, srv, stored, seen, pushing, acks, Clock, hist>>

(***************************************************************************)
(* The gateway's session.                                                  *)
(***************************************************************************)
\* What reaches the client of a frame sent with the session's key.
Send(f) ==
  toCli' = IF link THEN Append(toCli, IF srv.key = "k" THEN f ELSE [kind |-> "garbled"]) ELSE toCli

\* MsgIDValidator.Check: outside the window, or seen.
Outside(f) == now - f.ts > Behind \/ f.ts - now > Ahead

\* Room for one more id: ids that arrived before the window are swept, and if
\* that frees nothing half of them go, in the order of the map.
Evict ==
  LET swept == {i \in DOMAIN seen : seen[i] >= now - Behind}
      half == IF MaxSeen \div 2 > 0 THEN MaxSeen \div 2 ELSE 1
  IN IF Cardinality(DOMAIN seen) < MaxSeen THEN {DOMAIN seen}
     ELSE IF Cardinality(swept) < MaxSeen THEN {swept}
     ELSE {k \in SUBSET swept : Cardinality(k) = Cardinality(swept) - half}

\* Mutant of Replays: room is made before the id is looked up.
ReplaysAfterEvict(f) == \A k \in Evict : f.id \in k

Replays(f) == f.id \in DOMAIN seen

\* queueAck, after the envelope was checked.
Acked(f) == acks' = IF srv.salt # 0 /\ f.salt # srv.salt THEN acks ELSE acks \union {f.id}

\* handleFrame up to dispatch: the frame is decrypted, its id and then its
\* salt are checked; the answer to a refused one is yet to be sent.
HandleFrame ==
  /\ srv.live /\ srv.job = NoJob /\ toSrv # <<>> /\ "id" \in DOMAIN Head(toSrv)
  /\ toSrv' = Tail(toSrv)
  /\ LET f == Head(toSrv)
     IN \/ srv.key # "k" /\ SrvOver /\ UNCHANGED <<seen, acks, hist>>
        \/ /\ srv.key = "k" /\ (Outside(f) \/ Replays(f))
           /\ srv' = [srv EXCEPT !.job = [kind |-> "send", id |-> f.id,
                       msg |-> [kind |-> "bad_msg", id |-> f.id, r |-> [kind |-> "bad_msg"]]]]
           /\ UNCHANGED <<link, seen, acks, hist>>
        \/ /\ srv.key = "k" /\ ~Outside(f) /\ ~Replays(f)
           /\ \E kept \in Evict :
                seen' = [i \in kept \union {f.id} |-> IF i = f.id THEN now ELSE seen[i]]
           /\ Acked(f)
           /\ IF srv.salt # 0 /\ f.salt # srv.salt
              THEN /\ srv' = [srv EXCEPT !.job = [kind |-> "send", id |-> f.id,
                               msg |-> [kind |-> "salt", salt |-> srv.salt]]]
                   /\ hist' = [hist EXCEPT !.passed = @ + 1, !.salty = @ \union {f.id}]
              ELSE /\ srv' = [srv EXCEPT !.job = [kind |-> f.kind, id |-> f.id]]
                   /\ hist' = [hist EXCEPT !.passed = @ + 1, !.handled = Append(@, f.id)]
           /\ UNCHANGED link
  /\ UNCHANGED <<toCli, cl, inv, pending, stored, pushing, Clock, plan>>

\* Mutant of Reply: the answer does not name the request.
ReplyUnnamed(r) == [kind |-> "send", id |-> srv.job.id, msg |-> [kind |-> "reply", id |-> 0, r |-> r]]

\* rpcResult, rpcError, pong: the answer to the request the reader holds.
Reply(r) == [kind |-> "send", id |-> srv.job.id,
             msg |-> [kind |-> "reply", id |-> srv.job.id, r |-> r]]
Ok == [kind |-> "ok", for |-> srv.job.id, salt |-> srv.salt]
Error == [kind |-> "error"]

\* What the service behind the gateway did with a call, and the answer made of
\* it: done, refused with a status or told to wait, or no answer in time.
Upstream ==
  {[ran |-> TRUE, r |-> Ok], [ran |-> FALSE, r |-> Error], [ran |-> TRUE, r |-> Error]}

CallOutcomes == IF srv.bound THEN Upstream ELSE {[ran |-> FALSE, r |-> Error]}

\* The message the reader holds.
HandlePing ==
  /\ srv.job.kind = "ping" /\ srv' = [srv EXCEPT !.job = Reply(Ok)]
  /\ UNCHANGED <<stored, hist>>

\* The token is resolved, the session attached and bound, or an error.
HandleAuthBind ==
  /\ srv.job.kind = "bind"
  /\ srv' \in {[srv EXCEPT !.bound = TRUE, !.job = Reply(Ok)], [srv EXCEPT !.job = Reply(Error)]}
  /\ UNCHANGED <<stored, hist>>

HandleAPI ==
  /\ srv.job.kind = "call"
  /\ \E o \in CallOutcomes :
       /\ srv' = [srv EXCEPT !.job = Reply(o.r)]
       /\ hist' = IF o.ran THEN [hist EXCEPT !.ran = @ \union {srv.job.id}] ELSE hist
  /\ UNCHANGED stored

\* The key is deleted and wiped, then the answer is sent.
HandleDestroySession ==
  /\ srv.job.kind = "destroy"
  /\ stored' = FALSE /\ srv' = [srv EXCEPT !.key = "zero", !.job = Reply(Ok)]
  /\ UNCHANGED hist

Dispatch ==
  /\ srv.live
  /\ HandlePing \/ HandleAuthBind \/ HandleAPI \/ HandleDestroySession
  /\ UNCHANGED <<link, toSrv, toCli, cl, inv, pending, seen, pushing, acks, Clock, plan>>

\* The reader sends what it has made.
SendReply ==
  /\ srv.live /\ srv.job.kind = "send"
  /\ Send(srv.job.msg) /\ srv' = [srv EXCEPT !.job = NoJob]
  /\ UNCHANGED <<link, toSrv, cl, inv, pending, stored, seen, pushing, acks, Clock, plan, hist>>

\* heartbeatLoop: a new salt is stored, then pushed.
Rotate ==
  /\ srv.live /\ srv.key # "none" /\ pushing = 0 /\ Use("rots")
  /\ srv' = [srv EXCEPT !.salt = @ + 1] /\ pushing' = srv.salt + 1
  /\ UNCHANGED <<link, toSrv, toCli, cl, inv, pending, stored, seen, acks, Clock, hist>>

PushSalt ==
  /\ srv.live /\ pushing # 0 /\ pushing' = 0
  /\ Send([kind |-> "salt", salt |-> pushing])
  /\ UNCHANGED <<link, toSrv, cl, inv, pending, srv, stored, seen, acks, Clock, plan, hist>>

FlushAcks ==
  /\ srv.live /\ acks # {} /\ acks' = {}
  /\ Send([kind |-> "ack", ids |-> acks])
  /\ UNCHANGED <<link, toSrv, cl, inv, pending, srv, stored, seen, pushing, Clock, plan, hist>>

\* ReadFrame fails.
SrvReadFails ==
  /\ srv.live /\ ~link /\ srv.job = NoJob
  /\ SrvOver
  /\ UNCHANGED <<toSrv, toCli, cl, inv, pending, stored, seen, pushing, acks, Clock, plan, hist>>

(***************************************************************************)
(* The network and the clock.                                              *)
(***************************************************************************)
Break ==
  /\ link /\ Use("faults") /\ link' = FALSE /\ toCli' \in {toCli, <<>>}
  /\ UNCHANGED <<toSrv, cl, inv, pending, srv, stored, seen, pushing, acks, Clock, hist>>

\* A frame arrives a second time, after those already under way.
Twice ==
  /\ toSrv # <<>> /\ Use("dups") /\ toSrv' = Append(toSrv, Head(toSrv))
  /\ UNCHANGED <<link, toCli, cl, inv, pending, srv, stored, seen, pushing, acks, Clock, hist>>

Tick ==
  /\ Use("ticks") /\ now' = now + 1
  /\ UNCHANGED <<link, toSrv, toCli, cl, inv, pending, srv, stored, seen, pushing, acks, skew, hist>>

SesNext ==
  \/ HandlePlain \/ ClientHandshake
  \/ \E c \in Callers : (\E k \in plan.kinds : InvokeBegin(c, k)) \/ InvokeWrite(c) \/ InvokeEnd(c)
  \/ ReadLoop \/ ClientReadFails \/ ClientClose
  \/ HandleFrame \/ Dispatch \/ SendReply \/ Rotate \/ PushSalt \/ FlushAcks \/ SrvReadFails
  \/ Break \/ Twice \/ Tick

\* Goroutines run, frames on a connection that is up arrive, timers fire.
SrvSteps == HandleFrame \/ Dispatch \/ SendReply \/ HandlePlain \/ SrvReadFails
ReaderSteps == ReadLoop \/ ClientReadFails
CallerSteps(c) == InvokeWrite(c) \/ InvokeEnd(c)

SesSpec ==
  /\ SesInit /\ [][SesNext]_sesVars
  /\ WF_sesVars(SrvSteps) /\ WF_sesVars(ReaderSteps)
  /\ \A c \in Callers : WF_sesVars(CallerSteps(c))

(***************************************************************************)
(* Properties.                                                             *)
(***************************************************************************)
SesTypeOK ==
  /\ cl.hs \in {"res_pq", "server_dh_params", "dh_gen_ok", "done", "failed"}
  /\ cl.loop \in {"none", "run", "ended"} /\ srv.key \in {"none", "k", "zero"}
  /\ srv.step \in 0..3 /\ Cardinality(DOMAIN seen) <= MaxSeen
  /\ \A c \in Callers : inv[c].st \in {"idle", "registered", "waiting"}

\* A client whose handshake succeeded holds a key the session has and every
\* other pod can load, until the session is destroyed.
KeyConfirmedIsStored == cl.hs = "done" => srv.key # "none" /\ (stored \/ srv.key = "zero")

\* An Invoke that returns a result returns the result of its own request, and
\* of a call only when the service ran it.
AnswersAreOwn ==
  \A o \in hist.outs : o.r.kind = "ok" => o.r.for = o.id /\ (o.kind = "call" => o.id \in hist.ran)

\* A message is handled twice only when the validator had to forget it: after
\* it passed as many other ids as it remembers, and one more.
NoReplayWithinWindow ==
  \A i, j \in DOMAIN hist.handled :
    i # j /\ hist.handled[i] = hist.handled[j] => hist.passed >= MaxSeen + 2

\* Whatever is acknowledged was handled: the client stops resending it.
AckedWasHandled ==
  \A f \in Range(toCli) \union {[kind |-> "ack", ids |-> acks]} :
    "kind" \in DOMAIN f /\ f.kind = "ack" => f.ids \subseteq Range(hist.handled)

\* While the read loop runs an entry of pending belongs to an Invoke that has
\* not returned: nothing is left behind by timeouts and failed writes.
NoPendingLeak ==
  \A i \in DOMAIN pending :
    cl.loop = "ended" \/ \E c \in Callers : inv[c].id = i /\ inv[c].st # "idle"

\* On a connection without faults an Invoke times out only when the server
\* refused its salt: every other request is answered.
TimeoutsExplained ==
  \A o \in hist.outs : o.r.kind = "timeout" => o.id \in hist.salty \/ plan.faulty

\* Every Invoke returns, whatever happens to the connection meanwhile.
EveryInvokeEnds == \A c \in Callers : []<>(inv[c].st = "idle")

\* The client's side: each Invoke gets its own answer, leaves nothing behind,
\* and times out for a reason.
InvokesRight == AnswersAreOwn /\ NoPendingLeak /\ TimeoutsExplained

\* The gateway's side: confirmed keys are stored, nothing is replayed within the
\* window and nothing unhandled is acknowledged.
SessionRight ==
  SesTypeOK /\ KeyConfirmedIsStored /\ NoReplayWithinWindow /\ AckedWasHandled
====
