----------------------------- MODULE MCPlatform ------------------------------
(***************************************************************************)
(* The platform under the services, for TLC: the consumer loop, the        *)
(* sequence allocator, the signing keys, the forwarding between regions,   *)
(* the roster of a chat, and the end of a pod.  They share no variable: a  *)
(* behaviour is one of one part, and the variables of the others stay as   *)
(* they were.                                                              *)
(***************************************************************************)
EXTENDS KafkaConsumer, SeqAllocator, KeyRotation, RegionSend, Membership, Shutdown

CONSTANTS p1, r1

VARIABLE part

platformVars == <<consumerVars, seqVars, keyVars, regionVars, vars, stopVars, part>>

\* Only the part that runs starts in each of its initial states.
MCInit ==
  /\ ConsumerInit /\ SeqInit /\ KeyInit /\ RegionInit /\ Init /\ StopInit
  /\ part \in {"consumer", "sequence", "keys", "regions", "roster", "stop"}
  /\ part # "consumer" => owner = p1
  /\ part # "regions" => home = r1 /\ \A r, h \in Regions : endpoints[r][h] = Nowhere

MCNext ==
  /\ UNCHANGED part
  /\ IF part = "consumer" THEN ConsumerNext ELSE UNCHANGED consumerVars
  /\ IF part = "sequence" THEN SeqNext ELSE UNCHANGED seqVars
  /\ IF part = "keys" THEN KeyNext ELSE UNCHANGED keyVars
  /\ IF part = "regions" THEN RegionNext ELSE UNCHANGED regionVars
  /\ IF part = "roster" THEN Next ELSE UNCHANGED vars
  /\ IF part = "stop" THEN StopNext ELSE UNCHANGED stopVars

In(p, A) == part = p /\ A

\* The fairness of the parts' own specifications.
MCSpec ==
  /\ MCInit /\ [][MCNext]_platformVars
  /\ \A m \in Members : /\ WF_consumerVars(In("consumer", Work(m)))
                          /\ WF_consumerVars(In("consumer", Start(m)))
  /\ WF_consumerVars(In("consumer", HandOver))
  /\ \A p \in Callers : WF_seqVars(In("sequence", CallStep(p)))
  /\ WF_seqVars(In("sequence", LockExpire))
  /\ WF_keyVars(In("keys", PodsRoll))
  /\ \A v \in Verifiers : WF_keyVars(In("keys", Refreshes(v)))
  /\ WF_regionVars(In("regions", RegionsWork))
  /\ WF_vars(In("roster", RosterWork)) /\ WF_vars(In("roster", Expire))
  /\ WF_stopVars(In("stop", StopWork))

\* What must happen in each part: records finish, the reseed lock goes, key sets
\* converge, forwarded sends are answered, a stale roster ends, and only a client
\* that stays holds a stopping pod up.
PlatformLiveness ==
  /\ EveryRecordFinishes /\ LockIsTemporary /\ KeysConverge
  /\ CallsAnswered /\ StaleRosterEnds /\ OnlyClientsDelayStop
=============================================================================
