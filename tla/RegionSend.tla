---------------------------- MODULE RegionSend -----------------------------
(***************************************************************************)
(* Sends to one chat from several regions.  Sequences are a Redis counter  *)
(* of the region that handles the send, so handleSendMessage forwards a    *)
(* send of a chat that is homed elsewhere (proxyToHomeRegion in            *)
(* services/chat-service/internal/region.go) to the endpoint configured    *)
(* for that region, marked X-Proxied-From.  Endpoints may be missing or    *)
(* lead to the wrong region, and a forwarded call may fail or time out     *)
(* after it was handled, upon which the client tries again.                *)
(***************************************************************************)
EXTENDS FiniteSets, Naturals

CONSTANTS Regions,
          Posts,             \* sends of clients
          MaxRegionFaults    \* bound: forwarded calls that fail, and retries

ASSUME RegionAssumption == MaxRegionFaults \in Nat

VARIABLES home,       \* chats.home_region
          endpoints,  \* RegionEndpoints of each region: where each name leads
          post,       \* [at, via, pc]: where the call is, and who forwarded it
          counter,    \* each region's sequence counter for the chat
          taken,      \* [region, seq, post]: the numbers handed out
          regionFaults

regionVars == <<home, endpoints, post, counter, taken, regionFaults>>
Nowhere == "nowhere"

\* Does every name lead to its region, or nowhere?
EndpointsRight == \A r, h \in Regions : endpoints[r][h] \in {h, Nowhere}

RegionTypeOK ==
  /\ home \in Regions /\ endpoints \in [Regions -> [Regions -> Regions \union {Nowhere}]]
  /\ \A s \in Posts : /\ post[s].pc \in {"new", "arrived", "sent", "failed"}
                      /\ {post[s].at, post[s].via} \subseteq Regions \union {Nowhere}
  /\ counter \in [Regions -> Nat] /\ regionFaults \in 0..MaxRegionFaults

RegionInit ==
  /\ home \in Regions /\ endpoints \in [Regions -> [Regions -> Regions \union {Nowhere}]]
  /\ post = [s \in Posts |-> [at |-> Nowhere, via |-> Nowhere, pc |-> "new"]]
  /\ counter = [r \in Regions |-> 0] /\ taken = {} /\ regionFaults = 0

\* A client sends, or sends again what failed, through the region nearest to it.
Submit(s, r) ==
  /\ post[s].pc = "new" \/ (post[s].pc = "failed" /\ regionFaults < MaxRegionFaults)
  /\ regionFaults' = IF post[s].pc = "failed" THEN regionFaults + 1 ELSE regionFaults
  /\ post' = [post EXCEPT ![s] = [at |-> r, via |-> Nowhere, pc |-> "arrived"]]
  /\ UNCHANGED <<home, endpoints, counter, taken>>

\* isLocal, and the mark of a call a peer forwarded: it is handled here regardless.
isLocal(r, s) == home = r \/ post[s].via # Nowhere

\* The send is handled here: the region's own counter numbers it.
HandleSend(s) ==
  /\ post[s].pc = "arrived" /\ isLocal(post[s].at, s)
  /\ LET r == post[s].at
     IN /\ counter' = [counter EXCEPT ![r] = @ + 1]
        /\ taken' = taken \union {[region |-> r, seq |-> counter[r] + 1, post |-> s]}
  /\ \/ post' = [post EXCEPT ![s].pc = "sent"] /\ UNCHANGED regionFaults
     \/ /\ post[s].via # Nowhere /\ regionFaults < MaxRegionFaults
        /\ regionFaults' = regionFaults + 1 /\ post' = [post EXCEPT ![s].pc = "failed"]
  /\ UNCHANGED <<home, endpoints>>

\* Mutant of proxyToHomeRegion: a home without an endpoint is handled here.
proxyToHomeRegionOrHere(s) ==
  /\ post[s].pc = "arrived" /\ ~isLocal(post[s].at, s) /\ UNCHANGED regionFaults
  /\ LET to == endpoints[post[s].at][home]
     IN post' = [post EXCEPT ![s].at = IF to = Nowhere THEN @ ELSE to, ![s].via = post[s].at]
  /\ UNCHANGED <<home, endpoints, counter, taken>>

\* proxyToHomeRegion: no endpoint is an error; the peer may be unreachable.
proxyToHomeRegion(s) ==
  /\ post[s].pc = "arrived" /\ ~isLocal(post[s].at, s)
  /\ LET to == endpoints[post[s].at][home]
     IN \/ /\ to # Nowhere /\ UNCHANGED regionFaults
           /\ post' = [post EXCEPT ![s].at = to, ![s].via = post[s].at]
        \/ /\ \/ to = Nowhere /\ UNCHANGED regionFaults
              \/ /\ to # Nowhere /\ regionFaults < MaxRegionFaults
                 /\ regionFaults' = regionFaults + 1
           /\ post' = [post EXCEPT ![s].pc = "failed"]
  /\ UNCHANGED <<home, endpoints, counter, taken>>

Handling(s) == HandleSend(s) \/ proxyToHomeRegion(s)
RegionNext == \E s \in Posts : Handling(s) \/ \E r \in Regions : Submit(s, r)
RegionsWork == \E s \in Posts : Handling(s)

RegionSpec == RegionInit /\ [][RegionNext]_regionVars /\ WF_regionVars(RegionsWork)

(***************************************************************************)
(* Properties.                                                             *)
(***************************************************************************)
\* Two sends of a chat have the same number only where an endpoint leads to a
\* region that is not the one it is configured for: with right or missing ones,
\* every number comes from the home region's counter ("Two regions allocating
\* sequences for one chat would produce duplicate numbers and silently overwrite
\* history", region.go).
OneWriterPerChat ==
  /\ RegionTypeOK
  /\ EndpointsRight => \A a, b \in taken : a.seq = b.seq => a = b

\* A call is answered however the regions are configured: it is forwarded at
\* most once and never bounces.
CallsAnswered == []<>(\A s \in Posts : post[s].pc # "arrived")
=============================================================================
