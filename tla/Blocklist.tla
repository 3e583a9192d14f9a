----------------------------- MODULE Blocklist -----------------------------
(***************************************************************************)
(* Who may write to whom.  auth-service owns the blocklist table and       *)
(* invalidates a Redis entry when it changes                               *)
(* (services/auth-service/internal/contacts.go); chat-service reads the    *)
(* entry on every private send, asks auth-service on a miss and fills the  *)
(* entry with the answer (services/chat-service/internal/blocks.go).       *)
(*                                                                         *)
(* A send is one request running enforceBlocks, one round trip per action. *)
(* An edit is one request running handleBlock or handleUnblock.            *)
(***************************************************************************)
EXTENDS FiniteSets, Naturals

CONSTANTS People,     \* user ids
          Sends,      \* send requests
          Edits,      \* block and unblock requests
          MaxBlockFaults  \* bound: failed Redis commands and auth-service calls

ASSUME BlockAssumption == MaxBlockFaults \in Nat

VARIABLES blocks,      \* the blocklist table: <<owner, blocked>>
          blockCache,  \* block:{a:b}: "none" (no key), "0" or "1"
          send,        \* the send requests
          edit,        \* the block and unblock requests
          dirty,       \* pairs whose entry a lost Del or a late Set left wrong
          blockFaults

blockVars == <<blocks, blockCache, send, edit, dirty, blockFaults>>

\* blockCacheKey: the pair is ordered, so both directions share one key.
blockCacheKey(a, b) == {a, b}
BlockKeys == {blockCacheKey(x[1], x[2]) : x \in {y \in People \X People : y[1] # y[2]}}

Kinds == {"private", "group", "large"}
SendSteps == {"new", "read", "ask", "fill", "among", "passed", "refused"}

BlockTypeOK ==
  /\ blocks \subseteq People \X People
  /\ blockCache \in [BlockKeys -> {"none", "0", "1"}]
  /\ \A r \in Sends : send[r].pc \in SendSteps /\ send[r].chat \in Kinds
  /\ \A e \in Edits : edit[e].pc \in {"new", "invalidate", "done"}
  /\ dirty \subseteq BlockKeys
  /\ blockFaults \in 0..MaxBlockFaults

BlockInit ==
  /\ blocks = {} /\ dirty = {} /\ blockFaults = 0
  /\ blockCache = [k \in BlockKeys |-> "none"]
  /\ send = [r \in Sends |-> [pc |-> "new", chat |-> "private", from |-> "nobody",
                              to |-> "nobody", answer |-> FALSE, stood |-> FALSE,
                              excused |-> FALSE]]
  /\ edit = [e \in Edits |-> [pc |-> "new", key |-> {}]]

BlockFault == blockFaults < MaxBlockFaults /\ blockFaults' = blockFaults + 1

(***************************************************************************)
(* What the table says.                                                    *)
(***************************************************************************)
\* Blocks.IsBlockedBetween: a row in either direction.
IsBlockedBetween(t, a, b) == {<<a, b>>, <<b, a>>} \intersect t # {}

\* Blocks.BlockedAmong, for one candidate of a group: has it blocked the sender.
BlockedAmong(t, from, to) == <<to, from>> \in t

\* Does table t bar the send s: in a private chat a block of either side, in a
\* group a block of the sender by this recipient.
Bars(t, s) == IF s.chat = "private"
              THEN {<<s.from, s.to>>, <<s.to, s.from>>} \intersect t # {}
              ELSE <<s.to, s.from>> \in t

EntryOf(blocked) == IF blocked THEN "1" ELSE "0"

Says(k) == \E a, b \in k : a # b /\ IsBlockedBetween(blocks, a, b)

\* The entry of key k contradicts the table.
Stale(k) == blockCache[k] # "none" /\ blockCache[k] # EntryOf(Says(k))

InFlight(k) == \E e \in Edits : edit[e].pc = "invalidate" /\ edit[e].key = k

KeyOf(r) == blockCacheKey(send[r].from, send[r].to)

(***************************************************************************)
(* A send: enforceBlocks.                                                  *)
(***************************************************************************)
\* "to" is the peer of a private chat, or the one group recipient the model
\* follows.  "large" is a group of more than 10000 candidates.
enforceBlocks(r) ==
  /\ send[r].pc = "new"
  /\ \E from, to \in People, chat \in Kinds :
       /\ from # to
       /\ LET s == [send[r] EXCEPT !.from = from, !.to = to, !.chat = chat,
                                   !.pc = IF chat = "private" THEN "read" ELSE "among"]
          IN send' = [send EXCEPT ![r] = [s EXCEPT !.stood = Bars(blocks, s)]]
  /\ UNCHANGED <<blocks, blockCache, edit, dirty, blockFaults>>

Verdict(r, blocked, why) ==
  send' = [send EXCEPT ![r].pc = IF blocked THEN "refused" ELSE "passed",
                       ![r].excused = why]

\* isBlocked, the Redis GET.  A hit decides; a miss or an error asks.
ReadBlockCache(r) ==
  /\ send[r].pc = "read"
  /\ LET k == KeyOf(r) IN
     \/ /\ blockCache[k] # "none"
        /\ Verdict(r, blockCache[k] = "1", k \in dirty \/ InFlight(k))
        /\ UNCHANGED blockFaults
     \/ /\ \/ blockCache[k] = "none" /\ UNCHANGED blockFaults
           \/ blockCache[k] # "none" /\ BlockFault
        /\ send' = [send EXCEPT ![r].pc = "ask"]
  /\ UNCHANGED <<blocks, blockCache, edit, dirty>>

\* handleBlockCheck of the auth-service.
handleBlockCheck(s) == IsBlockedBetween(blocks, s.from, s.to)

\* isBlocked, the call of handleBlockCheck.  A failed call allows the message.
AskAuthService(r) ==
  /\ send[r].pc = "ask"
  /\ \/ /\ send' = [send EXCEPT ![r].pc = "fill", ![r].answer = handleBlockCheck(send[r])]
        /\ UNCHANGED blockFaults
     \/ BlockFault /\ Verdict(r, FALSE, TRUE)
  /\ UNCHANGED <<blocks, blockCache, edit, dirty>>

\* isBlocked, the Redis SET.  Between the answer and the SET the table may have
\* changed and the entry been invalidated: the SET then leaves a wrong entry.
FillBlockCache(r) ==
  /\ send[r].pc = "fill"
  /\ LET k == KeyOf(r)
         v == EntryOf(send[r].answer)
     IN \/ /\ blockCache' = [blockCache EXCEPT ![k] = v]
           /\ dirty' = IF v # EntryOf(Says(k)) THEN dirty \union {k} ELSE dirty \ {k}
           /\ UNCHANGED blockFaults
        \/ BlockFault /\ UNCHANGED <<blockCache, dirty>>
  /\ Verdict(r, send[r].answer, FALSE)
  /\ UNCHANGED <<blocks, edit>>

\* handleBlockedAmong refuses more than 10000 candidates.
handleBlockedAmong(s, blocked) ==
  s.chat = "group" /\ blocked = BlockedAmong(blocks, s.from, s.to)

\* blockedAmong, the call of handleBlockedAmong: any failed call delivers to
\* everyone.
AskBlockedAmong(r) ==
  /\ send[r].pc = "among"
  /\ \/ /\ \E blocked \in BOOLEAN : handleBlockedAmong(send[r], blocked) /\ Verdict(r, blocked, FALSE)
        /\ UNCHANGED blockFaults
     \/ /\ \/ send[r].chat = "large" /\ UNCHANGED blockFaults
           \/ send[r].chat = "group" /\ BlockFault
        /\ Verdict(r, FALSE, TRUE)
  /\ UNCHANGED <<blocks, blockCache, edit, dirty>>

(***************************************************************************)
(* An edit: the row first, then the cache entry.                           *)
(***************************************************************************)
\* A block that ends while a request runs does not bind that request.
Edited(t) ==
  /\ blocks' = t
  /\ send' = [r \in Sends |-> [send[r] EXCEPT !.stood = @ /\ Bars(t, send[r])]]

\* Mutant of handleBlock: the handler returns without invalidating the entry.
handleBlockKeepsEntry(e) ==
  /\ edit[e].pc = "new"
  /\ \E owner, target \in People :
       /\ owner # target
       /\ Edited(blocks \union {<<owner, target>>})
       /\ edit' = [edit EXCEPT ![e] = [pc |-> "done", key |-> {}]]
  /\ UNCHANGED <<blockCache, dirty, blockFaults>>

\* handleBlock: blocking oneself is refused.
handleBlock(e) ==
  /\ edit[e].pc = "new"
  /\ \E owner, target \in People :
       /\ owner # target
       /\ Edited(blocks \union {<<owner, target>>})
       /\ edit' = [edit EXCEPT ![e] = [pc |-> "invalidate",
                                       key |-> blockCacheKey(owner, target)]]
  /\ UNCHANGED <<blockCache, dirty, blockFaults>>

\* handleUnblock: deleting a row that is not there succeeds too.
handleUnblock(e) ==
  /\ edit[e].pc = "new"
  /\ \E owner, target \in People :
       /\ owner # target
       /\ Edited(blocks \ {<<owner, target>>})
       /\ edit' = [edit EXCEPT ![e] = [pc |-> "invalidate",
                                       key |-> blockCacheKey(owner, target)]]
  /\ UNCHANGED <<blockCache, dirty, blockFaults>>

\* invalidateBlockCache: a failed DEL is only logged.
invalidateBlockCache(e) ==
  /\ edit[e].pc = "invalidate"
  /\ LET k == edit[e].key IN
     \/ /\ blockCache' = [blockCache EXCEPT ![k] = "none"]
        /\ dirty' = dirty \ {k}
        /\ UNCHANGED blockFaults
     \/ BlockFault /\ dirty' = dirty \union {k} /\ UNCHANGED blockCache
  /\ edit' = [edit EXCEPT ![e].pc = "done"]
  /\ UNCHANGED <<blocks, send>>

\* blockCacheTTL passes.
ExpireBlockEntry(k) ==
  /\ blockCache[k] # "none"
  /\ blockCache' = [blockCache EXCEPT ![k] = "none"]
  /\ dirty' = dirty \ {k}
  /\ UNCHANGED <<blocks, send, edit, blockFaults>>

SendStep(r) == \/ ReadBlockCache(r) \/ AskAuthService(r) \/ FillBlockCache(r)
               \/ AskBlockedAmong(r)

BlockNext ==
  \/ \E r \in Sends : enforceBlocks(r) \/ SendStep(r)
  \/ \E e \in Edits : handleBlock(e) \/ handleUnblock(e) \/ invalidateBlockCache(e)
  \/ \E k \in BlockKeys : ExpireBlockEntry(k)

\* Requests run to their end, and Redis drops what has outlived its TTL.
BlockRequestsEnd == \/ \E r \in Sends : SendStep(r)
                    \/ \E e \in Edits : invalidateBlockCache(e)
EntriesExpire == \E k \in BlockKeys : ExpireBlockEntry(k)

BlockSpec == /\ BlockInit /\ [][BlockNext]_blockVars
             /\ WF_blockVars(BlockRequestsEnd) /\ WF_blockVars(EntriesExpire)

(***************************************************************************)
(* Properties.                                                             *)
(***************************************************************************)
\* A cached decision of isBlocked contradicts the blocklist only while the
\* edit that made it wrong has not reached its invalidation, or after a DEL
\* that Redis lost, or after a SET that carried an answer older than the edit.
StaleEntryExplained == \A k \in BlockKeys : Stale(k) => k \in dirty \/ InFlight(k)

\* enforceBlocks lets a message past a block that stood during the whole
\* request only when a call failed (every failure allows), when the group was
\* too large to ask about, or when the entry it hit was stale for one of the
\* reasons above.
BlockStops == \A r \in Sends :
                send[r].pc = "passed" /\ send[r].stood => send[r].excused

\* Once nobody edits the blocklist any more, every wrong entry goes: a decision
\* cached too late or kept by a lost DEL outlives its edit by one TTL at most.
BlockCacheSettles == <>[](\A k \in BlockKeys : ~Stale(k))

\* Blocks hold but for the named staleness and failures.
BlocksHold == BlockTypeOK /\ StaleEntryExplained /\ BlockStops
=============================================================================
