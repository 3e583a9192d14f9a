---------------------------- MODULE ServiceProofs ---------------------------
(***************************************************************************)
(* Proofs about four services.  Blocks and bans hold although Redis keys   *)
(* with a time to live decide them, for every set of users, requests and   *)
(* operators; a KafkaConsumer group loses no record, for every group size, *)
(* retry limit, number of records and number of faults; media is scanned   *)
(* before anything is made of it, for any processors, uploads and jobs.    *)
(***************************************************************************)
EXTENDS Blocklist, Moderation, KafkaConsumer, Media, TLAPS

(***************************************************************************)
(* Blocklist.                                                              *)
(***************************************************************************)
SendRecs == [pc : SendSteps, chat : Kinds, from : People \union {"nobody"},
             to : People \union {"nobody"}, answer : BOOLEAN, stood : BOOLEAN,
             excused : BOOLEAN]

\* What a send knows: its parties once it has begun; that a block it marks as
\* standing is in the table; that an answer fetched since says so; and why it
\* passed such a block.
SendRight(s) ==
  /\ s \in SendRecs
  /\ s.pc # "new" => s.from \in People /\ s.to \in People /\ s.from # s.to
  /\ s.pc \in {"read", "ask", "fill"} => s.chat = "private"
  /\ s.pc = "among" => s.chat # "private"
  /\ s.stood => s.pc # "new" /\ Bars(blocks, s)
  /\ s.stood /\ s.pc = "fill" => s.answer
  /\ s.stood /\ s.pc = "passed" => s.excused

BlockShape ==
  /\ blocks \subseteq People \X People
  /\ blockCache \in [BlockKeys -> {"none", "0", "1"}]
  /\ dirty \subseteq BlockKeys /\ blockFaults \in 0..MaxBlockFaults
  /\ DOMAIN send = Sends
  /\ edit \in [Edits -> [pc : {"new", "invalidate", "done"}, key : BlockKeys \union {{}}]]
  /\ \A e \in Edits : edit[e].pc = "invalidate" => edit[e].key \in BlockKeys

BlockInv == BlockShape /\ StaleEntryExplained /\ \A r \in Sends : SendRight(send[r])

\* Every pair of different users has a key.
LEMMA KeyOfPair ==
  ASSUME NEW a \in People, NEW b \in People, a # b
  PROVE  blockCacheKey(a, b) \in BlockKeys
<1>1. /\ <<a, b>> \in {y \in People \X People : y[1] # y[2]}
      /\ blockCacheKey(a, b) = blockCacheKey(<<a, b>>[1], <<a, b>>[2])
  BY Zenon
<1> QED
  BY <1>1, Zenon DEF BlockKeys

\* What the table says of a key is what it says of either order of its pair.
LEMMA SaysOfPair ==
  ASSUME NEW a \in People, NEW b \in People, a # b
  PROVE  Says(blockCacheKey(a, b)) <=> IsBlockedBetween(blocks, a, b)
BY Zenon DEF Says, blockCacheKey, IsBlockedBetween

\* An edit of one pair says nothing new of another key.
LEMMA OtherPairs ==
  ASSUME NEW a \in People, NEW b \in People, a # b, NEW k \in BlockKeys,
         k # blockCacheKey(a, b),
         blocks' = blocks \union {<<a, b>>} \/ blocks' = blocks \ {<<a, b>>}
  PROVE  Says(k)' <=> Says(k)
<1>1. PICK x \in People, y \in People : x # y /\ k = {x, y}
  BY Zenon DEF BlockKeys, blockCacheKey
<1>2. {x, y} # {a, b}
  BY <1>1, Zenon DEF blockCacheKey
<1>3. <<x, y>> # <<a, b>> /\ <<y, x>> # <<a, b>>
  BY <1>2, Zenon
<1>4. /\ <<x, y>> \in blocks' <=> <<x, y>> \in blocks
      /\ <<y, x>> \in blocks' <=> <<y, x>> \in blocks
  BY <1>3, Zenon
<1>5. /\ Says(k) <=> <<x, y>> \in blocks \/ <<y, x>> \in blocks
      /\ Says(k)' <=> <<x, y>> \in blocks' \/ <<y, x>> \in blocks'
  BY <1>1 DEF Says, IsBlockedBetween
<1> QED
  BY <1>4, <1>5, Zenon

\* No block, no entry, no request.
LEMMA BlockInitInv == BlockInit => BlockInv
<1> SUFFICES ASSUME BlockInit PROVE BlockInv
  BY Zenon
<1>1. BlockShape
  BY BlockAssumption DEF BlockInit, BlockShape
<1>2. StaleEntryExplained
  BY Zenon DEF BlockInit, StaleEntryExplained, Stale
<1>3. ASSUME NEW r \in Sends PROVE SendRight(send[r])
  BY Zenon DEF BlockInit, SendRight, SendRecs, SendSteps, Kinds
<1> QED
  BY <1>1, <1>2, <1>3, Zenon DEF BlockInv

\* A step of one send, at an unchanged table.
LEMMA SendMove ==
  ASSUME BlockInv, NEW r \in Sends, NEW s, send' = [send EXCEPT ![r] = s],
         UNCHANGED blocks, SendRight(s)
  PROVE  (\A q \in Sends : SendRight(send[q]))' /\ DOMAIN send' = Sends
<1>1. \A q \in Sends : send'[q] = IF q = r THEN s ELSE send[q]
  BY Zenon DEF BlockInv, BlockShape
<1>2. DOMAIN send' = Sends
  BY Zenon DEF BlockInv, BlockShape
<1>3. ASSUME NEW q \in Sends PROVE SendRight(send[q])'
  BY <1>1 DEF BlockInv, SendRight, Bars
<1> QED
  BY <1>2, <1>3, Zenon

\* The verdict on a send, which names a reason if it passes a block that stands.
LEMMA VerdictMove ==
  ASSUME BlockInv, NEW r \in Sends, NEW blocked \in BOOLEAN, NEW why \in BOOLEAN,
         send[r].pc # "new", send[r].stood => blocked \/ why,
         Verdict(r, blocked, why), UNCHANGED blocks
  PROVE  (\A q \in Sends : SendRight(send[q]))' /\ DOMAIN send' = Sends
<1> DEFINE s == [send[r] EXCEPT !.pc = IF blocked THEN "refused" ELSE "passed", !.excused = why]
<1>1. send' = [send EXCEPT ![r] = s]
  BY Zenon DEF Verdict, BlockInv, BlockShape
<1>2. send[r] \in SendRecs /\ SendRight(send[r])
  BY Zenon DEF BlockInv, SendRight
<1>3. /\ s \in SendRecs /\ s.from = send[r].from /\ s.to = send[r].to /\ s.chat = send[r].chat
      /\ s.stood = send[r].stood /\ s.excused = why
      /\ s.pc = IF blocked THEN "refused" ELSE "passed"
  BY <1>2, Zenon DEF SendRecs, SendSteps
<1>4. SendRight(s)
  BY <1>2, <1>3 DEF SendRight, Bars
<1> HIDE DEF s
<1> QED
  BY <1>1, <1>4, SendMove, Zenon

\* A step that leaves the table, the entries and the edits alone.
LEMMA EntriesKept ==
  ASSUME BlockInv, UNCHANGED <<blocks, blockCache, edit, dirty>>,
         blockFaults' \in 0..MaxBlockFaults,
         (\A q \in Sends : SendRight(send[q]))', DOMAIN send' = Sends
  PROVE  BlockInv'
<1>1. BlockShape'
  BY Zenon DEF BlockInv, BlockShape
<1>2. StaleEntryExplained'
  BY Zenon DEF BlockInv, StaleEntryExplained, Stale, Says, InFlight
<1> QED
  BY <1>1, <1>2, Zenon DEF BlockInv

\* A fault stays within its bound.
LEMMA BlockFaultBound ==
  ASSUME BlockInv, BlockFault
  PROVE  blockFaults' \in 0..MaxBlockFaults
BY BlockAssumption DEF BlockInv, BlockShape, BlockFault

\* Whether a block stands is a Boolean.
LEMMA BarsBoolean ==
  ASSUME NEW t, NEW s
  PROVE  Bars(t, s) \in BOOLEAN
<1>1. CASE s.chat = "private"
  <2>1. Bars(t, s) = ({<<s.from, s.to>>, <<s.to, s.from>>} \intersect t # {})
    BY <1>1, Zenon DEF Bars
  <2> QED
    BY <2>1, Zenon
<1>2. CASE s.chat # "private"
  <2>1. Bars(t, s) = (<<s.to, s.from>> \in t)
    BY <1>2, Zenon DEF Bars
  <2> QED
    BY <2>1
<1> QED
  BY <1>1, <1>2, Zenon

\* enforceBlocks begins.
LEMMA EnforceInv ==
  ASSUME BlockInv, NEW r \in Sends, enforceBlocks(r)
  PROVE  BlockInv'
<1>1. PICK from \in People, to \in People, chat \in Kinds :
        /\ from # to
        /\ LET s == [send[r] EXCEPT !.from = from, !.to = to, !.chat = chat,
                                    !.pc = IF chat = "private" THEN "read" ELSE "among"]
           IN send' = [send EXCEPT ![r] = [s EXCEPT !.stood = Bars(blocks, s)]]
  BY Zenon DEF enforceBlocks
<1> DEFINE s == [send[r] EXCEPT !.from = from, !.to = to, !.chat = chat,
                                !.pc = IF chat = "private" THEN "read" ELSE "among"]
<1>2. send[r] \in SendRecs
  BY Zenon DEF BlockInv, SendRight
<1>3. /\ s \in SendRecs /\ s.from = from /\ s.to = to /\ s.chat = chat
      /\ s.pc = IF chat = "private" THEN "read" ELSE "among"
  BY <1>2, Zenon DEF SendRecs, SendSteps
<1>4. ASSUME NEW b \in BOOLEAN, b => Bars(blocks, s)
      PROVE  SendRight([s EXCEPT !.stood = b])
  <2> HIDE DEF s
  <2> DEFINE x == [s EXCEPT !.stood = b]
  <2>1. /\ x \in SendRecs /\ x.from = s.from /\ x.to = s.to /\ x.chat = s.chat /\ x.pc = s.pc
        /\ x.stood = b
    BY <1>3, Zenon DEF SendRecs
  <2> QED
    BY <1>1, <1>3, <1>4, <2>1, Zenon DEF SendRight, Bars
<1>5. SendRight([s EXCEPT !.stood = Bars(blocks, s)])
  <2> HIDE DEF s
  <2> QED
    BY <1>4, BarsBoolean, Zenon
<1>6. UNCHANGED <<blocks, blockCache, edit, dirty, blockFaults>>
  BY Zenon DEF enforceBlocks
<1>7. send' = [send EXCEPT ![r] = [s EXCEPT !.stood = Bars(blocks, s)]]
  BY <1>1, Zenon
<1> HIDE DEF s
<1>8. (\A q \in Sends : SendRight(send[q]))' /\ DOMAIN send' = Sends
  BY <1>5, <1>6, <1>7, SendMove, Zenon
<1> QED
  BY <1>6, <1>8, EntriesKept, Zenon DEF BlockInv, BlockShape

\* isBlocked reads the entry: a standing block it does not name is explained.
LEMMA ReadInv ==
  ASSUME BlockInv, NEW r \in Sends, ReadBlockCache(r)
  PROVE  BlockInv'
<1> DEFINE k == KeyOf(r)
<1>1. /\ send[r].pc = "read" /\ SendRight(send[r])
      /\ UNCHANGED <<blocks, blockCache, edit, dirty>>
  BY Zenon DEF ReadBlockCache, BlockInv
<1>2. /\ send[r].from \in People /\ send[r].to \in People /\ send[r].from # send[r].to
      /\ send[r].chat = "private" /\ send[r] \in SendRecs
  BY <1>1, Zenon DEF SendRight
<1>3. k \in BlockKeys
  BY <1>2, KeyOfPair, Zenon DEF KeyOf
<1>4. CASE /\ blockCache[k] # "none" /\ UNCHANGED blockFaults
           /\ Verdict(r, blockCache[k] = "1", k \in dirty \/ InFlight(k))
  <2>1. send[r].stood => Says(k)
    BY <1>1, <1>2, SaysOfPair, Zenon DEF SendRight, Bars, IsBlockedBetween, KeyOf
  <2>2. send[r].stood => blockCache[k] = "1" \/ (k \in dirty \/ InFlight(k))
    BY <1>3, <1>4, <2>1, Zenon DEF BlockInv, StaleEntryExplained, Stale, EntryOf
  <2>3. (blockCache[k] = "1") \in BOOLEAN /\ (k \in dirty \/ InFlight(k)) \in BOOLEAN
    BY Zenon
  <2>4. (\A q \in Sends : SendRight(send[q]))' /\ DOMAIN send' = Sends
    BY <1>1, <1>4, <2>2, <2>3, VerdictMove, Zenon
  <2> QED
    BY <1>1, <1>4, <2>4, EntriesKept, Zenon DEF BlockInv, BlockShape
<1>5. CASE /\ send' = [send EXCEPT ![r].pc = "ask"]
           /\ BlockFault \/ UNCHANGED blockFaults
  <2> DEFINE s == [send[r] EXCEPT !.pc = "ask"]
  <2>1. send' = [send EXCEPT ![r] = s]
    BY <1>5, Zenon DEF BlockInv, BlockShape
  <2>2. /\ s \in SendRecs /\ s.from = send[r].from /\ s.to = send[r].to /\ s.chat = send[r].chat
        /\ s.stood = send[r].stood /\ s.pc = "ask"
    BY <1>2, Zenon DEF SendRecs, SendSteps
  <2>3. SendRight(s)
    BY <1>1, <2>2, Zenon DEF SendRight, Bars
  <2> HIDE DEF s
  <2>4. (\A q \in Sends : SendRight(send[q]))' /\ DOMAIN send' = Sends
    BY <1>1, <2>1, <2>3, SendMove, Zenon
  <2>5. blockFaults' \in 0..MaxBlockFaults
    BY <1>5, BlockFaultBound, Zenon DEF BlockInv, BlockShape
  <2> QED
    BY <1>1, <2>4, <2>5, EntriesKept, Zenon
<1> QED
  BY <1>4, <1>5, Zenon DEF ReadBlockCache

\* The table's answer as a Boolean.
LEMMA BlockedBoolean ==
  ASSUME NEW a, NEW b
  PROVE  IsBlockedBetween(blocks, a, b) \in BOOLEAN /\ BlockedAmong(blocks, a, b) \in BOOLEAN
BY DEF IsBlockedBetween, BlockedAmong

\* isBlocked asks auth-service: a standing block is in the answer.
LEMMA AskInv ==
  ASSUME BlockInv, NEW r \in Sends, AskAuthService(r)
  PROVE  BlockInv'
<1>1. /\ send[r].pc = "ask" /\ SendRight(send[r]) /\ send[r] \in SendRecs
      /\ UNCHANGED <<blocks, blockCache, edit, dirty>>
  BY Zenon DEF AskAuthService, BlockInv, SendRight
<1>2. CASE /\ send' = [send EXCEPT ![r].pc = "fill", ![r].answer = handleBlockCheck(send[r])]
           /\ UNCHANGED blockFaults
  <2>1. ASSUME NEW b \in BOOLEAN, send[r].stood => b
        PROVE  SendRight([send[r] EXCEPT !.pc = "fill", !.answer = b])
    <3> DEFINE s == [send[r] EXCEPT !.pc = "fill", !.answer = b]
    <3>1. /\ s \in SendRecs /\ s.from = send[r].from /\ s.to = send[r].to
          /\ s.chat = send[r].chat /\ s.stood = send[r].stood /\ s.pc = "fill" /\ s.answer = b
      BY <1>1, Zenon DEF SendRecs, SendSteps
    <3> QED
      BY <1>1, <2>1, <3>1, Zenon DEF SendRight, Bars
  <2>2. send[r].stood => IsBlockedBetween(blocks, send[r].from, send[r].to)
    BY <1>1, Zenon DEF SendRight, Bars, IsBlockedBetween
  <2>3. SendRight([send[r] EXCEPT !.pc = "fill", !.answer = handleBlockCheck(send[r])])
    BY <2>1, <2>2, BlockedBoolean, Zenon DEF handleBlockCheck
  <2>4. send' = [send EXCEPT ![r] = [send[r] EXCEPT !.pc = "fill",
                                                    !.answer = handleBlockCheck(send[r])]]
    BY <1>2, Zenon DEF BlockInv, BlockShape
  <2>5. (\A q \in Sends : SendRight(send[q]))' /\ DOMAIN send' = Sends
    BY <1>1, <2>3, <2>4, SendMove, Zenon
  <2> QED
    BY <1>1, <1>2, <2>5, EntriesKept, Zenon DEF BlockInv, BlockShape
<1>3. CASE BlockFault /\ Verdict(r, FALSE, TRUE)
  <2>1. (\A q \in Sends : SendRight(send[q]))' /\ DOMAIN send' = Sends
    BY <1>1, <1>3, VerdictMove, Zenon
  <2> QED
    BY <1>1, <1>3, <2>1, EntriesKept, BlockFaultBound, Zenon
<1> QED
  BY <1>2, <1>3, Zenon DEF AskAuthService

\* blockedAmong: a group's recipient who blocked the sender gets nothing, unless
\* the question fails.
LEMMA AmongInv ==
  ASSUME BlockInv, NEW r \in Sends, AskBlockedAmong(r)
  PROVE  BlockInv'
<1>1. /\ send[r].pc = "among" /\ SendRight(send[r])
      /\ UNCHANGED <<blocks, blockCache, edit, dirty>>
  BY Zenon DEF AskBlockedAmong, BlockInv
<1>2. CASE /\ \E blocked \in BOOLEAN : handleBlockedAmong(send[r], blocked) /\ Verdict(r, blocked, FALSE)
           /\ UNCHANGED blockFaults
  <2>1. PICK blocked \in BOOLEAN : handleBlockedAmong(send[r], blocked) /\ Verdict(r, blocked, FALSE)
    BY <1>2, Zenon
  <2>2. send[r].stood => blocked
    BY <1>1, <2>1, Zenon DEF SendRight, Bars, handleBlockedAmong, BlockedAmong
  <2>3. (\A q \in Sends : SendRight(send[q]))' /\ DOMAIN send' = Sends
    BY <1>1, <2>1, <2>2, VerdictMove, Zenon
  <2> QED
    BY <1>1, <1>2, <2>3, EntriesKept, Zenon DEF BlockInv, BlockShape
<1>3. CASE (BlockFault \/ UNCHANGED blockFaults) /\ Verdict(r, FALSE, TRUE)
  <2>1. (\A q \in Sends : SendRight(send[q]))' /\ DOMAIN send' = Sends
    BY <1>1, <1>3, VerdictMove, Zenon
  <2>2. blockFaults' \in 0..MaxBlockFaults
    BY <1>3, BlockFaultBound, Zenon DEF BlockInv, BlockShape
  <2> QED
    BY <1>1, <2>1, <2>2, EntriesKept, Zenon
<1> QED
  BY <1>2, <1>3, Zenon DEF AskBlockedAmong

\* isBlocked stores the answer: an entry that is out of date by then is marked.
LEMMA FillInv ==
  ASSUME BlockInv, NEW r \in Sends, FillBlockCache(r)
  PROVE  BlockInv'
<1> DEFINE k == KeyOf(r)
           v == EntryOf(send[r].answer)
<1>1. /\ send[r].pc = "fill" /\ SendRight(send[r]) /\ send[r] \in SendRecs
      /\ Verdict(r, send[r].answer, FALSE) /\ UNCHANGED <<blocks, edit>>
  BY Zenon DEF FillBlockCache, BlockInv, SendRight
<1>2. send[r].answer \in BOOLEAN /\ (send[r].stood => send[r].answer)
  BY <1>1, Zenon DEF SendRight, SendRecs
<1>3. (\A q \in Sends : SendRight(send[q]))' /\ DOMAIN send' = Sends
  BY <1>1, <1>2, VerdictMove, Zenon
<1>4. k \in BlockKeys
  BY <1>1, KeyOfPair, Zenon DEF KeyOf, SendRight
<1>5. CASE /\ blockCache' = [blockCache EXCEPT ![k] = v]
           /\ dirty' = IF v # EntryOf(Says(k)) THEN dirty \union {k} ELSE dirty \ {k}
           /\ UNCHANGED blockFaults
  <2>1. v \in {"0", "1"}
    BY Zenon DEF EntryOf
  <2>2. BlockShape'
    <3> HIDE DEF k, v
    <3> QED
      BY <1>1, <1>3, <1>4, <1>5, <2>1, Zenon DEF BlockInv, BlockShape
  <2>3. \A x \in BlockKeys : Says(x)' = Says(x) /\ InFlight(x)' = InFlight(x)
    BY <1>1, Zenon DEF Says, InFlight
  <2>4. ASSUME NEW x \in BlockKeys, Stale(x)' PROVE x \in dirty' \/ InFlight(x)'
    <3> HIDE DEF k, v
    <3>1. CASE x = k
      BY <1>4, <1>5, <2>3, <2>4, <3>1, Zenon DEF Stale, BlockInv, BlockShape
    <3>2. CASE x # k
      <4>1. blockCache'[x] = blockCache[x] /\ (x \in dirty' <=> x \in dirty)
        BY <1>5, <3>2, Zenon DEF BlockInv, BlockShape
      <4> QED
        BY <2>3, <2>4, <4>1, Zenon DEF Stale, BlockInv, StaleEntryExplained
    <3> QED
      BY <3>1, <3>2, Zenon
  <2> QED
    BY <1>3, <2>2, <2>4, Zenon DEF BlockInv, StaleEntryExplained
<1>6. CASE BlockFault /\ UNCHANGED <<blockCache, dirty>>
  BY <1>1, <1>3, <1>6, EntriesKept, BlockFaultBound, Zenon
<1> QED
  BY <1>5, <1>6, Zenon DEF FillBlockCache

\* An edit keeps of each send only the blocks that still stand.
LEMMA EditedSends ==
  ASSUME BlockInv, NEW t, Edited(t)
  PROVE  (\A q \in Sends : SendRight(send[q]))' /\ DOMAIN send' = Sends
<1>1. blocks' = t /\ send' = [r \in Sends |-> [send[r] EXCEPT !.stood = @ /\ Bars(t, send[r])]]
  BY Zenon DEF Edited
<1>2. ASSUME NEW q \in Sends, NEW b \in BOOLEAN, b => send[q].stood /\ Bars(t, send[q]),
             send'[q] = [send[q] EXCEPT !.stood = b]
      PROVE  SendRight(send[q])'
  <2>1. SendRight(send[q]) /\ send[q] \in SendRecs
    BY Zenon DEF BlockInv, SendRight
  <2>2. /\ send'[q] \in SendRecs /\ send'[q].from = send[q].from /\ send'[q].to = send[q].to
        /\ send'[q].chat = send[q].chat /\ send'[q].pc = send[q].pc
        /\ send'[q].answer = send[q].answer /\ send'[q].excused = send[q].excused
        /\ send'[q].stood = b
    BY <1>2, <2>1, Zenon DEF SendRecs
  <2>3. b => send'[q].pc # "new" /\ Bars(t, send'[q])
    BY <1>2, <2>1, <2>2, Zenon DEF SendRight, Bars
  <2> QED
    BY <1>1, <1>2, <2>1, <2>2, <2>3, Zenon DEF SendRight
<1>3. ASSUME NEW q \in Sends PROVE SendRight(send[q])'
  <2>1. (send[q].stood /\ Bars(t, send[q])) \in BOOLEAN
    BY Zenon
  <2>2. send'[q] = [send[q] EXCEPT !.stood = (send[q].stood /\ Bars(t, send[q]))]
    BY <1>1, Zenon
  <2> QED
    BY <1>2, <2>1, <2>2, Zenon
<1> QED
  BY <1>1, <1>3, Zenon

\* handleBlock and handleUnblock: what the entry says is wrong only until the
\* request invalidates it.
LEMMA EditInv ==
  ASSUME BlockInv, NEW e \in Edits, handleBlock(e) \/ handleUnblock(e)
  PROVE  BlockInv'
<1>1. PICK who \in People, target \in People :
        /\ who # target
        /\ \/ Edited(blocks \union {<<who, target>>})
           \/ Edited(blocks \ {<<who, target>>})
        /\ edit' = [edit EXCEPT ![e] = [pc |-> "invalidate",
                                        key |-> blockCacheKey(who, target)]]
  BY Zenon DEF handleBlock, handleUnblock
<1>2. edit[e].pc = "new" /\ UNCHANGED <<blockCache, dirty, blockFaults>>
  BY Zenon DEF handleBlock, handleUnblock
<1> DEFINE k == blockCacheKey(who, target)
<1>3. k \in BlockKeys /\ edit' = [edit EXCEPT ![e] = [pc |-> "invalidate", key |-> k]]
  BY <1>1, KeyOfPair, Zenon
<1>4. (\A q \in Sends : SendRight(send[q]))' /\ DOMAIN send' = Sends
  BY <1>1, EditedSends, Zenon
<1>5. blocks' = blocks \union {<<who, target>>} \/ blocks' = blocks \ {<<who, target>>}
  BY <1>1, Zenon DEF Edited
<1>6. BlockShape'
  <2>1. blocks' \subseteq People \X People
    BY <1>5 DEF BlockInv, BlockShape
  <2> HIDE DEF k
  <2>2. /\ edit' \in [Edits -> [pc : {"new", "invalidate", "done"}, key : BlockKeys \union {{}}]]
        /\ \A x \in Edits : edit'[x].pc = "invalidate" => edit'[x].key \in BlockKeys
    BY <1>3, Zenon DEF BlockInv, BlockShape
  <2> QED
    BY <1>2, <1>4, <2>1, <2>2, Zenon DEF BlockInv, BlockShape
<1>7. InFlight(k)' /\ \A x \in BlockKeys : InFlight(x) => InFlight(x)'
  <2> HIDE DEF k
  <2>1. \A x \in Edits : edit'[x] = IF x = e THEN [pc |-> "invalidate", key |-> k] ELSE edit[x]
    BY <1>3, Zenon DEF BlockInv, BlockShape
  <2> QED
    BY <1>2, <2>1 DEF InFlight
<1>8. ASSUME NEW x \in BlockKeys, Stale(x)' PROVE x \in dirty' \/ InFlight(x)'
  <2>1. CASE x = k
    BY <1>7, <2>1, Zenon
  <2>2. CASE x # k
    <3>1. Says(x)' <=> Says(x)
      BY <1>1, <1>5, <2>2, OtherPairs, Zenon
    <3>2. Stale(x)
      BY <1>2, <1>8, <3>1, Zenon DEF Stale, EntryOf
    <3> QED
      BY <1>2, <1>7, <3>2, Zenon DEF BlockInv, StaleEntryExplained
  <2> QED
    BY <2>1, <2>2, Zenon
<1> QED
  BY <1>4, <1>6, <1>8, Zenon DEF BlockInv, StaleEntryExplained

\* invalidateBlockCache and the TTL: an entry goes, or a lost DEL is marked.
LEMMA DropInv ==
  ASSUME BlockInv, (\E e \in Edits : invalidateBlockCache(e))
                   \/ (\E k \in BlockKeys : ExpireBlockEntry(k))
  PROVE  BlockInv'
<1>1. ASSUME NEW k \in BlockKeys, UNCHANGED <<blocks, send>>,
             \/ blockCache' = [blockCache EXCEPT ![k] = "none"] /\ dirty' = dirty \ {k}
             \/ UNCHANGED blockCache /\ dirty' = dirty \union {k},
             edit' \in [Edits -> [pc : {"new", "invalidate", "done"}, key : BlockKeys \union {{}}]],
             \A e \in Edits : edit'[e] = edit[e] \/ (edit[e].key = k /\ edit'[e].pc = "done"),
             blockFaults' \in 0..MaxBlockFaults
      PROVE  BlockInv'
  <2>1. BlockShape'
    BY <1>1, Zenon DEF BlockInv, BlockShape
  <2>2. (\A q \in Sends : SendRight(send[q]))'
    BY <1>1, Zenon DEF BlockInv, SendRight, Bars
  <2>3. ASSUME NEW x \in BlockKeys, Stale(x)' PROVE x \in dirty' \/ InFlight(x)'
    <3>1. CASE x = k
      BY <1>1, <2>3, <3>1, Zenon DEF Stale, BlockInv, BlockShape
    <3>2. CASE x # k
      <4>1. blockCache'[x] = blockCache[x] /\ (x \in dirty' <=> x \in dirty)
        BY <1>1, <3>2, Zenon DEF BlockInv, BlockShape
      <4>2. InFlight(x) => InFlight(x)'
        BY <1>1, <3>2, Zenon DEF InFlight
      <4>3. Stale(x)
        BY <1>1, <2>3, <4>1, Zenon DEF Stale, Says
      <4> QED
        BY <4>1, <4>2, <4>3, Zenon DEF BlockInv, StaleEntryExplained
    <3> QED
      BY <3>1, <3>2, Zenon
  <2> QED
    BY <2>1, <2>2, <2>3, Zenon DEF BlockInv, StaleEntryExplained
<1>2. ASSUME NEW e \in Edits, invalidateBlockCache(e) PROVE BlockInv'
  <2>1. edit[e].key \in BlockKeys
    BY <1>2, Zenon DEF invalidateBlockCache, BlockInv, BlockShape
  <2>2. /\ edit' \in [Edits -> [pc : {"new", "invalidate", "done"}, key : BlockKeys \union {{}}]]
        /\ \A x \in Edits : edit'[x] = edit[x] \/ (edit[x].key = edit[e].key /\ edit'[x].pc = "done")
    BY <1>2, Zenon DEF invalidateBlockCache, BlockInv, BlockShape
  <2>3. blockFaults' \in 0..MaxBlockFaults
    BY <1>2, BlockFaultBound, Zenon DEF invalidateBlockCache, BlockInv, BlockShape
  <2> QED
    BY <1>1, <1>2, <2>1, <2>2, <2>3, Zenon DEF invalidateBlockCache
<1>3. ASSUME NEW k \in BlockKeys, ExpireBlockEntry(k) PROVE BlockInv'
  BY <1>1, <1>3, Zenon DEF ExpireBlockEntry, BlockInv, BlockShape
<1> QED
  BY <1>2, <1>3, Zenon

\* The inductive invariant of the blocklist and its cache.
THEOREM BlockInductive == BlockSpec => []BlockInv
<1>1. BlockInv /\ [BlockNext]_blockVars => BlockInv'
  <2> SUFFICES ASSUME BlockInv, BlockNext \/ UNCHANGED blockVars PROVE BlockInv'
    BY Zenon
  <2>1. ASSUME NEW r \in Sends, enforceBlocks(r) \/ SendStep(r) PROVE BlockInv'
    BY <2>1, EnforceInv, ReadInv, AskInv, FillInv, AmongInv, Zenon DEF SendStep
  <2>2. ASSUME NEW e \in Edits, handleBlock(e) \/ handleUnblock(e) PROVE BlockInv'
    BY <2>2, EditInv, Zenon
  <2>3. CASE UNCHANGED blockVars
    BY <2>3, EntriesKept, Zenon DEF blockVars, BlockInv, BlockShape, SendRight, Bars
  <2> QED
    BY <2>1, <2>2, <2>3, DropInv, Zenon DEF BlockNext
<1> QED
  BY <1>1, BlockInitInv, PTL DEF BlockSpec

\* A cached decision contradicts the blocklist only for a named reason, and a
\* message passes a block that stood during its whole request only for one, for
\* any users, sends, edits and failed calls (enforceBlocks, handleBlock).
THEOREM BlocksAlwaysHold == BlockSpec => []BlocksHold
<1>1. BlockInv => BlocksHold
  <2> SUFFICES ASSUME BlockInv PROVE BlocksHold
    BY Zenon
  <2>1. \A r \in Sends : send[r].pc \in SendSteps /\ send[r].chat \in Kinds
    BY Zenon DEF BlockInv, SendRight, SendRecs
  <2>2. BlockTypeOK
    BY <2>1, Zenon DEF BlockInv, BlockShape, BlockTypeOK
  <2>3. BlockStops
    BY Zenon DEF BlockInv, SendRight, BlockStops
  <2> QED
    BY <2>2, <2>3, Zenon DEF BlockInv, BlocksHold
<1> QED
  BY <1>1, BlockInductive, PTL

(***************************************************************************)
(* Moderation.                                                             *)
(***************************************************************************)
TaskRecs == [pc : TaskSteps, kind : {"", "ban", "unban", "lookup"}, seen : Causes,
             effect : BOOLEAN, audit : {"none", "written", "lost"}]

\* What a request knows: its kind, that an entry written since its Clear is named,
\* and that what it did is on the audit trail, unless that write failed.
TaskRight(x, entry) ==
  /\ x \in TaskRecs
  /\ x.pc \in {"cached", "close"} => x.kind \in {"ban", "unban"}
  /\ x.pc = "lift" => x.kind = "unban" /\ (entry # "none" => x.seen # "none")
  /\ x.pc = "lookup" => x.kind = "lookup" /\ x.audit = "written"
  /\ x.pc = "done" /\ x.effect => x.audit = "written" \/ (x.kind # "lookup" /\ x.audit = "lost")

ModShape ==
  /\ banned \in BOOLEAN /\ banEntry \in {"none", "fresh", "old"} /\ banGap \in BOOLEAN
  /\ ghostBy \in Causes /\ DOMAIN task = Tasks
  /\ reconciler \in [pc : {"wait", "reload"}, listed : BOOLEAN]
  /\ lastSend \in [passed : BOOLEAN, banned : BOOLEAN, excused : BOOLEAN]
  /\ reports \in [ReportSlots -> {"none", "open", "actioned", "dismissed"}]
  /\ modFaults \in 0..MaxModFaults

\* A banned account without its entry, and an entry of an account that is not
\* banned, each have a cause.
CausesKnown ==
  /\ banned /\ ~Cached => banGap \/ Banning \/ Unbanning
  /\ ~banned /\ Cached => ghostBy # "none"

ModInv == /\ ModShape /\ CausesKnown /\ BanStopsSends /\ UnbannedMaySend
          /\ \A t \in Tasks : TaskRight(task[t], banEntry)

\* Nobody is banned and nothing is asked.
LEMMA ModInitInv == ModInit => ModInv
<1> SUFFICES ASSUME ModInit PROVE ModInv
  BY Zenon
<1>1. reconciler \in [pc : {"wait", "reload"}, listed : BOOLEAN]
  BY Zenon DEF ModInit
<1>2. lastSend \in [passed : BOOLEAN, banned : BOOLEAN, excused : BOOLEAN]
  BY Zenon DEF ModInit
<1>3. banned \in BOOLEAN /\ banGap \in BOOLEAN
  BY Zenon DEF ModInit
<1>6. modFaults \in 0..MaxModFaults
  <2>1. modFaults = 0
    BY Zenon DEF ModInit
  <2> QED
    BY <2>1, ModAssumption
<1>7. reports \in [ReportSlots -> {"none", "open", "actioned", "dismissed"}] /\ DOMAIN task = Tasks
  BY Zenon DEF ModInit
<1>8. ModShape
  BY <1>1, <1>2, <1>3, <1>6, <1>7, Zenon DEF ModInit, ModShape, Causes
<1>4. CausesKnown /\ BanStopsSends /\ UnbannedMaySend
  BY Zenon DEF ModInit, CausesKnown, Cached, BanStopsSends, UnbannedMaySend
<1>5. \A t \in Tasks : TaskRight(task[t], banEntry)
  BY Zenon DEF ModInit, TaskRight, TaskRecs, TaskSteps, Causes
<1> QED
  BY <1>4, <1>5, <1>8, Zenon DEF ModInv

\* A fault stays within its bound.
LEMMA ModFaultBound ==
  ASSUME ModInv, ModFault \/ NoFault
  PROVE  modFaults' \in 0..MaxModFaults
BY ModAssumption DEF ModInv, ModShape, ModFault, NoFault

\* A step of one request that writes no entry.
LEMMA TaskMove ==
  ASSUME ModInv, NEW t \in Tasks, NEW x, task' = [task EXCEPT ![t] = x],
         banEntry' # "none" => banEntry # "none", TaskRight(x, banEntry')
  PROVE  /\ DOMAIN task' = Tasks /\ \A v \in Tasks : TaskRight(task'[v], banEntry')
         /\ \A v \in Tasks : task'[v] = IF v = t THEN x ELSE task[v]
<1>1. /\ DOMAIN task' = Tasks
      /\ \A v \in Tasks : task'[v] = IF v = t THEN x ELSE task[v]
  BY Zenon DEF ModInv, ModShape
<1>2. ASSUME NEW v \in Tasks PROVE TaskRight(task'[v], banEntry')
  <2>1. CASE v = t
    BY <1>1, <2>1, Zenon
  <2>2. CASE v # t
    BY <1>1, <2>2, Zenon DEF ModInv, TaskRight
  <2> QED
    BY <2>1, <2>2, Zenon
<1> QED
  BY <1>1, <1>2, Zenon

\* handleBan's row.
LEMMA BanRowInv ==
  ASSUME ModInv, NEW t \in Tasks, BanRow(t)
  PROVE  ModInv'
<1> DEFINE x == [task[t] EXCEPT !.kind = "ban", !.pc = "cached", !.effect = TRUE]
<1>1. /\ banned' = TRUE /\ ghostBy' = "none" /\ NoFault
      /\ UNCHANGED <<banEntry, reconciler, banGap, lastSend, reports>>
      /\ task' = [task EXCEPT ![t] = x] /\ task[t] \in TaskRecs
  BY Zenon DEF BanRow, ModInv, ModShape, TaskRight
<1>2. x \in TaskRecs /\ x.pc = "cached" /\ x.kind = "ban"
  BY <1>1, Zenon DEF TaskRecs, TaskSteps
<1>3. TaskRight(x, banEntry')
  BY <1>2, Zenon DEF TaskRight
<1> HIDE DEF x
<1>4. /\ DOMAIN task' = Tasks /\ \A v \in Tasks : TaskRight(task'[v], banEntry')
      /\ task'[t] = x
  BY <1>1, <1>3, TaskMove, Zenon
<1>5. ModShape'
  BY <1>1, <1>4, ModFaultBound, Zenon DEF ModInv, ModShape, Causes
<1>6. Banning'
  BY <1>2, <1>4, Zenon DEF Banning
<1> QED
  BY <1>1, <1>4, <1>5, <1>6, Zenon DEF ModInv, CausesKnown, BanStopsSends, UnbannedMaySend

\* A step of a request that is not between its two writes.
LEMMA TaskOnly ==
  ASSUME ModInv, NEW t \in Tasks, NEW x, task' = [task EXCEPT ![t] = x], ModFault \/ NoFault,
         task[t].pc \notin {"cached", "lift"}, TaskRight(x, banEntry),
         UNCHANGED <<banned, banEntry, reconciler, banGap, ghostBy, lastSend, reports>>
  PROVE  ModInv'
<1>1. /\ DOMAIN task' = Tasks /\ \A v \in Tasks : TaskRight(task'[v], banEntry')
      /\ \A v \in Tasks : task'[v] = IF v = t THEN x ELSE task[v]
  BY TaskMove, Zenon
<1>2. ModShape'
  BY <1>1, ModFaultBound DEF ModInv, ModShape
<1>3. (Banning => Banning') /\ (Unbanning => Unbanning') /\ Cached' = Cached
  BY <1>1, Zenon DEF Banning, Unbanning, Cached
<1> QED
  BY <1>1, <1>2, <1>3, Zenon DEF ModInv, CausesKnown, BanStopsSends, UnbannedMaySend

\* The tail of handleBan and handleUnban, and handleLookup.
LEMMA QuietTasks ==
  ASSUME ModInv, NEW t \in Tasks, CloseTask(t) \/ LookupAudit(t) \/ LookupAnswer(t)
  PROVE  ModInv'
<1>1. TaskRight(task[t], banEntry) /\ DOMAIN task = Tasks
  BY Zenon DEF ModInv, ModShape
<1>2. ASSUME CloseTask(t) PROVE ModInv'
  <2>1. PICK a \in {"written", "lost"} :
          task' = [task EXCEPT ![t] = [task[t] EXCEPT !.pc = "done", !.audit = a]]
    BY <1>1, <1>2, Zenon DEF CloseTask
  <2>2. TaskRight([task[t] EXCEPT !.pc = "done", !.audit = a], banEntry)
    BY <1>1, <1>2, Zenon DEF CloseTask, TaskRight, TaskRecs, TaskSteps
  <2> QED
    BY <1>2, <2>1, <2>2, TaskOnly, Zenon DEF CloseTask
<1>3. ASSUME LookupAudit(t) PROVE ModInv'
  <2>1. PICK p \in {"lookup", "failed"}, a \in {"written", "lost"} :
          /\ task' = [task EXCEPT ![t] = [task[t] EXCEPT !.kind = "lookup", !.pc = p, !.audit = a]]
          /\ p = "lookup" => a = "written"
    BY <1>1, <1>3, Zenon DEF LookupAudit
  <2>2. TaskRight([task[t] EXCEPT !.kind = "lookup", !.pc = p, !.audit = a], banEntry)
    BY <1>1, <2>1, Zenon DEF TaskRight, TaskRecs, TaskSteps
  <2> QED
    BY <1>3, <2>1, <2>2, TaskOnly, Zenon DEF LookupAudit
<1>4. ASSUME LookupAnswer(t) PROVE ModInv'
  <2>1. task' = [task EXCEPT ![t] = [task[t] EXCEPT !.pc = "done", !.effect = TRUE]]
    BY <1>1, <1>4, Zenon DEF LookupAnswer
  <2>2. TaskRight([task[t] EXCEPT !.pc = "done", !.effect = TRUE], banEntry)
    BY <1>1, <1>4, Zenon DEF LookupAnswer, TaskRight, TaskRecs, TaskSteps
  <2> QED
    BY <1>4, <2>1, <2>2, TaskOnly, Zenon DEF LookupAnswer
<1> QED
  BY <1>2, <1>3, <1>4, Zenon

\* An entry written by a ban or by the reconciler is named to every unban between
\* its two writes, and is the cause when the account is not banned.
LEMMA SetEntryInv ==
  ASSUME ModInv, NEW ts, NEW cause \in Causes \ {"none"}, SetEntry(cause, ts), NoFault,
         \A v \in Tasks : TaskRight(ts[v], "none"),
         reconciler' \in [pc : {"wait", "reload"}, listed : BOOLEAN],
         UNCHANGED <<banned, lastSend, reports>>
  PROVE  ModInv'
<1>1. /\ banEntry' = "fresh" /\ banGap' = FALSE /\ ghostBy' = IF banned THEN "none" ELSE cause
      /\ task' = Tell(cause, ts)
  BY Zenon DEF SetEntry
<1>2. DOMAIN task' = Tasks
  BY <1>1, Zenon DEF Tell
<1>3. ASSUME NEW v \in Tasks PROVE TaskRight(task'[v], banEntry')
  <2>1. CASE ts[v].pc = "lift" /\ ts[v].kind = "unban"
    <3>1. task'[v] = [ts[v] EXCEPT !.seen = cause]
      BY <1>1, <2>1, Zenon DEF Tell
    <3> QED
      BY <1>1, <2>1, <3>1, Zenon DEF TaskRight, TaskRecs
  <2>2. CASE ~(ts[v].pc = "lift" /\ ts[v].kind = "unban")
    <3>1. task'[v] = ts[v]
      BY <1>1, <2>2, Zenon DEF Tell
    <3> QED
      BY <1>1, <2>2, <3>1, Zenon DEF TaskRight
  <2> QED
    BY <2>1, <2>2, Zenon
<1>4. ModShape'
  BY <1>1, <1>2, ModFaultBound, Zenon DEF ModInv, ModShape, Causes
<1> QED
  BY <1>1, <1>3, <1>4, Zenon DEF ModInv, CausesKnown, Cached, BanStopsSends, UnbannedMaySend

\* handleBan's entry: written, or lost to a fault that opens a gap.
LEMMA BanEntryInv ==
  ASSUME ModInv, NEW t \in Tasks, BanEntry(t)
  PROVE  ModInv'
<1> DEFINE x == [task[t] EXCEPT !.pc = "close"]
           ts == [task EXCEPT ![t].pc = "close"]
<1>1. TaskRight(task[t], banEntry) /\ DOMAIN task = Tasks /\ task[t].pc = "cached"
  BY Zenon DEF ModInv, ModShape, BanEntry
<1>2. TaskRight(x, banEntry) /\ ts = [task EXCEPT ![t] = x]
  BY <1>1, Zenon DEF TaskRight, TaskRecs, TaskSteps
<1>3. \/ SetEntry("concurrent ban", ts) /\ NoFault
      \/ /\ ModFault /\ task' = ts /\ banGap' = (banGap \/ (banned /\ ~Cached))
         /\ UNCHANGED <<banEntry, ghostBy>>
  BY Zenon DEF BanEntry
<1>4. UNCHANGED <<banned, reconciler, lastSend, reports>>
  BY Zenon DEF BanEntry
<1> HIDE DEF x, ts
<1>5. CASE SetEntry("concurrent ban", ts) /\ NoFault
  <2>1. \A v \in Tasks : TaskRight(ts[v], "none")
    BY <1>1, <1>2 DEF ModInv, TaskRight
  <2>2. "concurrent ban" \in Causes \ {"none"}
    BY Zenon DEF Causes
  <2> QED
    BY <1>4, <1>5, <2>1, <2>2, SetEntryInv, Zenon DEF ModInv, ModShape
<1>6. CASE /\ ModFault /\ task' = ts /\ banGap' = (banGap \/ (banned /\ ~Cached))
           /\ UNCHANGED <<banEntry, ghostBy>>
  <2>1. DOMAIN task' = Tasks /\ \A v \in Tasks : TaskRight(task'[v], banEntry')
    BY <1>2, <1>6, TaskMove, Zenon
  <2>2. ModShape'
    BY <1>4, <1>6, <2>1, ModFaultBound, Zenon DEF ModInv, ModShape
  <2>3. CausesKnown'
    BY <1>4, <1>6, Zenon DEF ModInv, CausesKnown, Cached
  <2> QED
    BY <1>4, <2>1, <2>2, <2>3, Zenon DEF ModInv, BanStopsSends, UnbannedMaySend
<1> QED
  BY <1>3, <1>5, <1>6, Zenon

\* handleUnban's Clear: from here to its Lift the unban explains a missing entry.
LEMMA UnbanClearInv ==
  ASSUME ModInv, NEW t \in Tasks, UnbanClear(t)
  PROVE  ModInv'
<1>1. TaskRight(task[t], banEntry) /\ DOMAIN task = Tasks /\ task[t].pc = "new"
  BY Zenon DEF ModInv, ModShape, UnbanClear
<1>2. PICK s \in Causes :
        /\ task' = [task EXCEPT ![t] = [task[t] EXCEPT !.kind = "unban", !.pc = "lift", !.seen = s]]
        /\ \/ NoFault /\ ClearEntry
           \/ ModFault /\ UNCHANGED <<banEntry, ghostBy>> /\ s = "clear failed"
  <2>1. CASE NoFault /\ ClearEntry /\ task' = [task EXCEPT ![t].kind = "unban", ![t].pc = "lift"]
    <3>1. /\ task[t].seen \in Causes
          /\ [task[t] EXCEPT !.kind = "unban", !.pc = "lift"]
               = [task[t] EXCEPT !.kind = "unban", !.pc = "lift", !.seen = task[t].seen]
      BY <1>1, Zenon DEF TaskRight, TaskRecs
    <3>2. task' = [task EXCEPT ![t] = [task[t] EXCEPT !.kind = "unban", !.pc = "lift"]]
      BY <1>1, <2>1, Zenon
    <3> QED
      BY <2>1, <3>1, <3>2, Zenon
  <2>2. CASE /\ ModFault /\ UNCHANGED <<banEntry, ghostBy>>
             /\ task' = [[task EXCEPT ![t].kind = "unban", ![t].pc = "lift"]
                           EXCEPT ![t].seen = "clear failed"]
    <3>1. "clear failed" \in Causes
      BY Zenon DEF Causes
    <3>2. task' = [task EXCEPT ![t] = [task[t] EXCEPT !.kind = "unban", !.pc = "lift",
                                                      !.seen = "clear failed"]]
      BY <1>1, <2>2, Zenon
    <3> QED
      BY <2>2, <3>1, <3>2, Zenon
  <2> QED
    BY <2>1, <2>2, Zenon DEF UnbanClear
<1> DEFINE x == [task[t] EXCEPT !.kind = "unban", !.pc = "lift", !.seen = s]
<1>3. UNCHANGED <<banned, reconciler, banGap, lastSend, reports>>
  BY Zenon DEF UnbanClear
<1>4. \/ banEntry' = "none" /\ ghostBy' = "none" /\ NoFault
      \/ UNCHANGED <<banEntry, ghostBy>> /\ s = "clear failed" /\ ModFault
  BY <1>2, Zenon DEF ClearEntry
<1>5. TaskRight(x, banEntry') /\ x.pc = "lift"
  BY <1>1, <1>2, <1>4, Zenon DEF TaskRight, TaskRecs, TaskSteps
<1>6. task' = [task EXCEPT ![t] = x]
  BY <1>2, Zenon
<1> HIDE DEF x
<1>7. /\ DOMAIN task' = Tasks /\ \A v \in Tasks : TaskRight(task'[v], banEntry')
      /\ task'[t] = x
  BY <1>4, <1>5, <1>6, TaskMove, Zenon
<1>8. ModShape'
  <2>1. ghostBy' \in Causes /\ banEntry' \in {"none", "fresh", "old"}
    BY <1>4, Zenon DEF ModInv, ModShape, Causes
  <2>2. modFaults' \in 0..MaxModFaults
    BY <1>4, ModFaultBound, Zenon
  <2> QED
    BY <1>3, <1>7, <2>1, <2>2, Zenon DEF ModInv, ModShape
<1>9. Unbanning'
  BY <1>5, <1>7, Zenon DEF Unbanning
<1> QED
  BY <1>3, <1>4, <1>7, <1>8, <1>9, Zenon
     DEF ModInv, CausesKnown, Cached, BanStopsSends, UnbannedMaySend

\* handleUnban's Lift: an entry that is there was named; a failure opens a gap.
LEMMA UnbanRowInv ==
  ASSUME ModInv, NEW t \in Tasks, UnbanRow(t)
  PROVE  ModInv'
<1>1. /\ TaskRight(task[t], banEntry) /\ DOMAIN task = Tasks /\ task[t].pc = "lift"
      /\ UNCHANGED <<banEntry, reconciler, lastSend, reports>>
  BY Zenon DEF ModInv, ModShape, UnbanRow
<1>2. CASE /\ banned /\ NoFault /\ banned' = FALSE /\ banGap' = FALSE
           /\ ghostBy' = IF Cached THEN task[t].seen ELSE "none"
           /\ task' = [task EXCEPT ![t].pc = "close", ![t].effect = TRUE]
  <2> DEFINE x == [task[t] EXCEPT !.pc = "close", !.effect = TRUE]
  <2>1. TaskRight(x, banEntry') /\ task' = [task EXCEPT ![t] = x]
    BY <1>1, <1>2, Zenon DEF TaskRight, TaskRecs, TaskSteps
  <2>2. ghostBy' \in Causes /\ (Cached => ghostBy' # "none")
    BY <1>1, <1>2, Zenon DEF TaskRight, TaskRecs, Causes, Cached
  <2> HIDE DEF x
  <2>3. DOMAIN task' = Tasks /\ \A v \in Tasks : TaskRight(task'[v], banEntry')
    BY <1>1, <2>1, TaskMove, Zenon
  <2>4. ModShape'
    BY <1>1, <1>2, <2>2, <2>3, ModFaultBound, Zenon DEF ModInv, ModShape
  <2> QED
    BY <1>1, <1>2, <2>2, <2>3, <2>4, Zenon DEF ModInv, CausesKnown, Cached, BanStopsSends, UnbannedMaySend
<1>3. CASE /\ \/ ~banned /\ NoFault /\ UNCHANGED banGap
              \/ banned /\ ModFault /\ banGap' = (banGap \/ ~Cached)
           /\ task' = [task EXCEPT ![t].pc = "failed"] /\ UNCHANGED <<banned, ghostBy>>
  <2> DEFINE x == [task[t] EXCEPT !.pc = "failed"]
  <2>1. TaskRight(x, banEntry') /\ task' = [task EXCEPT ![t] = x]
    BY <1>1, <1>3, Zenon DEF TaskRight, TaskRecs, TaskSteps
  <2> HIDE DEF x
  <2>2. DOMAIN task' = Tasks /\ \A v \in Tasks : TaskRight(task'[v], banEntry')
    BY <1>1, <2>1, TaskMove, Zenon
  <2>3. ModShape'
    BY <1>1, <1>3, <2>2, ModFaultBound, Zenon DEF ModInv, ModShape
  <2>4. CausesKnown'
    BY <1>1, <1>3, Zenon DEF ModInv, CausesKnown, Cached
  <2> QED
    BY <1>1, <2>2, <2>3, <2>4, Zenon DEF ModInv, BanStopsSends, UnbannedMaySend
<1> QED
  BY <1>2, <1>3, Zenon DEF UnbanRow

\* A round of the reconciler, an entry that expires, a Redis that restarts: the
\* requests stand as they are, and a loss of the entry opens a gap.
LEMMA EntryInv ==
  ASSUME ModInv, ReconcileList \/ Reload \/ ExpireBan \/ FlushBans
  PROVE  ModInv'
<1>1. ASSUME UNCHANGED <<banned, task, lastSend, reports>>, ModFault \/ NoFault,
             reconciler' \in [pc : {"wait", "reload"}, listed : BOOLEAN],
             banEntry' \in {"none", "fresh", "old"}, banGap' \in BOOLEAN, ghostBy' \in Causes,
             banEntry' # "none" => banEntry # "none", CausesKnown'
      PROVE  ModInv'
  <2>1. ModShape'
    BY <1>1, ModFaultBound, Zenon DEF ModInv, ModShape
  <2>2. \A v \in Tasks : TaskRight(task'[v], banEntry')
    BY <1>1, Zenon DEF ModInv, TaskRight
  <2> QED
    BY <1>1, <2>1, <2>2, Zenon DEF ModInv, BanStopsSends, UnbannedMaySend
<1>2. Aged \in {"none", "fresh", "old"} /\ (Aged # "none" <=> Cached)
  BY Zenon DEF ModInv, ModShape, Aged, Cached
<1>3. ASSUME UNCHANGED <<banned, task, banGap, ghostBy>>, banEntry' # "none" <=> Cached
      PROVE  CausesKnown'
  BY <1>3, Zenon DEF ModInv, CausesKnown, Cached, Banning, Unbanning
<1>4. CASE ReconcileList
  <2>1. UNCHANGED <<banned, task, banGap, ghostBy, lastSend, reports>> /\ (ModFault \/ NoFault)
    BY <1>4, Zenon DEF ReconcileList
  <2>2. reconciler' \in [pc : {"wait", "reload"}, listed : BOOLEAN]
    <3>1. \A b \in BOOLEAN : [pc |-> "reload", listed |-> b]
                                \in [pc : {"wait", "reload"}, listed : BOOLEAN]
      BY Zenon
    <3>2. reconciler' = [pc |-> "reload", listed |-> banned] \/ reconciler' = reconciler
      BY <1>4, Zenon DEF ReconcileList
    <3> QED
      BY <3>1, <3>2, Zenon DEF ModInv, ModShape
  <2>3. (banEntry' # "none" <=> Cached) /\ banEntry' \in {"none", "fresh", "old"}
    BY <1>2, <1>4, Zenon DEF ReconcileList, ModInv, ModShape, Cached
  <2> QED
    BY <1>1, <1>3, <2>1, <2>2, <2>3, Zenon DEF ModInv, ModShape, Cached
<1>5. CASE Reload
  <2>1. reconciler' \in [pc : {"wait", "reload"}, listed : BOOLEAN]
    BY <1>5, Zenon DEF Reload, ModInv, ModShape
  <2>2. CASE SetEntry("reconciler", task) /\ NoFault
    <3>1. \A v \in Tasks : TaskRight(task[v], "none")
      BY Zenon DEF ModInv, TaskRight
    <3>2. "reconciler" \in Causes \ {"none"}
      BY Zenon DEF Causes
    <3> QED
      BY <1>5, <2>1, <2>2, <3>1, <3>2, SetEntryInv, Zenon DEF Reload
  <2>3. CASE banEntry' = Aged /\ UNCHANGED <<banGap, ghostBy, task>> /\ (ModFault \/ NoFault)
    BY <1>1, <1>2, <1>3, <1>5, <2>1, <2>3, Zenon DEF Reload, ModInv, ModShape, Cached
  <2> QED
    BY <1>5, <2>2, <2>3, Zenon DEF Reload
<1>6. CASE ExpireBan \/ FlushBans
  <2>1. /\ UNCHANGED <<banned, task, reconciler, lastSend, reports>> /\ (ModFault \/ NoFault)
        /\ banEntry' = "none" /\ ghostBy' = "none"
    BY <1>6, Zenon DEF ExpireBan, FlushBans
  <2>2. banGap' \in BOOLEAN /\ (banned => banGap')
    BY <1>6, Zenon DEF ExpireBan, FlushBans, ModInv, ModShape
  <2>3. CausesKnown'
    BY <2>1, <2>2, Zenon DEF CausesKnown, Cached
  <2> QED
    BY <1>1, <2>1, <2>2, <2>3, Zenon DEF ModInv, ModShape, Causes
<1> QED
  BY <1>4, <1>5, <1>6, Zenon

\* The check of a send, and the reports.
LEMMA ChatInv ==
  ASSUME ModInv,
         \/ refuseIfBanned
         \/ \E i \in ReportSlots :
              handleReport(i) \/ \E v \in {"actioned", "dismissed"} : handleResolve(i, v)
  PROVE  ModInv'
<1>1. ASSUME UNCHANGED <<banned, banEntry, task, reconciler, banGap, ghostBy>>, ModFault \/ NoFault,
             lastSend' \in [passed : BOOLEAN, banned : BOOLEAN, excused : BOOLEAN],
             reports' \in [ReportSlots -> {"none", "open", "actioned", "dismissed"}],
             BanStopsSends', UnbannedMaySend'
      PROVE  ModInv'
  <2>1. ModShape'
    BY <1>1, ModFaultBound, Zenon DEF ModInv, ModShape
  <2>2. CausesKnown'
    BY <1>1, Zenon DEF ModInv, CausesKnown, Cached, Banning, Unbanning
  <2> QED
    BY <1>1, <2>1, <2>2, Zenon DEF ModInv
<1>2. CASE refuseIfBanned
  <2>1. ASSUME NEW p \in BOOLEAN, NEW b \in BOOLEAN, NEW e \in BOOLEAN,
               lastSend' = [passed |-> p, banned |-> b, excused |-> e], b /\ p => e, ~b /\ ~p => e
        PROVE  /\ lastSend' \in [passed : BOOLEAN, banned : BOOLEAN, excused : BOOLEAN]
               /\ BanStopsSends' /\ UnbannedMaySend'
    BY <2>1, Zenon DEF BanStopsSends, UnbannedMaySend
  <2>2. PICK e \in BOOLEAN, p \in BOOLEAN :
          /\ lastSend' = [passed |-> p, banned |-> banned, excused |-> e]
          /\ (banned /\ p => e) /\ (~banned /\ ~p => e)
    <3>1. CASE lastSend' = [passed |-> TRUE, banned |-> banned, excused |-> TRUE]
      BY <3>1, Zenon
    <3>2. CASE lastSend' = [passed |-> ~Cached, banned |-> banned,
                  excused |-> IF banned THEN banGap \/ Banning \/ Unbanning ELSE ghostBy # "none"]
      <4> DEFINE e == IF banned THEN banGap \/ Banning \/ Unbanning ELSE ghostBy # "none"
      <4>1. e \in BOOLEAN /\ (~Cached) \in BOOLEAN
        BY Zenon DEF Cached, ModInv, ModShape, Banning, Unbanning
      <4>2. (banned /\ ~Cached => e) /\ (~banned /\ ~(~Cached) => e)
        BY Zenon DEF ModInv, CausesKnown
      <4> QED
        BY <3>2, <4>1, <4>2, Zenon
    <3> QED
      BY <1>2, <3>1, <3>2, Zenon DEF refuseIfBanned
  <2>3. /\ UNCHANGED <<banned, banEntry, task, reconciler, banGap, ghostBy, reports>>
        /\ ModFault \/ NoFault
    BY <1>2, Zenon DEF refuseIfBanned
  <2> QED
    BY <1>1, <2>1, <2>2, <2>3, Zenon DEF ModInv, ModShape
<1>3. ASSUME NEW i \in ReportSlots,
             handleReport(i) \/ \E v \in {"actioned", "dismissed"} : handleResolve(i, v)
      PROVE  ModInv'
  <2>1. /\ UNCHANGED <<banned, banEntry, task, reconciler, banGap, ghostBy, lastSend>> /\ NoFault
        /\ reports' \in [ReportSlots -> {"none", "open", "actioned", "dismissed"}]
    BY <1>3 DEF handleReport, handleResolve, CreateReport, ResolveReport, ModInv, ModShape
  <2> QED
    BY <1>1, <2>1, Zenon DEF ModInv, ModShape, BanStopsSends, UnbannedMaySend
<1> QED
  BY <1>2, <1>3, Zenon

\* The inductive invariant of bans, their entries and the requests about them.
THEOREM ModInductive == ModSpec => []ModInv
<1>1. ModInv /\ [ModNext]_modVars => ModInv'
  <2> SUFFICES ASSUME ModInv, ModNext \/ UNCHANGED modVars PROVE ModInv'
    BY Zenon
  <2>1. CASE UNCHANGED modVars
    BY <2>1 DEF modVars, ModInv, ModShape, CausesKnown, Cached, Banning, Unbanning,
                BanStopsSends, UnbannedMaySend
  <2> QED
    BY <2>1, BanRowInv, UnbanClearInv, QuietTasks, BanEntryInv, UnbanRowInv, EntryInv, ChatInv, Zenon
       DEF ModNext, TaskStep
<1> QED
  BY <1>1, ModInitInv, PTL DEF ModSpec

\* A banned account sends, and an account that is not banned is stopped, only in
\* the named windows, and every answered effect is on the audit trail, for any
\* operators, reports and failed calls (refuseIfBanned, handleBan, handleUnban).
THEOREM BansAlwaysHold == ModSpec => []BansHold
<1>1. ModInv => BansHold
  <2> SUFFICES ASSUME ModInv PROVE BansHold
    BY Zenon
  <2>1. ModTypeOK
    BY Zenon DEF ModInv, ModShape, ModTypeOK, TaskRight, TaskRecs
  <2>2. EffectsAreAudited
    BY Zenon DEF ModInv, TaskRight, EffectsAreAudited
  <2> QED
    BY <2>1, <2>2, Zenon DEF ModInv, BansHold
<1> QED
  BY <1>1, ModInductive, PTL

\* Of two operators resolving one report the second changes nothing, and no other
\* step touches a resolved report (Reports.Resolve).
THEOREM ResolvedStaysResolved == ModSpec => ResolutionStands
<1>1. ModInv /\ [ModNext]_modVars =>
        [\A i \in ReportSlots : reports[i] \in {"actioned", "dismissed"}
                                  => reports'[i] = reports[i]]_reports
  <2> SUFFICES ASSUME ModInv, ModNext, reports' # reports, NEW i \in ReportSlots,
                      reports[i] \in {"actioned", "dismissed"}
               PROVE  reports'[i] = reports[i]
    BY Zenon DEF modVars
  <2>1. PICK k \in ReportSlots :
          handleReport(k) \/ \E v \in {"actioned", "dismissed"} : handleResolve(k, v)
    BY Zenon DEF ModNext, TaskStep, BanRow, UnbanClear, LookupAudit, BanEntry, CloseTask, UnbanRow,
           LookupAnswer, ReconcileList, Reload, ExpireBan, FlushBans, refuseIfBanned
  <2> QED
    BY <2>1, Zenon DEF handleReport, handleResolve, CreateReport, ResolveReport, ModInv, ModShape
<1> QED
  BY <1>1, ModInductive, PTL DEF ModSpec, ResolutionStands

(***************************************************************************)
(* KafkaConsumer.                                                          *)
(***************************************************************************)
\* Per-pod part of the inductive invariant, named so that the proof can keep it
\* folded for the pods an action does not touch.
PodInv(m) == /\ pos[m] <= published
             /\ phase[m] \in {"fetch", "commit"} => 0..(pos[m] - 1) \subseteq done
             /\ phase[m] \in {"handle", "dlq"} =>
                  /\ cur[m] < published
                  /\ 0..(cur[m] - 1) \subseteq done
                  /\ 0..(pos[m] - 1) \subseteq done \union {cur[m]}
             /\ phase[m] = "commit" => cur[m] \in done

\* The committed offset never points past the end of the partition.
LEMMA CommittedBound == ASSUME ConsumerTypeOK, NoRecordLost
                        PROVE  committed <= published
<1>1. CASE committed = 0
  BY <1>1 DEF ConsumerTypeOK
<1>2. CASE committed # 0
  <2>1. committed - 1 \in 0..(committed - 1)
    BY <1>2 DEF ConsumerTypeOK
  <2>2. committed - 1 \in 0..(published - 1)
    BY <2>1, Zenon DEF ConsumerTypeOK, NoRecordLost
  <2> QED
    BY <2>2 DEF ConsumerTypeOK
<1> QED
  BY <1>1, <1>2, Zenon

\* A consumer group that has read nothing satisfies the invariant.
LEMMA InitIInv == ConsumerInit => ConsumerInv
BY ConsumerAssumption DEF ConsumerInit, ConsumerInv, ConsumerTypeOK, NoRecordLost, HandledInOrder, Phases

\* Environment steps: nothing is finished or un-finished, and a reader can only
\* be sent back to the committed offset.
LEMMA EnvironmentIInv ==
  ASSUME ConsumerInv, NEW m \in Members, Publish \/ Rebalance(m) \/ PodCrash(m) \/ Start(m)
  PROVE  ConsumerInv'
<1> USE ConsumerAssumption
<1>0. committed <= published
  BY CommittedBound, Zenon DEF ConsumerInv
<1>1. CASE Publish
  BY <1>1 DEF Publish, ConsumerInv, ConsumerTypeOK, NoRecordLost, HandledInOrder
<1>2. CASE Rebalance(m)
  BY <1>0, <1>2 DEF Rebalance, Fault, ConsumerInv, ConsumerTypeOK, NoRecordLost, HandledInOrder
<1>3. CASE PodCrash(m)
  BY <1>3 DEF PodCrash, Fault, ConsumerInv, ConsumerTypeOK, NoRecordLost, HandledInOrder, Phases
<1>4. CASE Start(m)
  BY <1>0, <1>4, Zenon DEF Start, ConsumerInv, ConsumerTypeOK, NoRecordLost, HandledInOrder, Phases
<1> QED
  BY <1>1, <1>2, <1>3, <1>4, Zenon

\* Steps of the loop.  Fetch hands out an offset with only finished records
\* below it; only HandleOk and DeadLetter add to done, and they add the offset
\* being worked on; Commit publishes an offset whose prefix is finished.
LEMMA WorkIInv == ASSUME ConsumerInv, NEW m \in Members, Work(m)
                  PROVE  ConsumerInv'
<1> USE ConsumerAssumption
<1>1. CASE Fetch(m)
  BY <1>1 DEF Fetch, ConsumerInv, ConsumerTypeOK, NoRecordLost, HandledInOrder, Phases
<1>2. CASE HandleOk(m) \/ DeadLetter(m)
  <2>0. /\ done' = done \union {cur[m]} /\ phase[m] \in {"handle", "dlq"}
        /\ phase' = [phase EXCEPT ![m] = "commit"]
        /\ UNCHANGED <<published, committed, owner, pos, cur, attempt, faults>>
    BY <1>2, Zenon DEF HandleOk, DeadLetter
  <2>1. ConsumerTypeOK'
    <3>1. cur[m] \in 0..(published - 1)
      BY <2>0 DEF ConsumerInv, ConsumerTypeOK
    <3>2. phase' \in [Members -> Phases]
      BY <2>0, Zenon DEF ConsumerInv, ConsumerTypeOK, Phases
    <3>3. done' \subseteq 0..(published' - 1)
      BY <2>0, <3>1, Zenon DEF ConsumerInv, ConsumerTypeOK
    <3> QED
      BY <2>0, <3>2, <3>3, Zenon DEF ConsumerInv, ConsumerTypeOK
  <2>2. NoRecordLost' /\ HandledInOrder'
    BY <2>0, Zenon DEF ConsumerInv, ConsumerTypeOK, NoRecordLost, HandledInOrder
  <2>3. ASSUME NEW n \in Members PROVE PodInv(n)'
    BY <2>0, Zenon DEF ConsumerInv, ConsumerTypeOK, PodInv
  <2> QED
    BY <2>1, <2>2, <2>3, Zenon DEF ConsumerInv, PodInv
<1>3. CASE HandleFail(m)
  BY <1>3 DEF HandleFail, ConsumerInv, ConsumerTypeOK, NoRecordLost, HandledInOrder, Phases
<1>4. CASE DeadLetterFail(m)
  BY <1>4 DEF DeadLetterFail, Fault, ConsumerInv, ConsumerTypeOK, NoRecordLost, HandledInOrder, Phases
<1>5. CASE Commit(m)
  <2>1. 0..cur[m] \subseteq done
    BY <1>5 DEF Commit, ConsumerInv, ConsumerTypeOK, HandledInOrder
  <2> QED
    BY <1>5, <2>1 DEF Commit, ConsumerInv, ConsumerTypeOK, NoRecordLost, HandledInOrder, Phases
<1>6. CASE CommitFail(m)
  BY <1>6 DEF CommitFail, Fault, ConsumerInv, ConsumerTypeOK, NoRecordLost, HandledInOrder, Phases
<1> QED
  BY <1>1, <1>2, <1>3, <1>4, <1>5, <1>6, Zenon DEF Work

\* The inductive invariant of the consumer loop holds in every reachable state.
THEOREM ConsumerInductive == ConsumerSpec => []ConsumerInv
<1>1. ConsumerInit => ConsumerInv
  BY InitIInv, Zenon
<1>2. ConsumerInv /\ [ConsumerNext]_consumerVars => ConsumerInv'
  <2> SUFFICES ASSUME ConsumerInv, [ConsumerNext]_consumerVars PROVE ConsumerInv'
    BY Zenon
  <2>1. CASE Publish
    BY <2>1, EnvironmentIInv, ConsumerAssumption, Zenon
  <2>2. CASE \E m \in Members : Rebalance(m) \/ PodCrash(m) \/ Start(m) \/ Work(m)
    BY <2>2, EnvironmentIInv, WorkIInv, Zenon
  <2>3. CASE UNCHANGED consumerVars
    BY <2>3, Zenon DEF consumerVars, ConsumerInv, ConsumerTypeOK, NoRecordLost, HandledInOrder
  <2> QED
    BY <2>1, <2>2, <2>3, Zenon DEF ConsumerNext
<1> QED
  BY <1>1, <1>2, PTL DEF ConsumerSpec

\* No record is lost: Run commits an offset only when the record, and all the
\* records before it, were handled, skipped or dead-lettered.
THEOREM ConsumerLosesNothing == ConsumerSpec => []NoRecordLost
BY ConsumerInductive, PTL DEF ConsumerInv

\* Records are finished in partition order.
THEOREM ConsumerKeepsOrder == ConsumerSpec => []HandledInOrder
BY ConsumerInductive, PTL DEF ConsumerInv

\* The group of consumer loops implements the in-order queue: every step
\* appends a record, finishes the first unfinished one, or changes nothing the
\* queue can see.
THEOREM ConsumerImplementsQueue == ConsumerSpec => ImplementsQueue
<1>1. ConsumerInit => Queue!Init
  BY Zenon DEF ConsumerInit, Queue!Init
<1>2. ConsumerInv /\ [ConsumerNext]_consumerVars => [Queue!Next]_<<published, done>>
  <2> SUFFICES ASSUME ConsumerInv, [ConsumerNext]_consumerVars
               PROVE  Queue!Append \/ Queue!Finish \/ UNCHANGED <<published, done>>
    BY Zenon DEF Queue!Next
  <2>1. CASE Publish
    BY <2>1, Zenon DEF Publish, Queue!Append
  <2>2. ASSUME NEW m \in Members, HandleOk(m) \/ DeadLetter(m)
        PROVE  Queue!Finish \/ UNCHANGED <<published, done>>
    <3>1. /\ done' = done \union {cur[m]} /\ published' = published
          /\ cur[m] \in 0..(published - 1) /\ 0..(cur[m] - 1) \subseteq done
      BY <2>2 DEF HandleOk, DeadLetter, ConsumerInv, ConsumerTypeOK
    <3>2. CASE cur[m] \in done
      BY <3>1, <3>2, Zenon
    <3>3. CASE cur[m] \notin done
      BY <3>1, <3>3, Zenon DEF Queue!Finish
    <3> QED
      BY <3>2, <3>3, Zenon
  <2>3. ASSUME NEW m \in Members,
               Rebalance(m) \/ PodCrash(m) \/ Start(m) \/ Fetch(m) \/ HandleFail(m)
                 \/ DeadLetterFail(m) \/ Commit(m) \/ CommitFail(m)
        PROVE  UNCHANGED <<published, done>>
    BY <2>3, Zenon DEF Rebalance, PodCrash, Start, Fetch, HandleFail, DeadLetterFail, Commit, CommitFail
  <2>4. CASE UNCHANGED consumerVars
    BY <2>4, Zenon DEF consumerVars
  <2> QED
    BY <2>1, <2>2, <2>3, <2>4, Zenon DEF ConsumerNext, Work
<1> QED
  BY <1>1, <1>2, ConsumerInductive, PTL DEF ConsumerSpec, ImplementsQueue, Queue!Spec

(***************************************************************************)
(* Media.                                                                  *)
(***************************************************************************)
ProcSteps == {"idle", "attrs", "download", "scan", "delete", "derive", "upload", "announce"}
JobStates == {"queued", "done", "dlq"}

ProcRow == [pc : ProcSteps, job : Nat, tries : 0..MaxMediaRetries, ver : Nat,
            left : Seq(Variants), made : SUBSET Variants]

\* A processor's copy is a version uploaded before, none newer than what is stored;
\* past the scan it is known for what it is; what it has made is stored, and copied
\* before it is announced.
ProcRight(r, ps, f, n, up, vs, pr) ==
  /\ r.job <= n /\ (r.pc = "idle" <=> r.job = 0)
  /\ r.ver <= Len(ps) /\ (f = 0 \/ r.ver <= f)
  /\ r.pc \notin {"idle", "attrs", "download"} => r.ver # 0
  /\ r.pc = "delete" => ps[r.ver] = "infected"
  /\ r.pc \in {"derive", "upload", "announce"} => ps[r.ver] # "infected" /\ up.size = "small"
  /\ \A v \in r.made : vs[v] # 0 /\ (r.pc = "announce" => pr[v] # 0)

\* A processor that will not end its job while the stored object is infected.
OnIt(r, f) == r.pc \in {"attrs", "download"} \/ (r.pc \in {"scan", "delete"} /\ r.ver = f)

\* An infected object that is due has a job, none of whose processors read an older one.
CaseOpen(pc, f, js) ==
  \E j \in 1..Len(js) : /\ js[j] \in {"queued", "dlq"}
                        /\ \A w \in Procs : pc[w].job = j => OnIt(pc[w], f)

MediaShape ==
  /\ upload \in [kind : UploadKinds \union {"none"}, size : SizeClasses]
  /\ puts \in Seq(Contents) /\ Len(puts) <= MaxPuts
  /\ jobs \in Seq(JobStates) /\ Len(jobs) <= MaxJobs
  /\ file \in 0..Len(puts) /\ completer \in 0..Len(puts) /\ due \subseteq 1..Len(puts)
  /\ proc \in [Procs -> ProcRow]
  /\ variants \in [Variants -> 0..Len(puts)] /\ promoted \in [Variants -> 0..Len(puts)]
  /\ announced \in SUBSET (SUBSET Variants) /\ mediaFaults \in 0..MaxMediaFaults

\* Deletions are explained, and what was deleted had been uploaded.
DeletesRight ==
  \A d \in deletions :
    /\ d.gone \in 1..Len(puts)
    /\ puts[d.gone] = "infected" \/ puts[d.gone] = "mismatched" \/ d.gone > d.seen

MediaInv ==
  /\ MediaShape
  /\ upload.kind = "none" => Len(puts) = 0 /\ Len(jobs) = 0 /\ announced = {}
  /\ \A w \in Procs : ProcRight(proc[w], puts, file, Len(jobs), upload, variants, promoted)
  /\ completer # 0 => puts[completer] = "mismatched" /\ (file = 0 \/ completer <= file)
  /\ DerivedOnlyFromClean /\ AnnouncedAreStored /\ DeletesRight
  /\ file \in due /\ puts[file] = "infected" /\ upload.size # "huge" => CaseOpen(proc, file, jobs)

\* What a step of a processor does to its row and to its job: a job ends otherwise
\* than in the dead-letter queue only when the object is gone or was not the one
\* the processor had to look at.
Moves(w, e) ==
  /\ proc' = [proc EXCEPT ![w] = e] /\ e \in ProcRow
  /\ jobs' \in Seq(JobStates) /\ Len(jobs') = Len(jobs)
  /\ \A j \in 1..Len(jobs) :
       \/ jobs'[j] = jobs[j] \/ jobs'[j] = "dlq"
       \/ j = proc[w].job /\ (file' = 0 \/ upload.size = "huge" \/ ~OnIt(proc[w], file))
  /\ \/ e.job = 0 \/ OnIt(e, file) \/ puts[file] # "infected"
     \/ e.job = proc[w].job /\ ~OnIt(proc[w], file)

\* What the invariant says of one processor.
LEMMA ProcFields ==
  ASSUME MediaInv, NEW w \in Procs
  PROVE  /\ proc[w] \in ProcRow /\ ProcRight(proc[w], puts, file, Len(jobs), upload, variants, promoted)
         /\ proc[w].pc \in ProcSteps /\ proc[w].job \in Nat /\ proc[w].tries \in 0..MaxMediaRetries
         /\ proc[w].ver \in Nat /\ proc[w].left \in Seq(Variants) /\ proc[w].made \in SUBSET Variants
         /\ proc[w].pc # "idle" => proc[w].job \in 1..Len(jobs)
         /\ proc[w].pc # "idle" => upload.kind # "none"
<1>1. /\ proc[w] \in ProcRow /\ Len(jobs) \in Nat
      /\ ProcRight(proc[w], puts, file, Len(jobs), upload, variants, promoted)
  BY DEF MediaInv, MediaShape
<1>2. proc[w].job <= Len(jobs) /\ (proc[w].pc = "idle" <=> proc[w].job = 0)
  BY <1>1, Zenon DEF ProcRight
<1> QED
  BY <1>1, <1>2 DEF ProcRow, MediaInv

\* Faults are counted.
LEMMA MediaFaultsCounted ==
  ASSUME MediaInv, MediaFault \/ NoMediaFault PROVE mediaFaults' \in 0..MaxMediaFaults
BY MediaAssumption DEF MediaInv, MediaShape, MediaFault, NoMediaFault

\* The case of an infected object stays open while its job moves.
LEMMA CaseKept ==
  ASSUME MediaInv, NEW w \in Procs, NEW e, Moves(w, e), file' # 0, upload.size # "huge",
         puts[file] = "infected", CaseOpen(proc, file, jobs)
  PROVE  CaseOpen(proc', file, jobs')
<1>1. PICK j \in 1..Len(jobs) : /\ jobs[j] \in {"queued", "dlq"}
                                /\ \A v \in Procs : proc[v].job = j => OnIt(proc[v], file)
  BY Zenon DEF CaseOpen
<1>2. j # 0 /\ j \in 1..Len(jobs') /\ proc \in [Procs -> ProcRow]
  BY DEF Moves, MediaInv, MediaShape
<1>3. jobs'[j] \in {"queued", "dlq"}
  BY <1>1, Zenon DEF Moves
<1>4. \A v \in Procs : proc'[v] = IF v = w THEN e ELSE proc[v]
  BY <1>2, Zenon DEF Moves
<1>5. e.job = j => OnIt(e, file)
  BY <1>1, <1>2, Zenon DEF Moves
<1>6. \A v \in Procs : proc'[v].job = j => OnIt(proc'[v], file)
  BY <1>1, <1>4, <1>5, Zenon
<1> QED
  BY <1>2, <1>3, <1>6, Zenon DEF CaseOpen

\* What is stored only grows, from versions that were found clean.
Grown(a, b) ==
  /\ b \in [Variants -> 0..Len(puts)]
  /\ \A n \in Variants : b[n] = a[n] \/ (b[n] # 0 /\ puts[b[n]] # "infected" /\ upload.size = "small")

\* A processor's row does not mind what others store or delete.
LEMMA ProcKept ==
  ASSUME NEW r \in ProcRow, ProcRight(r, puts, file, Len(jobs), upload, variants, promoted),
         NEW f \in {0, file}, NEW vs, NEW pr, Grown(variants, vs), Grown(promoted, pr)
  PROVE  ProcRight(r, puts, f, Len(jobs), upload, vs, pr)
<1>1. r.made \in SUBSET Variants
  BY DEF ProcRow
<1>2. \A v \in r.made : vs[v] # 0 /\ (r.pc = "announce" => pr[v] # 0)
  BY <1>1, Zenon DEF ProcRight, Grown
<1> QED
  BY <1>2, Zenon DEF ProcRight

\* A step of a processor keeps the invariant when its own row is right.
LEMMA ProcStepInv ==
  ASSUME MediaInv, NEW w \in Procs, NEW e, Moves(w, e),
         ProcRight(e, puts, file', Len(jobs), upload, variants', promoted'),
         file' \in {0, file}, Grown(variants, variants'), Grown(promoted, promoted'),
         announced' \in SUBSET (SUBSET Variants), AnnouncedAreStored', DeletesRight',
         announced' = announced \/ upload.kind # "none",
         upload' = upload, puts' = puts, completer' = completer, due' = due,
         MediaFault \/ NoMediaFault
  PROVE  MediaInv'
<1>1. /\ file' \in 0..Len(puts) /\ proc \in [Procs -> ProcRow] /\ mediaFaults' \in 0..MaxMediaFaults
      /\ jobs' \in Seq(JobStates) /\ Len(jobs') = Len(jobs) /\ e \in ProcRow
      /\ due \subseteq 1..Len(puts) /\ 0 \notin due
  BY MediaFaultsCounted DEF MediaInv, MediaShape, Moves
<1>2. /\ proc' \in [Procs -> ProcRow] /\ proc'[w] = e
      /\ \A v \in Procs : v # w => proc'[v] = proc[v]
  BY <1>1, Zenon DEF Moves
<1>3. MediaShape'
  BY <1>1, <1>2, Zenon DEF MediaInv, MediaShape, Grown
<1>4. \A v \in Procs : ProcRight(proc'[v], puts, file', Len(jobs), upload, variants', promoted')
  BY <1>1, <1>2, ProcKept, ProcFields, Zenon
<1>5. DerivedOnlyFromClean'
  BY Zenon DEF MediaInv, DerivedOnlyFromClean, Grown
<1>6. file' \in due /\ puts[file'] = "infected" /\ upload.size # "huge" => CaseOpen(proc', file', jobs')
  BY <1>1, CaseKept, Zenon DEF MediaInv
<1>7. completer # 0 => puts[completer] = "mismatched" /\ (file' = 0 \/ completer <= file')
  BY Zenon DEF MediaInv
<1>8. upload.kind = "none" => Len(puts) = 0 /\ Len(jobs') = 0 /\ announced' = {}
  BY <1>1, Zenon DEF MediaInv
<1> QED
  BY <1>1, <1>3, <1>4, <1>5, <1>6, <1>7, <1>8, Zenon DEF MediaInv

\* The row of a processor without a job.
LEMMA IdleRow ==
  /\ ProcIdle \in ProcRow /\ ProcIdle.pc = "idle" /\ ProcIdle.job = 0 /\ ProcIdle.tries = 0
  /\ ProcIdle.ver = 0 /\ ProcIdle.made = {}
BY MediaAssumption DEF ProcIdle, ProcRow, ProcSteps

\* A job a processor ends: the row is idle again.
LEMMA FinishMoves ==
  ASSUME MediaInv, NEW w \in Procs, proc[w].pc # "idle", NEW o \in {"done", "dlq"}, Finish(w, o),
         o = "dlq" \/ file' = 0 \/ upload.size = "huge" \/ ~OnIt(proc[w], file)
  PROVE  Moves(w, ProcIdle)
<1>1. proc[w].job \in 1..Len(jobs) /\ jobs \in Seq(JobStates) /\ o \in JobStates
  BY ProcFields DEF MediaInv, MediaShape, JobStates
<1>2. jobs' = [jobs EXCEPT ![proc[w].job] = o] /\ proc' = [proc EXCEPT ![w] = ProcIdle]
  BY Zenon DEF Finish, ProcStep
<1>3. /\ jobs' \in Seq(JobStates) /\ Len(jobs') = Len(jobs)
      /\ \A j \in 1..Len(jobs) : jobs'[j] = IF j = proc[w].job THEN o ELSE jobs[j]
  BY <1>1, <1>2
<1> QED
  BY <1>2, <1>3, IdleRow, Zenon DEF Moves

\* An idle row is right.
LEMMA IdleRight ==
  ASSUME MediaInv, NEW f, NEW vs, NEW pr, f = 0 \/ f \in Nat
  PROVE  ProcRight(ProcIdle, puts, f, Len(jobs), upload, vs, pr)
<1>1. Len(jobs) \in Nat /\ Len(puts) \in Nat
  BY DEF MediaInv, MediaShape
<1> QED
  BY <1>1, IdleRow DEF ProcRight

\* An attempt that begins: nothing is known yet.
Begun(j, n) == [ProcIdle EXCEPT !.pc = "attrs", !.job = j, !.tries = n]

LEMMA BegunRight ==
  ASSUME MediaInv, NEW j \in 1..Len(jobs), NEW n \in 0..MaxMediaRetries, NEW f, NEW vs, NEW pr,
         f = 0 \/ f \in Nat
  PROVE  /\ Begun(j, n) \in ProcRow /\ Begun(j, n).job = j /\ OnIt(Begun(j, n), file)
         /\ ProcRight(Begun(j, n), puts, f, Len(jobs), upload, vs, pr)
<1>1. Len(jobs) \in Nat /\ Len(puts) \in Nat /\ j \in Nat
  BY DEF MediaInv, MediaShape
<1>2. /\ Begun(j, n) \in ProcRow /\ Begun(j, n).pc = "attrs" /\ Begun(j, n).job = j
      /\ Begun(j, n).ver = 0 /\ Begun(j, n).made = {}
  BY <1>1, IdleRow DEF Begun, ProcRow, ProcSteps
<1> QED
  BY <1>1, <1>2 DEF OnIt, ProcRight

\* An attempt that fails is retried or its job parked: either way the row is right.
LEMMA ErrorMoves ==
  ASSUME MediaInv, NEW w \in Procs, proc[w].pc # "idle", ProcError(w),
         NEW f, NEW vs, NEW pr, f = 0 \/ f \in Nat
  PROVE  \E e : Moves(w, e) /\ ProcRight(e, puts, f, Len(jobs), upload, vs, pr)
<1>1. CASE proc[w].tries < MaxMediaRetries
  <2> DEFINE e == Begun(proc[w].job, proc[w].tries + 1)
  <2>1. proc[w].job \in 1..Len(jobs) /\ proc[w].tries + 1 \in 0..MaxMediaRetries
    BY <1>1, ProcFields, MediaAssumption
  <2>2. jobs' = jobs /\ proc' = [proc EXCEPT ![w] = e]
    BY <1>1, Zenon DEF ProcError, ProcStep, Begun
  <2> HIDE DEF e
  <2>3. /\ e \in ProcRow /\ OnIt(e, file) /\ ProcRight(e, puts, f, Len(jobs), upload, vs, pr)
    BY <2>1, BegunRight, Zenon DEF e
  <2>4. jobs \in Seq(JobStates)
    BY Zenon DEF MediaInv, MediaShape
  <2> QED
    BY <2>2, <2>3, <2>4, Zenon DEF Moves
<1>2. CASE ~(proc[w].tries < MaxMediaRetries)
  <2>1. Finish(w, "dlq")
    BY <1>2, Zenon DEF ProcError
  <2> QED
    BY <2>1, FinishMoves, IdleRight, Zenon
<1> QED
  BY <1>1, <1>2, Zenon

\* Steps that leave the stores alone.
Still == /\ upload' = upload /\ file' = file /\ puts' = puts /\ completer' = completer
         /\ variants' = variants /\ promoted' = promoted /\ announced' = announced
         /\ due' = due /\ deletions' = deletions

LEMMA StillInv ==
  ASSUME MediaInv, NEW w \in Procs, NEW e, Moves(w, e), Still, MediaFault \/ NoMediaFault,
         ProcRight(e, puts, file, Len(jobs), upload, variants, promoted)
  PROVE  MediaInv'
<1>1. Grown(variants, variants') /\ Grown(promoted, promoted')
  BY Zenon DEF Still, Grown, MediaInv, MediaShape
<1>2. AnnouncedAreStored' /\ DeletesRight' /\ announced' \in SUBSET (SUBSET Variants)
  BY Zenon DEF Still, MediaInv, MediaShape, AnnouncedAreStored, DeletesRight
<1>3. file' = file /\ ProcRight(e, puts, file', Len(jobs), upload, variants', promoted')
  BY Zenon DEF Still
<1> QED
  BY <1>1, <1>2, <1>3, ProcStepInv, Zenon DEF Still

\* A failed attempt.
LEMMA StillErrorInv ==
  ASSUME MediaInv, NEW w \in Procs, proc[w].pc # "idle", ProcError(w), Still,
         MediaFault \/ NoMediaFault
  PROVE  MediaInv'
<1>1. file = 0 \/ file \in Nat
  BY DEF MediaInv, MediaShape
<1>2. PICK e : Moves(w, e) /\ ProcRight(e, puts, file, Len(jobs), upload, variants, promoted)
  BY <1>1, ErrorMoves, Zenon
<1> QED
  BY <1>2, StillInv, Zenon

\* A job that ends with nothing stored.
LEMMA StillFinishInv ==
  ASSUME MediaInv, NEW w \in Procs, proc[w].pc # "idle", Finish(w, "done"), Still, NoMediaFault,
         file = 0 \/ upload.size = "huge" \/ ~OnIt(proc[w], file)
  PROVE  MediaInv'
<1>1. file' = file /\ (file = 0 \/ file \in Nat)
  BY DEF MediaInv, MediaShape, Still
<1> QED
  BY <1>1, FinishMoves, IdleRight, StillInv, Zenon

\* A step within an attempt.
LEMMA WithinInv ==
  ASSUME MediaInv, NEW w \in Procs, NEW e \in ProcRow, ProcStep(w, e), jobs' = jobs, Still,
         MediaFault \/ NoMediaFault, e.job = proc[w].job, OnIt(proc[w], file) /\ puts[file] = "infected" => OnIt(e, file),
         ProcRight(e, puts, file, Len(jobs), upload, variants, promoted)
  PROVE  MediaInv'
<1>1. Moves(w, e)
  BY Zenon DEF Moves, ProcStep, MediaInv, MediaShape
<1> QED
  BY <1>1, StillInv, Zenon

\* A job is delivered, maybe again; a pod dies.
LEMMA TakeJobInv == ASSUME MediaInv, NEW w \in Procs, TakeJob(w) PROVE MediaInv'
<1>1. PICK j \in DOMAIN jobs : /\ proc' = [proc EXCEPT ![w] = [ProcIdle EXCEPT !.pc = "attrs", !.job = j]]
                               /\ MediaFault \/ NoMediaFault
  BY Zenon DEF TakeJob, ProcStep
<1>2. j \in 1..Len(jobs) /\ 0 \in 0..MaxMediaRetries /\ file \in Nat /\ jobs \in Seq(JobStates)
  BY MediaAssumption DEF MediaInv, MediaShape
<1>3. [ProcIdle EXCEPT !.pc = "attrs", !.job = j] = Begun(j, 0)
  BY IdleRow DEF Begun, ProcRow
<1>4. Still /\ jobs' = jobs
  BY Zenon DEF TakeJob, Still, stores
<1>5. /\ Begun(j, 0) \in ProcRow /\ OnIt(Begun(j, 0), file)
      /\ ProcRight(Begun(j, 0), puts, file, Len(jobs), upload, variants, promoted)
  BY <1>2, BegunRight, Zenon
<1>6. Moves(w, Begun(j, 0))
  BY <1>1, <1>2, <1>3, <1>4, <1>5, Zenon DEF Moves
<1> QED
  BY <1>1, <1>4, <1>5, <1>6, StillInv, Zenon

LEMMA ProcCrashInv == ASSUME MediaInv, NEW w \in Procs, ProcCrash(w) PROVE MediaInv'
<1>1. Still /\ jobs' = jobs /\ MediaFault /\ proc' = [proc EXCEPT ![w] = ProcIdle]
  BY Zenon DEF ProcCrash, Still, stores, ProcStep
<1>2. file \in Nat
  BY DEF MediaInv, MediaShape
<1>3. Moves(w, ProcIdle)
  BY <1>1, IdleRow, Zenon DEF Moves, MediaInv, MediaShape
<1> QED
  BY <1>1, <1>2, <1>3, IdleRight, StillInv, Zenon

\* The steps of an attempt that store nothing.
LEMMA ReadAttrsInv == ASSUME MediaInv, NEW w \in Procs, ReadAttrs(w) PROVE MediaInv'
<1> DEFINE r == proc[w]
           e == [r EXCEPT !.pc = "download"]
<1>1. Still /\ r.pc = "attrs" /\ r.pc # "idle"
  BY Zenon DEF ReadAttrs, Still, stores
<1>2. CASE NoMediaFault /\ Finish(w, "done") /\ (file = 0 \/ upload.size = "huge")
  BY <1>1, <1>2, StillFinishInv, Zenon
<1>3. CASE NoMediaFault /\ ProcGo(w, "download") /\ UNCHANGED jobs
  <2>1. /\ e \in ProcRow /\ e.pc = "download" /\ e.job = r.job /\ e.ver = r.ver /\ e.made = r.made
    BY ProcFields DEF ProcRow, ProcSteps
  <2>2. ProcRight(e, puts, file, Len(jobs), upload, variants, promoted) /\ OnIt(e, file)
    BY <1>1, <2>1, ProcFields, Zenon DEF ProcRight, OnIt
  <2>3. ProcStep(w, e) /\ jobs' = jobs
    BY <1>3, Zenon DEF ProcGo
  <2> HIDE DEF e
  <2> QED
    BY <1>1, <1>3, <2>1, <2>2, <2>3, WithinInv, Zenon
<1>4. CASE MediaFault /\ ProcError(w)
  BY <1>1, <1>4, StillErrorInv, Zenon
<1> QED
  BY <1>2, <1>3, <1>4, Zenon DEF ReadAttrs

LEMMA DownloadInv == ASSUME MediaInv, NEW w \in Procs, download(w) PROVE MediaInv'
<1> DEFINE r == proc[w]
           e == [r EXCEPT !.pc = "scan", !.ver = file]
<1>1. Still /\ r.pc = "download" /\ r.pc # "idle"
  BY Zenon DEF download, Still, stores
<1>2. CASE NoMediaFault /\ file # 0 /\ UNCHANGED jobs /\ ProcStep(w, e)
  <2>1. /\ e \in ProcRow /\ e.pc = "scan" /\ e.job = r.job /\ e.ver = file /\ e.made = r.made
    <3>1. file \in Nat
      BY DEF MediaInv, MediaShape
    <3> QED
      BY <3>1, ProcFields DEF ProcRow, ProcSteps
  <2>2. ProcRight(e, puts, file, Len(jobs), upload, variants, promoted) /\ OnIt(e, file)
    <3>1. file <= Len(puts) /\ file <= file
      BY DEF MediaInv, MediaShape
    <3> HIDE DEF e
    <3> QED
      BY <1>1, <1>2, <2>1, <3>1, ProcFields, Zenon DEF ProcRight, OnIt
  <2>3. ProcStep(w, e) /\ jobs' = jobs
    BY <1>2, Zenon
  <2> HIDE DEF e
  <2> QED
    BY <1>1, <1>2, <2>1, <2>2, <2>3, WithinInv, Zenon
<1>3. CASE (NoMediaFault \/ MediaFault) /\ ProcError(w)
  BY <1>1, <1>3, StillErrorInv, Zenon
<1> QED
  BY <1>2, <1>3, Zenon DEF download

LEMMA ScanInv == ASSUME MediaInv, NEW w \in Procs, Scan(w) PROVE MediaInv'
<1> DEFINE r == proc[w]
           pc == IF puts[r.ver] = "infected" THEN "delete" ELSE "derive"
           e == [r EXCEPT !.pc = pc]
<1>1. Still /\ r.pc = "scan" /\ r.pc # "idle" /\ r.ver # 0
  BY ProcFields, Zenon DEF Scan, Still, stores, ProcRight
<1>2. CASE NoMediaFault /\ upload.size = "small" /\ UNCHANGED jobs /\ ProcGo(w, pc)
  <2>1. /\ pc \in {"delete", "derive"} /\ (pc = "delete" <=> puts[r.ver] = "infected")
    OBVIOUS
  <2>2. ProcStep(w, e) /\ jobs' = jobs
    BY <1>2, Zenon DEF ProcGo
  <2> HIDE DEF pc
  <2>3. /\ e \in ProcRow /\ e.pc = pc /\ e.job = r.job /\ e.ver = r.ver /\ e.made = r.made
    BY <2>1, ProcFields DEF ProcRow, ProcSteps
  <2> HIDE DEF e
  <2>4. ProcRight(e, puts, file, Len(jobs), upload, variants, promoted)
    BY <1>1, <1>2, <2>1, <2>3, ProcFields, Zenon DEF ProcRight
  <2>5. OnIt(r, file) /\ puts[file] = "infected" => OnIt(e, file)
    BY <1>1, <2>1, <2>3, Zenon DEF OnIt
  <2> QED
    BY <1>1, <1>2, <2>2, <2>3, <2>4, <2>5, WithinInv, Zenon
<1>3. CASE (NoMediaFault \/ MediaFault) /\ ProcError(w)
  BY <1>1, <1>3, StillErrorInv, Zenon
<1> QED
  BY <1>2, <1>3, Zenon DEF Scan

\* The derivatives of a file are variants.
LEMMA DerivativesTyped == \A kind, bytes : Derivatives(kind, bytes) \in Seq(Variants)
<1>1. /\ <<"_poster", "_720p">> \in Seq(Variants) /\ <<"_poster">> \in Seq(Variants)
      /\ <<"_s">> \in Seq(Variants)
  BY DEF Variants
<1>2. <<"_s", "_m", "_l">> \in Seq(Variants)
  BY DEF Variants
<1> QED
  BY <1>1, <1>2, Zenon DEF Derivatives

LEMMA ProbeInv == ASSUME MediaInv, NEW w \in Procs, Probe(w) PROVE MediaInv'
<1> DEFINE r == proc[w]
           d == Derivatives(upload.kind, puts[r.ver])
           e == [r EXCEPT !.pc = "upload", !.left = d]
<1>1. Still /\ r.pc = "derive" /\ r.pc # "idle" /\ NoMediaFault /\ ~OnIt(r, file)
  BY Zenon DEF Probe, Still, stores, OnIt
<1>2. CASE Finish(w, "done")
  BY <1>1, <1>2, StillFinishInv, Zenon
<1>3. CASE UNCHANGED jobs /\ ProcStep(w, e)
  <2>1. d \in Seq(Variants)
    BY DerivativesTyped, Zenon
  <2> HIDE DEF d
  <2>2. /\ e \in ProcRow /\ e.pc = "upload" /\ e.job = r.job /\ e.ver = r.ver /\ e.made = r.made
    BY <2>1, ProcFields DEF ProcRow, ProcSteps
  <2>3. ProcStep(w, e) /\ jobs' = jobs
    BY <1>3, Zenon
  <2> HIDE DEF e
  <2>4. ProcRight(e, puts, file, Len(jobs), upload, variants, promoted)
    BY <1>1, <2>2, ProcFields, Zenon DEF ProcRight
  <2> QED
    BY <1>1, <2>2, <2>3, <2>4, WithinInv, Zenon
<1> QED
  BY <1>2, <1>3, Zenon DEF Probe

\* The infected object is deleted: what is stored is it, or was uploaded after it.
LEMMA DeleteInfectedInv == ASSUME MediaInv, NEW w \in Procs, DeleteInfected(w) PROVE MediaInv'
<1> DEFINE r == proc[w]
<1>1. /\ r.pc = "delete" /\ r.pc # "idle" /\ puts[r.ver] = "infected" /\ (file = 0 \/ r.ver <= file)
      /\ r.ver \in Nat /\ file \in Nat
      /\ upload' = upload /\ puts' = puts /\ completer' = completer /\ variants' = variants
      /\ promoted' = promoted /\ announced' = announced /\ due' = due
  <2>1. file \in Nat
    BY DEF MediaInv, MediaShape
  <2> QED
    BY <2>1, ProcFields, Zenon DEF DeleteInfected, ProcRight, stores
<1>2. CASE NoMediaFault /\ DeleteObject(r.ver) /\ Finish(w, "done")
  <2>1. /\ file' = 0
        /\ deletions' = deletions \/ (file # 0 /\ deletions' = deletions \union {[seen |-> r.ver, gone |-> file]})
    BY <1>2, Zenon DEF DeleteObject
  <2>2. file # 0 => file \in 1..Len(puts) /\ (puts[file] = "infected" \/ file > r.ver)
    BY <1>1 DEF MediaInv, MediaShape
  <2>3. DeletesRight'
    <3>1. CASE deletions' = deletions
      BY <1>1, <3>1, Zenon DEF MediaInv, DeletesRight
    <3>2. CASE file # 0 /\ deletions' = deletions \union {[seen |-> r.ver, gone |-> file]}
      BY <1>1, <2>2, <3>2 DEF MediaInv, DeletesRight
    <3> QED
      BY <2>1, <3>1, <3>2, Zenon
  <2>4. Moves(w, ProcIdle)
    BY <1>1, <1>2, <2>1, FinishMoves, Zenon
  <2>5. ProcRight(ProcIdle, puts, file', Len(jobs), upload, variants', promoted')
    BY <2>1, IdleRight, Zenon
  <2>6. /\ Grown(variants, variants') /\ Grown(promoted, promoted') /\ AnnouncedAreStored'
        /\ announced' \in SUBSET (SUBSET Variants)
    BY <1>1, Zenon DEF Grown, MediaInv, MediaShape, AnnouncedAreStored
  <2> QED
    BY <1>1, <1>2, <2>1, <2>3, <2>4, <2>5, <2>6, ProcStepInv, Zenon
<1>3. CASE MediaFault /\ ProcError(w) /\ UNCHANGED <<file, deletions>>
  <2>1. Still
    BY <1>1, <1>3, Zenon DEF Still
  <2> QED
    BY <1>1, <1>3, <2>1, StillErrorInv, Zenon
<1> QED
  BY <1>2, <1>3, Zenon DEF DeleteInfected

\* A derivative is stored: made from a copy the scan has cleared.
LEMMA UploadVariantInv == ASSUME MediaInv, NEW w \in Procs, UploadVariant(w) PROVE MediaInv'
<1> DEFINE r == proc[w]
           n == Head(r.left)
           t == Tail(r.left)
<1>1. /\ r.pc = "upload" /\ r.pc # "idle" /\ r.ver # 0 /\ puts[r.ver] # "infected"
      /\ upload.size = "small" /\ ~OnIt(r, file)
  BY ProcFields, Zenon DEF UploadVariant, ProcRight, OnIt
<1>2. n \in Variants /\ t \in Seq(Variants) /\ r \in ProcRow /\ r.made \in SUBSET Variants
  BY ProcFields DEF UploadVariant
<1>3. /\ upload' = upload /\ file' = file /\ puts' = puts /\ completer' = completer
      /\ promoted' = promoted /\ announced' = announced /\ due' = due /\ deletions' = deletions
  BY Zenon DEF UploadVariant
<1>4. CASE NoMediaFault /\ Finish(w, "done") /\ UNCHANGED variants
  BY <1>1, <1>3, <1>4, StillFinishInv, Zenon DEF Still
<1>5. CASE /\ NoMediaFault /\ UNCHANGED jobs /\ variants' = [variants EXCEPT ![n] = r.ver]
           /\ ProcStep(w, [r EXCEPT !.left = t, !.made = @ \union {n}])
  <2> DEFINE m == r.made \union {n}
             e == [r EXCEPT !.left = t, !.made = m]
  <2>1. m \in SUBSET Variants
    BY <1>2, Zenon
  <2>2. proc' = [proc EXCEPT ![w] = e] /\ jobs' = jobs
    BY <1>5, Zenon DEF ProcStep
  <2> HIDE DEF n, t
  <2>3. \A v \in m : v \in r.made \/ v = n
    BY Zenon
  <2> HIDE DEF m
  <2>4. e \in ProcRow /\ e.pc = r.pc /\ e.job = r.job /\ e.ver = r.ver /\ e.made = m
    BY <1>2, <2>1 DEF ProcRow
  <2> HIDE DEF e, r
  <2>5. Moves(w, e)
    BY <1>1, <2>2, <2>4, Zenon DEF Moves, MediaInv, MediaShape, r
  <2>6. /\ variants' \in [Variants -> 0..Len(puts)] /\ variants'[n] = r.ver
        /\ \A v \in Variants : v # n => variants'[v] = variants[v]
    <3>1. r.ver \in 0..Len(puts) /\ variants \in [Variants -> 0..Len(puts)]
      <4>1. r.ver \in Nat /\ r.ver <= Len(puts) /\ variants \in [Variants -> 0..Len(puts)]
        BY ProcFields, Zenon DEF ProcRight, r, MediaInv, MediaShape
      <4>2. Len(puts) \in Nat
        BY DEF MediaInv, MediaShape
      <4> QED
        BY <4>1, <4>2
    <3> QED
      BY <1>2, <1>5, <3>1, Zenon DEF n
  <2>7. Grown(variants, variants') /\ Grown(promoted, promoted')
    BY <1>1, <1>3, <2>6, Zenon DEF Grown, MediaInv, MediaShape
  <2>8. \A v \in Variants : variants[v] # 0 => variants'[v] # 0
    BY <1>1, <2>6, Zenon
  <2>9. ProcRight(e, puts, file', Len(jobs), upload, variants', promoted')
    <3>1. \A v \in e.made : variants'[v] # 0
      BY <1>1, <1>2, <2>3, <2>4, <2>6, <2>8, ProcFields, Zenon DEF ProcRight, r
    <3> QED
      BY <1>1, <1>3, <2>4, <3>1, ProcFields, Zenon DEF ProcRight, r
  <2>10. AnnouncedAreStored' /\ DeletesRight' /\ announced' \in SUBSET (SUBSET Variants)
    <3>1. \A made \in announced : \A v \in made : v \in Variants
      BY Zenon DEF MediaInv, MediaShape
    <3> QED
      BY <1>3, <2>8, <3>1, Zenon DEF MediaInv, MediaShape, AnnouncedAreStored, DeletesRight
  <2> QED
    BY <1>3, <1>5, <2>5, <2>7, <2>9, <2>10, ProcStepInv, Zenon
<1>6. CASE MediaFault /\ UNCHANGED <<variants, jobs>> /\ ProcStep(w, [r EXCEPT !.left = t])
  <2> DEFINE e == [r EXCEPT !.left = t]
  <2> HIDE DEF t
  <2>1. e \in ProcRow /\ e.pc = r.pc /\ e.job = r.job /\ e.ver = r.ver /\ e.made = r.made
    BY <1>2 DEF ProcRow
  <2> HIDE DEF e
  <2>2. ProcRight(e, puts, file, Len(jobs), upload, variants, promoted)
    BY <2>1, ProcFields, Zenon DEF ProcRight
  <2>3. Still /\ ProcStep(w, e) /\ jobs' = jobs
    BY <1>3, <1>6, Zenon DEF Still, e
  <2> QED
    BY <1>1, <1>6, <2>1, <2>2, <2>3, WithinInv, Zenon
<1>7. CASE MediaFault /\ ProcError(w) /\ UNCHANGED variants
  BY <1>1, <1>3, <1>7, StillErrorInv, Zenon DEF Still
<1> QED
  BY <1>4, <1>5, <1>6, <1>7, Zenon DEF UploadVariant

\* What is copied to the public bucket is as clean as what it is copied from.
LEMMA CopiedGrown ==
  ASSUME MediaInv, NEW names, names \subseteq Variants, \A n \in names : variants[n] # 0,
         promoted' = Copied(names)
  PROVE  /\ Grown(promoted, promoted') /\ \A n \in names : promoted'[n] # 0
         /\ \A n \in Variants : promoted[n] # 0 => promoted'[n] # 0
<1>1. /\ variants \in [Variants -> 0..Len(puts)] /\ promoted \in [Variants -> 0..Len(puts)]
  BY Zenon DEF MediaInv, MediaShape
<1>2. /\ promoted' \in [Variants -> 0..Len(puts)]
      /\ \A n \in Variants : promoted'[n] = IF n \in names THEN variants[n] ELSE promoted[n]
  BY <1>1, Zenon DEF Copied
<1>3. \A n \in Variants : variants[n] # 0 => puts[variants[n]] # "infected" /\ upload.size = "small"
  BY Zenon DEF MediaInv, DerivedOnlyFromClean
<1> QED
  BY <1>2, <1>3, Zenon DEF Grown

\* The derivatives of a profile image are copied, some or all of them.
LEMMA PromoteInv == ASSUME MediaInv, NEW w \in Procs, Promote(w) PROVE MediaInv'
<1> DEFINE r == proc[w]
           e == [r EXCEPT !.pc = "announce"]
<1>1. /\ r.pc = "upload" /\ r.pc # "idle" /\ ~OnIt(r, file) /\ r.made \subseteq Variants
      /\ \A n \in r.made : variants[n] # 0
  BY ProcFields, Zenon DEF Promote, ProcRight, OnIt
<1>2. /\ upload' = upload /\ file' = file /\ puts' = puts /\ completer' = completer
      /\ variants' = variants /\ announced' = announced /\ due' = due /\ deletions' = deletions
  BY Zenon DEF Promote
<1>3. /\ Grown(variants, variants') /\ DeletesRight' /\ announced' \in SUBSET (SUBSET Variants)
      /\ file = 0 \/ file \in Nat
  <2>1. file \in Nat
    BY DEF MediaInv, MediaShape
  <2> QED
    BY <1>2, <2>1, Zenon DEF Grown, MediaInv, MediaShape, DeletesRight
<1>4. ASSUME \A n \in Variants : promoted[n] # 0 => promoted'[n] # 0 PROVE AnnouncedAreStored'
  <2>1. \A made \in announced : \A v \in made : v \in Variants
    BY Zenon DEF MediaInv, MediaShape
  <2> QED
    BY <1>2, <1>4, <2>1, Zenon DEF MediaInv, AnnouncedAreStored
<1>5. CASE NoMediaFault /\ ProcGo(w, "announce") /\ UNCHANGED jobs /\ promoted' = Copied(r.made)
  <2>1. e \in ProcRow /\ e.pc = "announce" /\ e.job = r.job /\ e.ver = r.ver /\ e.made = r.made
    BY ProcFields DEF ProcRow, ProcSteps
  <2>2. proc' = [proc EXCEPT ![w] = e] /\ jobs' = jobs
    BY <1>5, Zenon DEF ProcGo, ProcStep
  <2> HIDE DEF e, r
  <2>3. /\ Grown(promoted, promoted') /\ \A n \in r.made : promoted'[n] # 0
        /\ \A n \in Variants : promoted[n] # 0 => promoted'[n] # 0
    BY <1>1, <1>5, CopiedGrown, Zenon
  <2>4. Moves(w, e)
    BY <1>1, <2>1, <2>2, Zenon DEF Moves, MediaInv, MediaShape, r
  <2>5. ProcRight(e, puts, file', Len(jobs), upload, variants', promoted')
    BY <1>1, <1>2, <2>1, <2>3, ProcFields, Zenon DEF ProcRight, r
  <2> QED
    BY <1>2, <1>3, <1>4, <1>5, <2>3, <2>4, <2>5, ProcStepInv, Zenon
<1>6. ASSUME MediaFault, ProcError(w), NEW some \in SUBSET r.made, promoted' = Copied(some) PROVE MediaInv'
  <2>1. /\ Grown(promoted, promoted') /\ \A n \in Variants : promoted[n] # 0 => promoted'[n] # 0
    BY <1>1, <1>6, CopiedGrown, Zenon
  <2>2. PICK x : Moves(w, x) /\ ProcRight(x, puts, file, Len(jobs), upload, variants', promoted')
    BY <1>1, <1>3, <1>6, ErrorMoves, Zenon
  <2> QED
    BY <1>2, <1>3, <1>4, <1>6, <2>1, <2>2, ProcStepInv, Zenon
<1> QED
  BY <1>5, <1>6, Zenon DEF Promote

\* What is announced was stored, and copied where it is to be public.
LEMMA PublishCompleteInv == ASSUME MediaInv, NEW w \in Procs, publishComplete(w) PROVE MediaInv'
<1> DEFINE r == proc[w]
<1>1. /\ r.pc \in {"upload", "announce"} /\ r.pc # "idle" /\ ~OnIt(r, file) /\ r.made \in SUBSET Variants
      /\ upload.kind # "none"
      /\ \A n \in r.made : variants[n] # 0 /\ (upload.kind = "avatar" => promoted[n] # 0)
  BY ProcFields, Zenon DEF publishComplete, ProcRight, OnIt, PublishesPublic
<1>2. /\ upload' = upload /\ file' = file /\ puts' = puts /\ completer' = completer
      /\ variants' = variants /\ promoted' = promoted /\ due' = due /\ deletions' = deletions
  BY Zenon DEF publishComplete
<1>3. CASE NoMediaFault /\ announced' = announced \union {r.made} /\ Finish(w, "done")
  <2>1. /\ Grown(variants, variants') /\ Grown(promoted, promoted') /\ DeletesRight'
    BY <1>2, Zenon DEF Grown, MediaInv, MediaShape, DeletesRight
  <2> HIDE DEF r
  <2>2. AnnouncedAreStored'
    BY <1>1, <1>2, <1>3, Zenon DEF MediaInv, AnnouncedAreStored
  <2>3. announced' \in SUBSET (SUBSET Variants)
    BY <1>1, <1>3, Zenon DEF MediaInv, MediaShape
  <2>4. Moves(w, ProcIdle)
    BY <1>1, <1>3, FinishMoves, Zenon DEF r
  <2>5. file = 0 \/ file \in Nat
    BY DEF MediaInv, MediaShape
  <2>6. ProcRight(ProcIdle, puts, file', Len(jobs), upload, variants', promoted')
    BY <1>2, <2>5, IdleRight, Zenon
  <2> QED
    BY <1>1, <1>2, <1>3, <2>1, <2>2, <2>3, <2>4, <2>6, ProcStepInv, Zenon
<1>4. CASE MediaFault /\ ProcError(w) /\ UNCHANGED announced
  BY <1>1, <1>2, <1>4, StillErrorInv, Zenon DEF Still
<1> QED
  BY <1>3, <1>4, Zenon DEF publishComplete

\* media-service: the upload is authorised once, before anything is stored.
LEMMA InitUploadInv == ASSUME MediaInv, handleInitUpload PROVE MediaInv'
<1>1. PICK kind \in UploadKinds, size \in SizeClasses : upload' = [kind |-> kind, size |-> size]
  BY Zenon DEF handleInitUpload
<1>2. /\ file' = file /\ puts' = puts /\ completer' = completer /\ jobs' = jobs /\ proc' = proc
      /\ variants' = variants /\ promoted' = promoted /\ announced' = announced /\ due' = due
      /\ deletions' = deletions /\ mediaFaults' = mediaFaults
  BY Zenon DEF handleInitUpload, stores
<1>3. Len(puts) = 0 /\ Len(jobs) = 0 /\ announced = {}
  BY Zenon DEF MediaInv, handleInitUpload
<1>4. upload' \in [kind : UploadKinds \union {"none"}, size : SizeClasses] /\ upload'.kind # "none"
  BY <1>1 DEF UploadKinds
<1>5. MediaShape'
  BY <1>2, <1>4, Zenon DEF MediaInv, MediaShape
<1>6. ASSUME NEW w \in Procs
      PROVE  ProcRight(proc[w], puts, file, Len(jobs), upload', variants, promoted)
  <2>1. proc[w].pc = "idle"
    <3>1. proc[w].pc # "idle" => proc[w].job \in 1..Len(jobs)
      BY ProcFields, Zenon
    <3> QED
      BY <1>3, <3>1
  <2> QED
    BY <2>1, ProcFields, Zenon DEF ProcRight
<1>7. file = 0 /\ completer = 0 /\ due = {} /\ \A n \in Variants : variants[n] = 0 /\ promoted[n] = 0
  BY <1>3 DEF MediaInv, MediaShape
<1>8. DerivedOnlyFromClean' /\ AnnouncedAreStored' /\ DeletesRight'
  BY <1>2, <1>3, <1>7, Zenon DEF MediaInv, DerivedOnlyFromClean, AnnouncedAreStored, DeletesRight
<1> QED
  BY <1>2, <1>4, <1>5, <1>6, <1>7, <1>8, Zenon DEF MediaInv

\* The client uploads, maybe again: a new version, and the old ones are what they were.
LEMMA PutInv == ASSUME MediaInv, Put PROVE MediaInv'
<1>1. PICK bytes \in Contents : puts' = Append(puts, bytes)
  BY Zenon DEF Put
<1>2. /\ upload' = upload /\ completer' = completer /\ jobs' = jobs /\ proc' = proc
      /\ variants' = variants /\ promoted' = promoted /\ announced' = announced /\ due' = due
      /\ deletions' = deletions /\ mediaFaults' = mediaFaults /\ file' = Len(puts) + 1
      /\ upload.kind # "none"
  BY Zenon DEF Put, stores
<1>3. /\ puts' \in Seq(Contents) /\ Len(puts') = Len(puts) + 1 /\ Len(puts') <= MaxPuts
      /\ \A v \in 1..Len(puts) : puts'[v] = puts[v] /\ v \in 1..Len(puts')
      /\ 0..Len(puts) \subseteq 0..Len(puts') /\ Len(puts) \in Nat
  BY <1>1, MediaAssumption DEF Put, MediaInv, MediaShape
<1>4. /\ file' \in 0..Len(puts') /\ file' \notin due
      /\ \A v \in 0..Len(puts) : v <= Len(puts') /\ v <= file' /\ (v # 0 => v \in 1..Len(puts))
  BY <1>2, <1>3 DEF MediaInv, MediaShape
<1>5. MediaShape'
  <2>1. /\ upload \in [kind : UploadKinds \union {"none"}, size : SizeClasses]
        /\ jobs \in Seq(JobStates) /\ Len(jobs) <= MaxJobs /\ completer \in 0..Len(puts)
        /\ due \subseteq 1..Len(puts) /\ proc \in [Procs -> ProcRow]
        /\ variants \in [Variants -> 0..Len(puts)] /\ promoted \in [Variants -> 0..Len(puts)]
        /\ announced \in SUBSET (SUBSET Variants) /\ mediaFaults \in 0..MaxMediaFaults
    BY Zenon DEF MediaInv, MediaShape
  <2>2. variants \in [Variants -> 0..Len(puts')] /\ promoted \in [Variants -> 0..Len(puts')]
    BY <1>3, <2>1
  <2>3. due \subseteq 1..Len(puts') /\ completer \in 0..Len(puts')
    BY <1>3, <2>1, Zenon
  <2> QED
    BY <1>2, <1>3, <1>4, <2>1, <2>2, <2>3, Zenon DEF MediaShape
<1>6. ASSUME NEW w \in Procs
      PROVE  ProcRight(proc[w], puts', file', Len(jobs), upload, variants, promoted)
  <2>1. proc[w].ver \in 0..Len(puts)
    BY <1>3, ProcFields DEF ProcRight
  <2>2. proc[w].ver <= Len(puts') /\ proc[w].ver <= file' /\ (proc[w].ver # 0 => puts'[proc[w].ver] = puts[proc[w].ver])
    BY <1>3, <1>4, <2>1, Zenon
  <2>3. proc[w].pc \in {"delete", "derive", "upload", "announce"} => proc[w].ver # 0
    BY ProcFields DEF ProcRight
  <2> QED
    BY <2>2, <2>3, ProcFields, Zenon DEF ProcRight
<1>7. DerivedOnlyFromClean'
  <2>1. \A n \in Variants : variants[n] \in 0..Len(puts) /\ promoted[n] \in 0..Len(puts)
    BY Zenon DEF MediaInv, MediaShape
  <2> QED
    BY <1>2, <1>3, <1>4, <2>1, Zenon DEF MediaInv, DerivedOnlyFromClean
<1>8. AnnouncedAreStored' /\ DeletesRight'
  BY <1>2, <1>3, Zenon DEF MediaInv, AnnouncedAreStored, DeletesRight
<1>9. completer # 0 => puts'[completer] = "mismatched" /\ completer <= file'
  BY <1>3, <1>4, Zenon DEF MediaInv, MediaShape
<1> QED
  BY <1>2, <1>4, <1>5, <1>6, <1>7, <1>8, <1>9, Zenon DEF MediaInv

\* A job is queued for what is stored: nobody works on it yet.
LEMMA CompleteUploadInv == ASSUME MediaInv, handleCompleteUpload PROVE MediaInv'
<1>1. /\ upload' = upload /\ file' = file /\ puts' = puts /\ proc' = proc /\ variants' = variants
      /\ promoted' = promoted /\ announced' = announced /\ deletions' = deletions
      /\ file # 0 /\ file \in 1..Len(puts) /\ upload.kind # "none"
  BY DEF handleCompleteUpload, stores, MediaInv, MediaShape
<1>2. DerivedOnlyFromClean' /\ AnnouncedAreStored' /\ DeletesRight'
  BY <1>1, Zenon DEF MediaInv, DerivedOnlyFromClean, AnnouncedAreStored, DeletesRight
<1>3. mediaFaults' \in 0..MaxMediaFaults
  BY MediaFaultsCounted, Zenon DEF handleCompleteUpload
<1>4. CASE puts[file] = "mismatched" /\ completer' = file /\ UNCHANGED <<jobs, due>>
  <2>1. MediaShape' /\ completer' <= file'
    BY <1>1, <1>3, <1>4 DEF MediaInv, MediaShape
  <2> QED
    BY <1>1, <1>2, <1>4, <2>1, Zenon DEF MediaInv
<1>5. CASE UNCHANGED <<completer, jobs, due>>
  <2>1. MediaShape'
    BY <1>1, <1>3, <1>5, Zenon DEF MediaInv, MediaShape
  <2> QED
    BY <1>1, <1>2, <1>5, <2>1, Zenon DEF MediaInv
<1>6. CASE /\ Len(jobs) < MaxJobs /\ completer' = completer /\ jobs' = Append(jobs, "queued")
           /\ due' = due \union {file}
  <2> DEFINE j == Len(jobs) + 1
  <2>1. /\ jobs' \in Seq(JobStates) /\ Len(jobs') = j /\ jobs'[j] = "queued" /\ Len(jobs') <= MaxJobs
        /\ j \in 1..Len(jobs') /\ \A n \in Nat : n <= Len(jobs) => n <= Len(jobs') /\ n # j
    BY <1>6, MediaAssumption DEF MediaInv, MediaShape, JobStates
  <2> HIDE DEF j
  <2>2. MediaShape'
    BY <1>1, <1>3, <1>6, <2>1, Zenon DEF MediaInv, MediaShape
  <2>3. ASSUME NEW w \in Procs
        PROVE  /\ ProcRight(proc[w], puts, file, Len(jobs'), upload, variants, promoted)
               /\ proc[w].job # j
    <3>1. proc[w].job <= Len(jobs) /\ proc[w].job \in Nat
      BY ProcFields, Zenon DEF ProcRight
    <3> QED
      BY <2>1, <3>1, ProcFields, Zenon DEF ProcRight
  <2>4. CaseOpen(proc, file, jobs')
    BY <2>1, <2>3, Zenon DEF CaseOpen
  <2> QED
    BY <1>1, <1>2, <1>6, <2>2, <2>3, <2>4, Zenon DEF MediaInv
<1> QED
  BY <1>4, <1>5, <1>6, Zenon DEF handleCompleteUpload

\* The mismatched upload is removed, or what replaced it.
LEMMA RemoveMismatchedInv == ASSUME MediaInv, RemoveMismatched PROVE MediaInv'
<1>1. /\ upload' = upload /\ puts' = puts /\ jobs' = jobs /\ proc' = proc /\ variants' = variants
      /\ promoted' = promoted /\ announced' = announced /\ due' = due /\ completer' = 0 /\ completer # 0
      /\ MediaFault \/ NoMediaFault
  BY Zenon DEF RemoveMismatched, stores
<1>2. mediaFaults' \in 0..MaxMediaFaults /\ 0 \in 0..Len(puts)
  BY <1>1, MediaFaultsCounted DEF MediaInv, MediaShape
<1>3. DerivedOnlyFromClean' /\ AnnouncedAreStored'
  BY <1>1, Zenon DEF MediaInv, DerivedOnlyFromClean, AnnouncedAreStored
<1>4. CASE UNCHANGED <<file, deletions>>
  <2>1. DeletesRight' /\ MediaShape'
    BY <1>1, <1>2, <1>4, Zenon DEF MediaInv, MediaShape, DeletesRight
  <2> QED
    BY <1>1, <1>3, <1>4, <2>1, Zenon DEF MediaInv
<1>5. CASE DeleteObject(completer)
  <2>1. /\ file' = 0
        /\ deletions' = deletions \/ (file # 0 /\ deletions' = deletions \union {[seen |-> completer, gone |-> file]})
    BY <1>5, Zenon DEF DeleteObject
  <2>2. file # 0 => file \in 1..Len(puts) /\ (puts[file] = "mismatched" \/ file > completer)
    BY <1>1 DEF MediaInv, MediaShape
  <2>3. DeletesRight'
    <3>1. CASE deletions' = deletions
      BY <1>1, <3>1, Zenon DEF MediaInv, DeletesRight
    <3>2. CASE file # 0 /\ deletions' = deletions \union {[seen |-> completer, gone |-> file]}
      BY <1>1, <2>2, <3>2 DEF MediaInv, DeletesRight
    <3> QED
      BY <2>1, <3>1, <3>2, Zenon
  <2>4. MediaShape' /\ 0 \notin due
    <3>1. 0 \notin 1..Len(puts)
      BY DEF MediaInv, MediaShape
    <3> QED
      BY <1>1, <1>2, <2>1, <3>1, Zenon DEF MediaInv, MediaShape
  <2>5. \A w \in Procs : ProcRight(proc[w], puts, 0, Len(jobs), upload, variants, promoted)
    BY Zenon DEF MediaInv, ProcRight
  <2> QED
    BY <1>1, <1>3, <2>1, <2>3, <2>4, <2>5, Zenon DEF MediaInv
<1> QED
  BY <1>4, <1>5, Zenon DEF RemoveMismatched

\* At the start nothing is authorised, stored or queued.
LEMMA MediaInitInv == ASSUME MediaInit PROVE MediaInv
<1>1. puts = <<>> /\ jobs = <<>> /\ Len(puts) = 0 /\ Len(jobs) = 0
  BY DEF MediaInit
<1>2. MediaShape
  <2>1. upload \in [kind : UploadKinds \union {"none"}, size : SizeClasses]
    BY DEF MediaInit, SizeClasses
  <2>2. variants \in [Variants -> 0..Len(puts)] /\ promoted \in [Variants -> 0..Len(puts)]
    BY <1>1 DEF MediaInit
  <2>3. proc \in [Procs -> ProcRow]
    BY IdleRow, Zenon DEF MediaInit
  <2> QED
    BY <1>1, <2>1, <2>2, <2>3, MediaAssumption DEF MediaInit, MediaShape
<1>3. \A w \in Procs : ProcRight(proc[w], puts, file, Len(jobs), upload, variants, promoted)
  BY <1>1, IdleRow DEF MediaInit, ProcRight
<1>4. \A n \in Variants : variants[n] = 0 /\ promoted[n] = 0
  BY Zenon DEF MediaInit
<1>5. DerivedOnlyFromClean /\ AnnouncedAreStored /\ DeletesRight
  BY <1>4, Zenon DEF MediaInit, DerivedOnlyFromClean, AnnouncedAreStored, DeletesRight
<1> QED
  BY <1>1, <1>2, <1>3, <1>5, Zenon DEF MediaInit, MediaInv

\* Every step of the client, of media-service and of the processors keeps it.
LEMMA MediaNextInv == ASSUME MediaInv, [MediaNext]_mediaVars PROVE MediaInv'
<1>1. CASE handleInitUpload \/ Put \/ handleCompleteUpload \/ RemoveMismatched
  BY <1>1, InitUploadInv, PutInv, CompleteUploadInv, RemoveMismatchedInv, Zenon
<1>2. ASSUME NEW w \in Procs, ProcRuns(w) \/ TakeJob(w) \/ ProcCrash(w) PROVE MediaInv'
  BY <1>2, ReadAttrsInv, DownloadInv, ScanInv, DeleteInfectedInv, ProbeInv, UploadVariantInv,
     PromoteInv, PublishCompleteInv, TakeJobInv, ProcCrashInv, Zenon DEF ProcRuns
<1>3. CASE UNCHANGED mediaVars
  BY <1>3, Zenon DEF mediaVars, MediaInv, MediaShape, DerivedOnlyFromClean, AnnouncedAreStored, DeletesRight
<1> QED
  BY <1>1, <1>2, <1>3, Zenon DEF MediaNext, ProcsRun, JobsDelivered

\* A processor's copy is known for what it is, whatever is uploaded meanwhile, and an
\* infected object that is due has a job none of whose processors read an older one.
THEOREM MediaInductive == MediaSpec => []MediaInv
<1>1. MediaInit => MediaInv
  BY MediaInitInv
<1>2. MediaInv /\ [MediaNext]_mediaVars => MediaInv'
  BY MediaNextInv
<1> QED
  BY <1>1, <1>2, PTL DEF MediaSpec

\* What mediaproc derives, announces and deletes is what it should, for any number of
\* processors, uploads, jobs, retries and faults.
THEOREM MediaAlwaysTreatedRight == MediaSpec => []MediaTreatedRight
<1>1. MediaInv => MediaTreatedRight
  <2> SUFFICES ASSUME MediaInv PROVE MediaTreatedRight
    OBVIOUS
  <2>1. /\ puts \in Seq(Contents) /\ jobs \in Seq(JobStates) /\ Len(puts) \in Nat /\ Len(jobs) \in Nat
        /\ Len(jobs) <= MaxJobs /\ DOMAIN jobs = 1..Len(jobs)
        /\ \A j \in 1..Len(jobs) : jobs[j] \in JobStates
        /\ 0..Len(puts) = Versions \union {0} /\ 1..Len(puts) = Versions
    BY DEF MediaInv, MediaShape, Versions
  <2>2. MediaTypeOK
    <3>1. ASSUME NEW w \in Procs
          PROVE  /\ proc[w].tries \in 0..MaxMediaRetries /\ proc[w].job \in 0..MaxJobs
                 /\ proc[w].ver \in 0..Len(puts)
      <4>1. proc[w].job <= Len(jobs) /\ proc[w].ver <= Len(puts)
        BY ProcFields, Zenon DEF ProcRight
      <4> QED
        BY <2>1, <4>1, ProcFields, MediaAssumption
    <3>2. upload.kind \in UploadKinds \union {"none"} /\ upload.size \in SizeClasses
      BY DEF MediaInv, MediaShape
    <3> QED
      BY <2>1, <3>1, <3>2, Zenon DEF MediaInv, MediaShape, MediaTypeOK, JobStates
  <2>3. DeletesExplained
    BY Zenon DEF MediaInv, DeletesRight, DeletesExplained
  <2>4. InfectedIsRemoved
    BY <2>1, Zenon DEF MediaInv, CaseOpen, InfectedIsRemoved
  <2> QED
    BY <2>2, <2>3, <2>4, Zenon DEF MediaInv, MediaTreatedRight
<1> QED
  BY <1>1, MediaInductive, PTL
=============================================================================
