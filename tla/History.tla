------------------------------ MODULE History ------------------------------
(***************************************************************************)
(* Reading a chat backwards, page by page                                  *)
(* (pkg/cassandrax/cassandra.go MessageRepo.History,                       *)
(* services/chat-service/internal/service.go handleGetHistory).  Messages  *)
(* are stored in buckets of BucketSize sequence numbers; a page is filled  *)
(* by one query per bucket, walking down, while messages keep arriving.    *)
(*                                                                         *)
(* The numbers are scaled: the code has BucketSize = 10000, MaxBucketWalk  *)
(* = 8 and Sentinel = 2^62.  What matters is kept: a chat spans more       *)
(* buckets than one call walks, its buckets are never empty below the      *)
(* newest message (burned numbers leave holes, not deserts), a page fits   *)
(* in one walk, and the sentinel is further away than a walk reaches.      *)
(***************************************************************************)
EXTENDS Naturals, Sequences, SequencesExt

CONSTANTS BucketSize, MaxBucketWalk, Sentinel,
          PageLimit,  \* the client's limit
          HistTop     \* bound: the highest sequence number

ASSUME HistoryScale == /\ BucketSize \in Nat \ {0} /\ MaxBucketWalk \in Nat \ {0}
                       /\ PageLimit \in 1..MaxBucketWalk - 1
                       /\ Sentinel \div BucketSize > HistTop \div BucketSize + MaxBucketWalk

VARIABLES hstored,  \* messages_by_chat: the sequence numbers with a row
          walk,     \* the History call of the current page
          pager     \* the client: what it has been given, and the next cursor

pageVars == <<hstored, walk, pager>>

HistSeqs == 1..HistTop

HistTypeOK ==
  /\ hstored \subseteq HistSeqs
  /\ walk.pc \in {"idle", "walking"} /\ walk.out \in Seq(HistSeqs)
  /\ walk.bucket \in 0..(Sentinel \div BucketSize) /\ walk.walked \in 0..MaxBucketWalk
  /\ pager.seen \subseteq HistSeqs /\ pager.next \in 0..HistTop + 1

NoWalk == [pc |-> "idle", from |-> 0, before |-> 0, bucket |-> 0, walked |-> 0,
           out |-> <<>>, atStart |-> {}, done |-> FALSE]

BucketOf(seq) == seq \div BucketSize

\* No bucket below the newest message is empty.
NoDesert(rows) ==
  \A s \in rows : 0..BucketOf(s) \subseteq {BucketOf(m) : m \in rows}

HistInit ==
  /\ hstored \in {rows \in SUBSET HistSeqs : NoDesert(rows)}
  /\ walk = NoWalk
  /\ pager = [pc |-> "new", from |-> 0, next |-> 0, seen |-> {}, owed |-> {},
              page |-> <<>>]

\* The rows of a bucket below a number, newest first, at most n of them.
BucketQuery(bucket, before, n) ==
  LET rows == {s \in hstored : BucketOf(s) = bucket /\ s < before}
      sorted == SetToSortSeq(rows, LAMBDA a, b : a > b)
  IN SubSeq(sorted, 1, IF Len(sorted) < n THEN Len(sorted) ELSE n)

\* History is called: a cursor of zero becomes the sentinel.
StartWalk(cursor) ==
  LET before == IF cursor = 0 THEN Sentinel ELSE cursor
  IN walk' = [NoWalk EXCEPT !.pc = "walking", !.from = cursor, !.before = before,
                            !.bucket = BucketOf(before), !.atStart = hstored]

\* The client opens the chat: at the newest (before_seq = 0), or at or just
\* above a message it knows of.
OpenChat(cursor) ==
  /\ pager.pc = "new"
  /\ cursor \in {0} \union hstored \union {s + 1 : s \in hstored}
  /\ StartWalk(cursor)
  /\ pager' = [pager EXCEPT !.pc = "waiting", !.from = cursor,
                            !.owed = {s \in hstored : cursor = 0 \/ s < cursor}]
  /\ UNCHANGED hstored

NextPage ==
  /\ pager.pc = "reading" /\ pager.next # 0
  /\ StartWalk(pager.next)
  /\ pager' = [pager EXCEPT !.pc = "waiting"]
  /\ UNCHANGED hstored

\* Mutant of NextBefore: the query below excludes the top number of the bucket.
NextBeforeExclusive(bucket) == bucket * BucketSize - 1

\* Where the query of the bucket below starts.
NextBefore(bucket) == bucket * BucketSize

WalkGoesOn == Len(walk.out) < PageLimit /\ walk.walked < MaxBucketWalk /\ ~walk.done

\* One iteration of the loop.  "done" stands for a bucket below zero.
WalkBucket ==
  /\ walk.pc = "walking" /\ WalkGoesOn
  /\ LET rows == BucketQuery(walk.bucket, walk.before, PageLimit - Len(walk.out))
     IN walk' = [walk EXCEPT !.out = @ \o rows, !.walked = @ + 1,
                             !.before = NextBefore(walk.bucket),
                             !.bucket = IF @ = 0 THEN 0 ELSE @ - 1,
                             !.done = walk.bucket = 0]
  /\ UNCHANGED <<hstored, pager>>

\* next_before_seq: the last number of a full page, or zero.
NextCursor(out) == IF Len(out) = PageLimit THEN Last(out) ELSE 0

\* History returns and handleGetHistory answers.
AnswerPage ==
  /\ walk.pc = "walking" /\ ~WalkGoesOn
  /\ pager' = [pager EXCEPT !.pc = "reading", !.next = NextCursor(walk.out),
                            !.seen = @ \union ToSet(walk.out), !.page = walk.out]
  /\ walk' = [walk EXCEPT !.pc = "idle"]
  /\ UNCHANGED hstored

\* The persister stores a message.
Arrive(s) ==
  /\ s \notin hstored /\ NoDesert(hstored \union {s})
  /\ hstored' = hstored \union {s}
  /\ UNCHANGED <<walk, pager>>

HistNext == \/ \E c \in 0..HistTop + 1 : OpenChat(c)
            \/ NextPage \/ WalkBucket \/ AnswerPage
            \/ \E s \in HistSeqs : Arrive(s)

HistSpec == HistInit /\ [][HistNext]_pageVars

(***************************************************************************)
(* Properties.                                                             *)
(***************************************************************************)
FromANumber == walk.from # 0 /\ pager.pc = "reading"

\* A page below a given number is the slice History promises: newest first, no
\* number twice, nothing at or above the cursor, and of the messages that were
\* there when it was asked for none is skipped between the cursor and its end,
\* whatever arrives between the queries of its buckets.
PageIsASlice ==
  FromANumber =>
    LET page == pager.page
        end == IF Len(page) = PageLimit THEN Last(page) ELSE 0
    IN /\ \A i, j \in DOMAIN page : i < j => page[i] > page[j]
       /\ \A i \in DOMAIN page : page[i] < walk.from
       /\ \A s \in walk.atStart : end <= s /\ s < walk.from => s \in ToSet(page)

\* A client that follows next_before_seq from a number down to its end has been
\* given every message that was below that number when it began.
PagingMissesNothing ==
  pager.pc = "reading" /\ pager.next = 0 /\ pager.from # 0
    => pager.owed \subseteq pager.seen

\* "Passing beforeSeq <= 0 starts from the newest": the first page of a chat
\* that has messages holds its newest one.
FirstPageHasTheNewest ==
  pager.pc = "reading" /\ walk.from = 0 /\ walk.atStart # {}
    => \E s \in ToSet(pager.page) : \A m \in walk.atStart : s >= m

\* Paging backwards from a number: each page is a slice and together they miss
\* nothing that was there.
PagesCoverHistory == HistTypeOK /\ PageIsASlice /\ PagingMissesNothing
=============================================================================
