------------------------------ MODULE MCKeyed -------------------------------
(***************************************************************************)
(* What Redis keys with a time to live decide, for TLC: the block cache,   *)
(* the ban cache, and the slots and records of calls.  The parts share no  *)
(* variable: a behaviour is one of one part, and the variables of the      *)
(* others stay as they were.                                               *)
(***************************************************************************)
EXTENDS Blocklist, Moderation, CallService

VARIABLE part

keyedVars == <<blockVars, modVars, callVars, part>>

MCInit == /\ BlockInit /\ ModInit /\ CallInit
          /\ part \in {"blocks", "bans", "calls"}

MCNext ==
  /\ UNCHANGED part
  /\ IF part = "blocks" THEN BlockNext ELSE UNCHANGED blockVars
  /\ IF part = "bans" THEN ModNext ELSE UNCHANGED modVars
  /\ IF part = "calls" THEN CallNext ELSE UNCHANGED callVars

In(p, A) == part = p /\ A

\* The fairness of the parts' own specifications.
MCSpec ==
  /\ MCInit /\ [][MCNext]_keyedVars
  /\ WF_blockVars(In("blocks", BlockRequestsEnd)) /\ WF_blockVars(In("blocks", EntriesExpire))
  /\ WF_modVars(In("bans", OperatorsFinish)) /\ WF_modVars(In("bans", Reconcile))
  /\ WF_modVars(In("bans", ExpireBan))
  /\ WF_callVars(In("calls", CallsProceed)) /\ WF_callVars(In("calls", SlotsExpire))

\* What must happen in each part: wrong entries of the block and ban caches go,
\* slots are freed.  What an operator resolved stays resolved.
KeyedLiveness ==
  BlockCacheSettles /\ BanCacheConverges /\ SlotsAreFreed /\ ResolutionStands
=============================================================================
