---------------------------- MODULE Moderation ----------------------------
(***************************************************************************)
(* Banning an account, and the reports that lead there.  admin-service     *)
(* writes the ban to PostgreSQL and to a Redis entry                       *)
(* (services/admin-service/main.go, pkg/redisx/bans.go); chat-service      *)
(* reads only the entry, on every send                                     *)
(* (services/chat-service/internal/moderation.go); a reconciliation loop   *)
(* copies the table back into Redis.                                       *)
(*                                                                         *)
(* One account is followed.  A task is one operator request; each of its   *)
(* round trips is one action.                                              *)
(***************************************************************************)
EXTENDS FiniteSets, Naturals

CONSTANTS Tasks,         \* operator requests
          ReportSlots,   \* report ids
          MaxModFaults   \* bound: failed calls and Redis flushes

ASSUME ModAssumption == MaxModFaults \in Nat

VARIABLES banned,      \* users.banned_at is set and the account not deleted
          banEntry,    \* Redis: "none", "fresh", or "old" (24 h unrefreshed)
          task,        \* the operator requests
          reconciler,  \* the loop: what it listed and is about to reload
          banGap,      \* a fault lost the entry of a banned account
          ghostBy,     \* why an entry of an unbanned account is there
          lastSend,    \* the last answer of refuseIfBanned
          reports,     \* the reports one user filed about the account
          modFaults

modVars == <<banned, banEntry, task, reconciler, banGap, ghostBy, lastSend,
             reports, modFaults>>

Causes == {"none", "clear failed", "concurrent ban", "reconciler"}
TaskSteps == {"new", "cached", "lift", "close", "lookup", "done", "failed"}

ModTypeOK ==
  /\ banned \in BOOLEAN /\ banEntry \in {"none", "fresh", "old"}
  /\ \A t \in Tasks : /\ task[t].pc \in TaskSteps
                      /\ task[t].kind \in {"", "ban", "unban", "lookup"}
                      /\ task[t].seen \in Causes
                      /\ task[t].audit \in {"none", "written", "lost"}
  /\ reconciler \in [pc : {"wait", "reload"}, listed : BOOLEAN]
  /\ banGap \in BOOLEAN /\ ghostBy \in Causes
  /\ reports \in [ReportSlots -> {"none", "open", "actioned", "dismissed"}]
  /\ modFaults \in 0..MaxModFaults

ModInit ==
  /\ banned = FALSE /\ banEntry = "none" /\ banGap = FALSE /\ ghostBy = "none"
  /\ task = [t \in Tasks |-> [pc |-> "new", kind |-> "", seen |-> "none",
                              effect |-> FALSE, audit |-> "none"]]
  /\ reconciler = [pc |-> "wait", listed |-> FALSE]
  /\ lastSend = [passed |-> TRUE, banned |-> FALSE, excused |-> TRUE]
  /\ reports = [i \in ReportSlots |-> "none"]
  /\ modFaults = 0

ModFault == modFaults < MaxModFaults /\ modFaults' = modFaults + 1
NoFault == UNCHANGED modFaults

\* Bans.IsBanned.
Cached == banEntry # "none"

\* An entry written now: every unban between its Clear and its Lift sees it.
Tell(cause, ts) == [t \in Tasks |-> IF ts[t].pc = "lift" /\ ts[t].kind = "unban"
                                    THEN [ts[t] EXCEPT !.seen = cause] ELSE ts[t]]

\* Bans.Set by a ban request or by Reload.
SetEntry(cause, ts) ==
  /\ banEntry' = "fresh"
  /\ banGap' = FALSE
  /\ ghostBy' = IF banned THEN "none" ELSE cause
  /\ task' = Tell(cause, ts)

\* Bans.Clear.
ClearEntry == banEntry' = "none" /\ ghostBy' = "none"

(***************************************************************************)
(* handleBan: the row, then the Redis entry, then sessions, audit, event.  *)
(***************************************************************************)
\* Mutant of BanRow: the Redis entry is written only by the reconciler.
BanRowOnly(t) ==
  /\ task[t].pc = "new" /\ NoFault
  /\ banned' = TRUE /\ ghostBy' = "none"
  /\ task' = [task EXCEPT ![t].kind = "ban", ![t].pc = "close", ![t].effect = TRUE]
  /\ UNCHANGED <<banEntry, reconciler, banGap, lastSend, reports>>

\* Users.Ban commits; had it failed, the request would have changed nothing.
BanRow(t) ==
  /\ task[t].pc = "new" /\ NoFault
  /\ banned' = TRUE /\ ghostBy' = "none"
  /\ task' = [task EXCEPT ![t].kind = "ban", ![t].pc = "cached", ![t].effect = TRUE]
  /\ UNCHANGED <<banEntry, reconciler, banGap, lastSend, reports>>

\* Bans.Set.  A failure is logged and the request goes on: the reconciler will
\* write the entry.
BanEntry(t) ==
  /\ task[t].pc = "cached"
  /\ LET ts == [task EXCEPT ![t].pc = "close"] IN
     \/ SetEntry("concurrent ban", ts) /\ NoFault
     \/ /\ ModFault /\ task' = ts
        /\ banGap' = (banGap \/ (banned /\ ~Cached))
        /\ UNCHANGED <<banEntry, ghostBy>>
  /\ UNCHANGED <<banned, reconciler, lastSend, reports>>

\* The tail of handleBan and handleUnban, after the effect, every failure only
\* logged: a ban revokes the sessions (module Accounts), both write the audit
\* record, a ban publishes the user event.
CloseTask(t) ==
  /\ task[t].pc = "close"
  /\ \/ NoFault /\ task' = [task EXCEPT ![t].pc = "done", ![t].audit = "written"]
     \/ ModFault /\ task' = [task EXCEPT ![t].pc = "done", ![t].audit = "lost"]
  /\ UNCHANGED <<banned, banEntry, reconciler, banGap, ghostBy, lastSend, reports>>

(***************************************************************************)
(* handleUnban: the Redis entry first, then the row.                       *)
(***************************************************************************)
\* Bans.Clear.  A failure is logged and the row is lifted all the same.
UnbanClear(t) ==
  /\ task[t].pc = "new"
  /\ LET ts == [task EXCEPT ![t].kind = "unban", ![t].pc = "lift"] IN
     \/ NoFault /\ ClearEntry /\ task' = ts
     \/ /\ ModFault /\ UNCHANGED <<banEntry, ghostBy>>
        /\ task' = [ts EXCEPT ![t].seen = "clear failed"]
  /\ UNCHANGED <<banned, reconciler, banGap, lastSend, reports>>

\* Users.Unban: an account that is not banned is ErrNotFound, and so is
\* the answer; a failed statement leaves a banned account without its entry.
UnbanRow(t) ==
  /\ task[t].pc = "lift"
  /\ \/ /\ banned /\ NoFault
        /\ banned' = FALSE /\ banGap' = FALSE
        /\ ghostBy' = IF Cached THEN task[t].seen ELSE "none"
        /\ task' = [task EXCEPT ![t].pc = "close", ![t].effect = TRUE]
     \/ /\ \/ ~banned /\ NoFault /\ UNCHANGED banGap
           \/ banned /\ ModFault /\ banGap' = (banGap \/ ~Cached)
        /\ task' = [task EXCEPT ![t].pc = "failed"]
        /\ UNCHANGED <<banned, ghostBy>>
  /\ UNCHANGED <<banEntry, reconciler, lastSend, reports>>

(***************************************************************************)
(* handleLookup: the audit record first, and without it no answer.         *)
(***************************************************************************)
LookupAudit(t) ==
  /\ task[t].pc = "new"
  /\ \/ NoFault /\ task' = [task EXCEPT ![t].kind = "lookup", ![t].pc = "lookup",
                                        ![t].audit = "written"]
     \/ ModFault /\ task' = [task EXCEPT ![t].kind = "lookup", ![t].pc = "failed",
                                         ![t].audit = "lost"]
  /\ UNCHANGED <<banned, banEntry, reconciler, banGap, ghostBy, lastSend, reports>>

LookupAnswer(t) ==
  /\ task[t].pc = "lookup" /\ NoFault
  /\ task' = [task EXCEPT ![t].pc = "done", ![t].effect = TRUE]
  /\ UNCHANGED <<banned, banEntry, reconciler, banGap, ghostBy, lastSend, reports>>

(***************************************************************************)
(* reconcileBans: list the banned accounts, then write their entries.      *)
(***************************************************************************)
\* An entry that a round does not refresh grows old.
Aged == IF banEntry = "fresh" THEN "old" ELSE banEntry

\* Users.ListBanned.  When it fails the round is skipped.
ReconcileList ==
  /\ reconciler.pc = "wait"
  /\ \/ /\ NoFault /\ UNCHANGED banEntry
        /\ reconciler' = [pc |-> "reload", listed |-> banned]
     \/ ModFault /\ banEntry' = Aged /\ UNCHANGED reconciler
  /\ UNCHANGED <<banned, task, banGap, ghostBy, lastSend, reports>>

\* Mutant of Reload: an empty list is not the only one that writes nothing.
ReloadNothing ==
  /\ reconciler.pc = "reload" /\ NoFault
  /\ banEntry' = Aged
  /\ reconciler' = [reconciler EXCEPT !.pc = "wait"]
  /\ UNCHANGED <<banned, task, banGap, ghostBy, lastSend, reports>>

\* Bans.Reload: sets an entry per listed account, and never removes one.
Reload ==
  /\ reconciler.pc = "reload"
  /\ \/ /\ reconciler.listed /\ NoFault /\ SetEntry("reconciler", task)
     \/ /\ \/ ~reconciler.listed /\ NoFault
           \/ reconciler.listed /\ ModFault
        /\ banEntry' = Aged /\ UNCHANGED <<banGap, ghostBy, task>>
  /\ reconciler' = [reconciler EXCEPT !.pc = "wait"]
  /\ UNCHANGED <<banned, lastSend, reports>>

\* The 24 h of bannedTTL pass without a refresh.
ExpireBan ==
  /\ banEntry = "old" /\ NoFault
  /\ banEntry' = "none" /\ ghostBy' = "none" /\ banGap' = (banGap \/ banned)
  /\ UNCHANGED <<banned, task, reconciler, lastSend, reports>>

\* Redis restarts empty.
FlushBans ==
  /\ Cached /\ ModFault
  /\ banEntry' = "none" /\ ghostBy' = "none" /\ banGap' = banned
  /\ UNCHANGED <<banned, task, reconciler, lastSend, reports>>

(***************************************************************************)
(* chat-service: the check of a send, and the reports.                     *)
(***************************************************************************)
Banning == \E t \in Tasks : task[t].pc = "cached"
Unbanning == \E t \in Tasks : task[t].pc = "lift"

\* refuseIfBanned: only the entry is read, and a Redis error lets it through.
refuseIfBanned ==
  /\ \/ NoFault /\ lastSend' = [passed |-> ~Cached, banned |-> banned,
           excused |-> IF banned THEN banGap \/ Banning \/ Unbanning
                                 ELSE ghostBy # "none"]
     \/ ModFault /\ lastSend' = [passed |-> TRUE, banned |-> banned, excused |-> TRUE]
  /\ UNCHANGED <<banned, banEntry, task, reconciler, banGap, ghostBy, reports>>

\* Reports.Create: while one report of this reporter about this account is open,
\* another one is answered and not stored.
CreateReport(i) ==
  /\ \A j \in ReportSlots : reports[j] # "open"
  /\ reports[i] = "none" /\ reports' = [reports EXCEPT ![i] = "open"]

\* handleReport: one that cannot be stored changes nothing.
handleReport(i) ==
  /\ NoFault /\ CreateReport(i)
  /\ UNCHANGED <<banned, banEntry, task, reconciler, banGap, ghostBy, lastSend>>

\* Reports.Resolve: WHERE resolved_at IS NULL.
ResolveReport(i, verdict) ==
  reports[i] = "open" /\ reports' = [reports EXCEPT ![i] = verdict]

\* handleResolve: an operator closes an open report.
handleResolve(i, verdict) ==
  /\ NoFault /\ ResolveReport(i, verdict)
  /\ UNCHANGED <<banned, banEntry, task, reconciler, banGap, ghostBy, lastSend>>

TaskStep(t) == BanEntry(t) \/ CloseTask(t) \/ UnbanRow(t) \/ LookupAnswer(t)

ModNext ==
  \/ \E t \in Tasks : BanRow(t) \/ UnbanClear(t) \/ LookupAudit(t) \/ TaskStep(t)
  \/ ReconcileList \/ Reload \/ ExpireBan \/ FlushBans \/ refuseIfBanned
  \/ \E i \in ReportSlots :
       handleReport(i) \/ \E v \in {"actioned", "dismissed"} : handleResolve(i, v)

\* Operator requests end; the ticker of the loop fires; Redis expires keys.
OperatorsFinish == \E t \in Tasks : TaskStep(t)
Reconcile == ReconcileList \/ Reload

ModSpec == /\ ModInit /\ [][ModNext]_modVars
           /\ WF_modVars(OperatorsFinish) /\ WF_modVars(Reconcile)
           /\ WF_modVars(ExpireBan)

(***************************************************************************)
(* Properties.                                                             *)
(***************************************************************************)
\* refuseIfBanned lets a banned account send only while the ban or an unban is
\* between its two writes, or after a fault that cost it the entry (a failed
\* Redis command, a failed unban, an entry that outlived its refreshes).
BanStopsSends == lastSend.banned /\ lastSend.passed => lastSend.excused

\* refuseIfBanned stops an account that is not banned only because its unban
\* could not delete the entry, because the reconciler wrote it from a list read
\* before the unban, or because a concurrent ban request wrote it last.
UnbannedMaySend == ~lastSend.banned /\ ~lastSend.passed => lastSend.excused

\* Whatever operators, faults and reconciliation rounds interleaved, the entry
\* and the table agree in the end, without anyone repairing them.
BanCacheConverges == <>[](Cached = banned)

\* admin-service answers a lookup only after it is on the audit trail, and a
\* ban or unban that took effect and was answered is there unless that write failed.
EffectsAreAudited ==
  \A t \in Tasks : task[t].pc = "done" /\ task[t].effect =>
     \/ task[t].audit = "written"
     \/ task[t].kind # "lookup" /\ task[t].audit = "lost"

\* Of two operators resolving one report the second changes nothing: what was
\* decided about a report stays decided.
ResolutionStands ==
  [][\A i \in ReportSlots : reports[i] \in {"actioned", "dismissed"}
                              => reports'[i] = reports[i]]_reports

\* Bans hold, and only bans do, but for the named windows; operators are audited.
BansHold == ModTypeOK /\ BanStopsSends /\ UnbannedMaySend /\ EffectsAreAudited
=============================================================================
