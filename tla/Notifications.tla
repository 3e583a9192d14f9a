--------------------------- MODULE Notifications ---------------------------
(***************************************************************************)
(* Push notifications of one recipient with several devices.  The pusher   *)
(* (services/consumers/pusher/main.go) handles the record of a message,    *)
(* notification-service (services/notification-service/main.go) one from   *)
(* the push queue; both read the tokens (pkg/pgstore/users.go), send to    *)
(* FCM (pkg/push/fcm.go) and clear the tokens FCM calls unregistered,      *)
(* while devices re-register, the user mutes the chat or comes online, and *)
(* sessions are revoked.                                                   *)
(***************************************************************************)
EXTENDS FiniteSets, Naturals

CONSTANTS Devices,
          MaxToken,        \* bound: registration tokens a device has had
          MaxPushRetries,  \* retries before the dead-letter queue (4 in the code)
          MaxPushFaults,   \* bound: failed lookups and sends
          MaxPushChanges       \* bound: pushChanges the user and the devices make

ASSUME PushAssumption ==
  /\ MaxToken \in Nat \ {0} /\ MaxPushRetries \in Nat
  /\ MaxPushFaults \in Nat /\ MaxPushChanges \in Nat

VARIABLES token,    \* devices.push_token, 0 when NULL
          live,     \* the token FCM accepts for the device now
          loggedOut,  \* devices with revoked_at
          online, muted,
          worker,   \* the two handlers
          alerted,  \* devices the handler's record has alerted
          wronged,  \* devices whose live token was cleared though FCM never refused it
          pushFaults, pushChanges

user == <<live, online, muted>>
pushVars == <<token, loggedOut, user, worker, alerted, wronged, pushFaults, pushChanges>>

PushWorkers == {"pusher", "notifier"}
Outcomes == {"none", "ok", "dead", "retry", "rejected"}
Ended == {"done", "dlq"}

PushTypeOK ==
  /\ token \in [Devices -> 0..MaxToken] /\ live \in [Devices -> 1..MaxToken]
  /\ loggedOut \subseteq Devices /\ online \in BOOLEAN /\ muted \in BOOLEAN
  /\ \A w \in PushWorkers :
       /\ worker[w].pc \in {"presence", "mute", "targets", "send", "results"} \union Ended
       /\ worker[w].tries \in 0..MaxPushRetries
       /\ worker[w].res \in [Devices -> Outcomes]
  /\ alerted \in [PushWorkers -> SUBSET Devices] /\ wronged \subseteq Devices
  /\ pushFaults \in 0..MaxPushFaults /\ pushChanges \in 0..MaxPushChanges

FirstStep(w) == IF w = "pusher" THEN "presence" ELSE "targets"

\* The reads of an attempt start over; what is known of the record stays.
Fresh(w, r) == [r EXCEPT !.pc = FirstStep(w), !.got = [d \in Devices |-> 0],
                         !.res = [d \in Devices |-> "none"], !.again = FALSE]

PushInit ==
  /\ token = [d \in Devices |-> 1] /\ live = [d \in Devices |-> 1]
  /\ loggedOut \in SUBSET Devices /\ online \in BOOLEAN /\ muted \in BOOLEAN
  /\ worker = [w \in PushWorkers |-> Fresh(w, [pc |-> "", tries |-> 0, got |-> <<>>, res |-> <<>>,
       again |-> FALSE, raced |-> {}, onlineAll |-> online, mutedAll |-> muted,
       revokedAll |-> loggedOut, shutOut |-> loggedOut,
       hushed |-> w = "pusher" /\ (online \/ muted)])]
  /\ alerted = [w \in PushWorkers |-> {}] /\ wronged = {} /\ pushFaults = 0 /\ pushChanges = 0

PushFault == pushFaults < MaxPushFaults /\ pushFaults' = pushFaults + 1
Fine == UNCHANGED pushFaults

(***************************************************************************)
(* The handlers.                                                           *)
(***************************************************************************)
PushStep(w, r) == worker' = [worker EXCEPT ![w] = r]
Go(w, pc) == PushStep(w, [worker[w] EXCEPT !.pc = pc])

\* The handler returns an error: the consumer retries, then parks the record.
Error(w) ==
  PushStep(w, IF worker[w].tries < MaxPushRetries
          THEN Fresh(w, [worker[w] EXCEPT !.tries = @ + 1])
          ELSE [worker[w] EXCEPT !.pc = "dlq"])

\* presence.OnlineMany: an online recipient needs no push.
ReadPresence ==
  /\ worker["pusher"].pc = "presence"
  /\ \/ Fine /\ Go("pusher", IF online THEN "done" ELSE "mute")
     \/ PushFault /\ Error("pusher")
  /\ UNCHANGED <<token, loggedOut, user, alerted, wronged, pushChanges>>

\* Members.MutedAmong.
ReadMute ==
  /\ worker["pusher"].pc = "mute"
  /\ \/ Fine /\ Go("pusher", IF muted THEN "done" ELSE "targets")
     \/ PushFault /\ Error("pusher")
  /\ UNCHANGED <<token, loggedOut, user, alerted, wronged, pushChanges>>

\* Devices.PushTargetsFor: no target, nothing to send.
ReadTargets(w) ==
  /\ worker[w].pc = "targets"
  /\ \/ /\ Fine
        /\ LET got == [d \in Devices |-> IF d \in loggedOut THEN 0 ELSE token[d]]
           IN PushStep(w, [worker[w] EXCEPT !.got = got, !.raced = {},
                         !.pc = IF \A d \in Devices : got[d] = 0 THEN "done" ELSE "send"])
     \/ PushFault /\ Error(w)
  /\ UNCHANGED <<token, loggedOut, user, alerted, wronged, pushChanges>>

Targets(w) == {d \in Devices : worker[w].got[d] # 0}
Accepted(w) == {d \in Targets(w) : worker[w].got[d] = live[d]}
FailedSend(w, d, outcome) ==
  [e \in Devices |-> IF e \notin Targets(w) THEN "none"
                     ELSE IF e = d THEN outcome
                     ELSE IF e \in Accepted(w) THEN "ok" ELSE "dead"]

\* FCM.SendAll: each token is accepted or unregistered; a send can fail in a way
\* that is worth a retry, the alert shown or not, or be rejected for good; the
\* access token may not be had at all.
SendAll(w) ==
  /\ worker[w].pc = "send"
  /\ \/ /\ Fine
        /\ PushStep(w, [worker[w] EXCEPT !.pc = "results",
             !.res = [d \in Devices |-> IF d \notin Targets(w) THEN "none"
                                        ELSE IF d \in Accepted(w) THEN "ok" ELSE "dead"]])
        /\ alerted' = [alerted EXCEPT ![w] = @ \union Accepted(w)]
     \/ /\ PushFault
        /\ \E d \in Targets(w), outcome \in {"retry", "rejected"} :
             /\ PushStep(w, [worker[w] EXCEPT !.pc = "results", !.res = FailedSend(w, d, outcome)])
             /\ \E shown \in SUBSET (Accepted(w) \intersect {d}) :
                  alerted' = [alerted EXCEPT ![w] = @ \union (Accepted(w) \ {d}) \union
                                                    (IF outcome = "retry" THEN shown ELSE {})]
     \/ PushFault /\ Error(w) /\ UNCHANGED alerted
  /\ UNCHANGED <<token, loggedOut, user, wronged, pushChanges>>

\* Devices.ClearPushToken, by the device's id alone.
ClearPushToken(w, d) ==
  /\ token' = [token EXCEPT ![d] = 0]
  /\ wronged' = IF token[d] = live[d] /\ d \notin worker[w].raced
                THEN wronged \union {d} ELSE wronged

Handled(w, d) == [worker[w] EXCEPT !.res[d] = "none"]

\* Mutant of OnRetryable: a transient failure clears the token as well.
OnRetryableClears(w, d) ==
  /\ worker[w].pc = "results" /\ worker[w].res[d] = "retry" /\ Fine
  /\ ClearPushToken(w, d)
  /\ IF w = "pusher" THEN PushStep(w, [Handled(w, d) EXCEPT !.again = TRUE]) ELSE Error(w)
  /\ UNCHANGED <<loggedOut, user, alerted, pushChanges>>

\* A transient failure: the pusher notes it and goes on through the results,
\* notification-service returns at once, the results after it unread.
OnRetryable(w, d) ==
  /\ worker[w].pc = "results" /\ worker[w].res[d] = "retry" /\ Fine
  /\ IF w = "pusher" THEN PushStep(w, [Handled(w, d) EXCEPT !.again = TRUE]) ELSE Error(w)
  /\ UNCHANGED <<token, loggedOut, user, alerted, wronged, pushChanges>>

\* An unregistered token: when the update fails the pusher logs it,
\* notification-service returns the error.
OnUnregistered(w, d) ==
  /\ worker[w].pc = "results" /\ worker[w].res[d] = "dead"
  /\ \/ Fine /\ ClearPushToken(w, d) /\ PushStep(w, Handled(w, d))
     \/ /\ PushFault /\ UNCHANGED <<token, wronged>>
        /\ IF w = "pusher" THEN PushStep(w, Handled(w, d)) ELSE Error(w)
  /\ UNCHANGED <<loggedOut, user, alerted, pushChanges>>

OnSettled(w, d) ==
  /\ worker[w].pc = "results" /\ worker[w].res[d] \in {"ok", "rejected"} /\ Fine
  /\ PushStep(w, [Handled(w, d) EXCEPT
                !.shutOut = IF worker[w].res[d] = "rejected" THEN @ \union {d} ELSE @])
  /\ UNCHANGED <<token, loggedOut, user, alerted, wronged, pushChanges>>

\* Every result is dealt with: one transient failure retries the whole record.
ReturnResult(w) ==
  /\ worker[w].pc = "results" /\ \A d \in Devices : worker[w].res[d] = "none"
  /\ Fine /\ IF worker[w].again THEN Error(w) ELSE Go(w, "done")
  /\ UNCHANGED <<token, loggedOut, user, alerted, wronged, pushChanges>>

(***************************************************************************)
(* The user and the devices.                                               *)
(***************************************************************************)
\* What stayed so since the record was taken up.
Since(on, mu, rv) ==
  worker' = [w \in PushWorkers |->
    IF worker[w].pc \in Ended THEN worker[w] ELSE
    [worker[w] EXCEPT !.onlineAll = @ /\ on, !.mutedAll = @ /\ mu,
                      !.revokedAll = @ \intersect rv, !.shutOut = @ \union rv,
                      !.hushed = @ \/ (w = "pusher" /\ (on \/ mu))]]

PushChange == pushChanges < MaxPushChanges /\ pushChanges' = pushChanges + 1

ChangePresence ==
  /\ PushChange /\ online' = ~online /\ Since(~online, muted, loggedOut)
  /\ UNCHANGED <<token, live, loggedOut, muted, alerted, wronged, pushFaults>>

\* handleMute of the chat, or the mute running out.
ChangeMute ==
  /\ PushChange /\ muted' = ~muted /\ Since(online, ~muted, loggedOut)
  /\ UNCHANGED <<token, live, loggedOut, online, alerted, wronged, pushFaults>>

\* Devices.Revoke.
RevokeDevice(d) ==
  /\ PushChange /\ d \notin loggedOut
  /\ loggedOut' = loggedOut \union {d} /\ token' = [token EXCEPT ![d] = 0]
  /\ Since(online, muted, loggedOut')
  /\ UNCHANGED <<user, alerted, wronged, pushFaults>>

\* The app is reinstalled: FCM gives it a new token and forgets the old one.
Reinstall(d) ==
  /\ PushChange /\ live[d] < MaxToken
  /\ live' = [live EXCEPT ![d] = @ + 1]
  /\ worker' = [w \in PushWorkers |-> IF worker[w].pc \in Ended THEN worker[w]
                                  ELSE [worker[w] EXCEPT !.shutOut = @ \union {d}]]
  /\ UNCHANGED <<token, loggedOut, online, muted, alerted, wronged, pushFaults>>

\* handleSetPushToken.
SetPushToken(d) ==
  /\ PushChange /\ token[d] # live[d]
  /\ token' = [token EXCEPT ![d] = live[d]]
  /\ worker' = [w \in PushWorkers |-> IF worker[w].pc \in Ended THEN worker[w]
                                  ELSE [worker[w] EXCEPT !.raced = @ \union {d}]]
  /\ UNCHANGED <<loggedOut, user, alerted, wronged, pushFaults>>

WorkerStep(w) ==
  \/ ReadTargets(w) \/ SendAll(w) \/ ReturnResult(w)
  \/ \E d \in Devices : OnRetryable(w, d) \/ OnUnregistered(w, d) \/ OnSettled(w, d)

HandlersRun == ReadPresence \/ ReadMute \/ \E w \in PushWorkers : WorkerStep(w)

PushNext ==
  \/ HandlersRun \/ ChangePresence \/ ChangeMute
  \/ \E d \in Devices : RevokeDevice(d) \/ Reinstall(d) \/ SetPushToken(d)

PushSpec == PushInit /\ [][PushNext]_pushVars

(***************************************************************************)
(* Properties.                                                             *)
(***************************************************************************)
\* However often the record is retried, the pusher alerts no device of a user
\* who was online, or had the chat muted, from the first attempt to the last,
\* and neither handler alerts a device whose session had been revoked before.
QuietStaysQuiet ==
  \A w \in PushWorkers :
    /\ alerted[w] \intersect worker[w].revokedAll = {}
    /\ w = "pusher" /\ (worker[w].onlineAll \/ worker[w].mutedAll) => alerted[w] = {}

\* A handler clears the token a device is really registered with only when the
\* device registered it after the handler had read the tokens: ClearPushToken
\* names the device and not the token it is about.
LiveTokenKept == wronged = {}

\* A handler that reports success has alerted every device that stayed
\* registered and whose user stayed away and unmuted, but for one FCM rejected
\* for good: a transient failure of one device never ends the others' alerts.
SuccessMeansAlerted ==
  \A w \in PushWorkers : worker[w].pc = "done" /\ ~worker[w].hushed
                       => Devices \ (alerted[w] \union worker[w].shutOut) = {}

\* Pushes reach those who should be alerted and nobody else, and cost no device
\* its registration.
PushesRight == PushTypeOK /\ QuietStaysQuiet /\ LiveTokenKept /\ SuccessMeansAlerted
=============================================================================
