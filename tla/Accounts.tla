------------------------------ MODULE Accounts ------------------------------
(***************************************************************************)
(* The auth-service over its Postgres tables: verification codes, accounts *)
(* and devices; sign-in, refresh, token resolution, logout, deletion, and  *)
(* the admin-service's ban. Every handler is a sequence of SQL statements; *)
(* one statement is one step.                                              *)
(***************************************************************************)
EXTENDS Integers, FiniteSets

CONSTANTS Phones, Challenges, UserIds,
          Keys,            \* auth key ids; a device row is identified by its key
          Workers,         \* concurrent HTTP requests
          Nil, Deleted,
          MaxCodeAttempts,
          MaxRequests,     \* bound: requests that begin
          MaxAccountFaults        \* bound: failed statements and crashes

ASSUME AccountsAssumption ==
  /\ IsFiniteSet(Workers) /\ Workers # {}
  /\ MaxCodeAttempts \in Nat \ {0} /\ MaxRequests \in Nat /\ MaxAccountFaults \in Nat
  /\ Nil \notin Phones \union UserIds \union Challenges /\ Deleted \notin Phones \union {Nil}

VARIABLES
  phoneOf, attempts, consumed, expired,  \* otp_challenges
  phone, banned,                         \* users: a row's phone, Nil without a row
  owner, revoked,                        \* devices: a row's user, Nil without a row
  tokens,                                \* refresh tokens in the hands of clients
  job,                                   \* what a request is doing
  requests, accountFaults,
  minted,                                \* history: sessions a code has opened
  wrong                                  \* history: wrong codes judged

otpVars == <<phoneOf, attempts, consumed, expired>>
userVars == <<phone, banned>>
deviceVars == <<owner, revoked>>
histVars == <<minted, wrong>>
accountVars == <<otpVars, userVars, deviceVars, tokens, job, requests, accountFaults, histVars>>

Idle == [op |-> "idle", chal |-> Nil, user |-> Nil, key |-> Nil,
         outDevice |-> FALSE, outUser |-> FALSE]

AccountInit == /\ phoneOf = [c \in Challenges |-> Nil] /\ attempts = [c \in Challenges |-> 0]
               /\ consumed = {} /\ expired = {}
               /\ phone = [u \in UserIds |-> Nil] /\ banned = {}
               /\ owner = [k \in Keys |-> Nil] /\ revoked = {}
               /\ tokens = {} /\ job = [w \in Workers |-> Idle]
               /\ requests = 0 /\ accountFaults = 0
               /\ minted = [c \in Challenges |-> 0] /\ wrong = [c \in Challenges |-> 0]

Begin(w, j) == /\ job[w] = Idle /\ requests < MaxRequests /\ requests' = requests + 1
               /\ job' = [job EXCEPT ![w] = j]
At(w, op) == job[w].op = op
Goto(w, op) == job' = [job EXCEPT ![w].op = op]
Done(w) == job' = [job EXCEPT ![w] = Idle]
AccountFault == accountFaults < MaxAccountFaults /\ accountFaults' = accountFaults + 1

\* GetByID, GetByPhone: deleted rows are not found.
LiveUser(u) == phone[u] \in Phones
ActiveDevice(u, k) == owner[k] = u /\ k \notin revoked

(***************************************************************************)
(* handleSendCode and handleSignIn.                                        *)
(***************************************************************************)
SendCode(c, p) ==
  /\ phoneOf[c] = Nil /\ requests < MaxRequests /\ requests' = requests + 1
  /\ phoneOf' = [phoneOf EXCEPT ![c] = p]
  /\ UNCHANGED <<attempts, consumed, expired, userVars, deviceVars, tokens, job, accountFaults, histVars>>

\* Mutant of SignIn: the attempts of the challenge are not looked at.
SignInUnlimited(w, c, k) ==
  /\ phoneOf[c] # Nil /\ c \notin consumed \union expired
  /\ Begin(w, [Idle EXCEPT !.op = "code", !.chal = c, !.key = k])
  /\ UNCHANGED <<otpVars, userVars, deviceVars, tokens, accountFaults, histVars>>

\* The challenge is read and judged; comparing the code takes bcrypt's time.
SignIn(w, c, k) ==
  /\ phoneOf[c] # Nil /\ c \notin consumed \union expired
  /\ attempts[c] < MaxCodeAttempts
  /\ Begin(w, [Idle EXCEPT !.op = "code", !.chal = c, !.key = k])
  /\ UNCHANGED <<otpVars, userVars, deviceVars, tokens, accountFaults, histVars>>

\* IncrementAttempts; its failure is only logged.
WrongCode(w) ==
  LET c == job[w].chal IN
  /\ At(w, "code")
  /\ \/ attempts' = [attempts EXCEPT ![c] = @ + 1] /\ UNCHANGED accountFaults
     \/ AccountFault /\ UNCHANGED attempts
  /\ wrong' = [wrong EXCEPT ![c] = @ + 1]
  /\ Done(w)
  /\ UNCHANGED <<phoneOf, consumed, expired, userVars, deviceVars, tokens, requests, minted>>

\* Mutant of Consume: an unconditional UPDATE.
ConsumeAnyway(w) ==
  /\ At(w, "code") /\ consumed' = consumed \union {job[w].chal} /\ Goto(w, "find")
  /\ UNCHANGED <<phoneOf, attempts, expired, userVars, deviceVars, tokens, requests, accountFaults, histVars>>

\* The right code: Consume, conditional on the row as it is now.
Consume(w) ==
  LET c == job[w].chal IN
  /\ At(w, "code")
  /\ \/ c \notin consumed \union expired /\ consumed' = consumed \union {c} /\ Goto(w, "find")
     \/ c \in consumed \union expired /\ Done(w) /\ UNCHANGED consumed
  /\ UNCHANGED <<phoneOf, attempts, expired, userVars, deviceVars, tokens, requests, accountFaults, histVars>>

\* findOrCreateUser's lookup (again after a conflict), and the ban check.
Find(w) ==
  LET p == phoneOf[job[w].chal] IN
  /\ At(w, "find") \/ At(w, "refind")
  /\ \/ \E u \in UserIds : /\ phone[u] = p /\ u \notin banned
                           /\ job' = [job EXCEPT ![w].op = "upsert", ![w].user = u]
     \/ (\E u \in banned : phone[u] = p) /\ Done(w)
     \/ /\ \A u \in UserIds : phone[u] # p
        /\ (At(w, "find") /\ Goto(w, "create")) \/ Done(w)  \* no display name, or gone again
  /\ UNCHANGED <<otpVars, userVars, deviceVars, tokens, requests, accountFaults, histVars>>

\* Mutant of Create: phones are not unique.
CreateAnyway(w) ==
  /\ At(w, "create")
  /\ \E u \in UserIds : /\ phone[u] = Nil
                        /\ phone' = [phone EXCEPT ![u] = phoneOf[job[w].chal]]
                        /\ job' = [job EXCEPT ![w].op = "upsert", ![w].user = u]
  /\ UNCHANGED <<otpVars, banned, deviceVars, tokens, requests, accountFaults, histVars>>

\* INSERT under the unique index on the phones of live accounts.
Create(w) ==
  LET p == phoneOf[job[w].chal] IN
  /\ At(w, "create")
  /\ \/ /\ \A u \in UserIds : phone[u] # p
        /\ \E u \in UserIds : /\ phone[u] = Nil
                              /\ phone' = [phone EXCEPT ![u] = p]
                              /\ job' = [job EXCEPT ![w].op = "upsert", ![w].user = u]
     \/ (\E u \in UserIds : phone[u] = p) /\ Goto(w, "refind") /\ UNCHANGED phone
  /\ UNCHANGED <<otpVars, banned, deviceVars, tokens, requests, accountFaults, histVars>>

\* Devices.Upsert: a known key keeps its row and its user and is active again.
\* A sign-in then issues the tokens of its session.
Upsert(w) ==
  LET u == job[w].user  k == job[w].key  c == job[w].chal IN
  /\ At(w, "upsert")
  /\ owner' = IF owner[k] = Nil THEN [owner EXCEPT ![k] = u] ELSE owner
  /\ revoked' = revoked \ {k}
  /\ IF c # Nil THEN /\ tokens' = tokens \union {<<u, k>>}
                      /\ minted' = [minted EXCEPT ![c] = @ + 1]
                 ELSE UNCHANGED <<tokens, minted>>
  /\ job' = [v \in Workers |-> IF v = w THEN Idle
                               ELSE IF job[v].key = k THEN [job[v] EXCEPT !.outDevice = FALSE]
                               ELSE job[v]]
  /\ UNCHANGED <<otpVars, userVars, requests, accountFaults, wrong>>

(***************************************************************************)
(* handleRefresh and handleResolveToken.                                   *)
(***************************************************************************)
\* What the session is worth when the request arrives is noted in the job.
Refresh(w, u, k) ==
  /\ <<u, k>> \in tokens
  /\ Begin(w, [Idle EXCEPT !.op = "devices", !.user = u, !.key = k,
                           !.outDevice = ~ActiveDevice(u, k),
                           !.outUser = ~LiveUser(u) \/ u \in banned])
  /\ UNCHANGED <<otpVars, userVars, deviceVars, tokens, accountFaults, histVars>>

\* Mutant of RefreshDevices: revoked rows are listed too.
RefreshDevicesAll(w) ==
  /\ At(w, "devices") /\ owner[job[w].key] = job[w].user /\ Goto(w, "account")
  /\ UNCHANGED <<otpVars, userVars, deviceVars, tokens, requests, accountFaults, histVars>>

RefreshDevices(w) ==
  /\ At(w, "devices")
  /\ IF ActiveDevice(job[w].user, job[w].key) THEN Goto(w, "account") ELSE Done(w)
  /\ UNCHANGED <<otpVars, userVars, deviceVars, tokens, requests, accountFaults, histVars>>

RefreshAccount(w) ==
  LET u == job[w].user IN
  /\ At(w, "account")
  /\ IF LiveUser(u) /\ u \notin banned THEN Goto(w, "granted") ELSE Done(w)
  /\ UNCHANGED <<otpVars, userVars, deviceVars, tokens, requests, accountFaults, histVars>>

Granted(w) == /\ At(w, "granted") /\ Done(w)
              /\ UNCHANGED <<otpVars, userVars, deviceVars, tokens, requests, accountFaults, histVars>>

\* The gateway binds a key on an access token of a session; only the account is
\* looked at before the key's device is upserted.
ResolveToken(w, u, k) ==
  /\ \E d \in Keys : <<u, d>> \in tokens
  /\ LiveUser(u) /\ u \notin banned
  /\ Begin(w, [Idle EXCEPT !.op = "upsert", !.user = u, !.key = k])
  /\ UNCHANGED <<otpVars, userVars, deviceVars, tokens, accountFaults, histVars>>

(***************************************************************************)
(* Logout, deletion, ban.                                                  *)
(***************************************************************************)
DevicesOf(u) == {k \in Keys : owner[k] = u}

Revoke(u, k) ==
  /\ ActiveDevice(u, k) /\ requests < MaxRequests /\ requests' = requests + 1
  /\ revoked' = revoked \union {k}
  /\ UNCHANGED <<otpVars, userVars, owner, tokens, job, accountFaults, histVars>>

RevokeOthers(u, k) ==
  /\ <<u, k>> \in tokens /\ requests < MaxRequests /\ requests' = requests + 1
  /\ revoked' = revoked \union (DevicesOf(u) \ {k})
  /\ UNCHANGED <<otpVars, userVars, owner, tokens, job, accountFaults, histVars>>

DeleteAccount(w, u) ==
  /\ \E d \in Keys : <<u, d>> \in tokens
  /\ Begin(w, [Idle EXCEPT !.op = "softdelete", !.user = u])
  /\ revoked' = revoked \union DevicesOf(u)
  /\ UNCHANGED <<otpVars, userVars, owner, tokens, accountFaults, histVars>>

SoftDelete(w) ==
  /\ At(w, "softdelete")
  /\ phone' = [phone EXCEPT ![job[w].user] = Deleted]
  /\ Done(w)
  /\ UNCHANGED <<otpVars, banned, deviceVars, tokens, requests, accountFaults, histVars>>

\* The admin-service: the flag, then (by default) the sessions.
Ban(w, u) ==
  /\ LiveUser(u) /\ Begin(w, [Idle EXCEPT !.op = "revokeall", !.user = u])
  /\ banned' = banned \union {u}
  /\ UNCHANGED <<otpVars, phone, deviceVars, tokens, accountFaults, histVars>>

RevokeAll(w) ==
  /\ At(w, "revokeall")
  /\ revoked' \in {revoked, revoked \union DevicesOf(job[w].user)}
  /\ Done(w)
  /\ UNCHANGED <<otpVars, userVars, owner, tokens, requests, accountFaults, histVars>>

Unban(u) ==
  /\ u \in banned /\ requests < MaxRequests /\ requests' = requests + 1
  /\ banned' = banned \ {u}
  /\ job' = [v \in Workers |-> IF job[v].user = u /\ LiveUser(u)
                                 THEN [job[v] EXCEPT !.outUser = FALSE] ELSE job[v]]
  /\ UNCHANGED <<otpVars, phone, deviceVars, tokens, accountFaults, histVars>>

\* Time, the pod's death, a statement that fails.
Expire(c) == /\ phoneOf[c] # Nil /\ c \notin expired /\ expired' = expired \union {c}
             /\ UNCHANGED <<phoneOf, attempts, consumed, userVars, deviceVars, tokens, job,
                            requests, accountFaults, histVars>>

Crash(w) == /\ job[w] # Idle /\ AccountFault /\ Done(w)
            /\ UNCHANGED <<otpVars, userVars, deviceVars, tokens, requests, histVars>>

AccountNext ==
  \/ \E c \in Challenges : Expire(c) \/ \E p \in Phones : SendCode(c, p)
  \/ \E u \in UserIds : Unban(u) \/ \E k \in Keys : Revoke(u, k) \/ RevokeOthers(u, k)
  \/ \E w \in Workers :
       \/ WrongCode(w) \/ Consume(w) \/ Find(w) \/ Create(w) \/ Upsert(w)
       \/ RefreshDevices(w) \/ RefreshAccount(w) \/ Granted(w)
       \/ SoftDelete(w) \/ RevokeAll(w) \/ Crash(w)
       \/ \E u \in UserIds : DeleteAccount(w, u) \/ Ban(w, u)
       \/ \E u \in UserIds, k \in Keys : Refresh(w, u, k) \/ ResolveToken(w, u, k)
       \/ \E c \in Challenges, k \in Keys : SignIn(w, c, k)

AccountSpec == AccountInit /\ [][AccountNext]_accountVars
-----------------------------------------------------------------------------
Ops == {"idle", "code", "find", "refind", "create", "upsert", "devices", "account",
        "granted", "softdelete", "revokeall"}

Jobs == [op : Ops, chal : Challenges \union {Nil}, user : UserIds \union {Nil},
         key : Keys \union {Nil}, outDevice : BOOLEAN, outUser : BOOLEAN]

AccountTypeOK == /\ phoneOf \in [Challenges -> Phones \union {Nil}]
                 /\ attempts \in [Challenges -> Nat]
                 /\ consumed \subseteq Challenges /\ expired \subseteq Challenges
                 /\ phone \in [UserIds -> Phones \union {Nil, Deleted}] /\ banned \subseteq UserIds
                 /\ owner \in [Keys -> UserIds \union {Nil}] /\ revoked \subseteq Keys
                 /\ tokens \subseteq UserIds \X Keys /\ job \in [Workers -> Jobs]
                 /\ requests \in Nat /\ accountFaults \in Nat
                 /\ minted \in [Challenges -> Nat] /\ wrong \in [Challenges -> Nat]

\* "Two concurrent requests with the same valid code cannot both mint a
\* session": a verification code opens at most one session (handleSignIn,
\* Consume).
CodeMintsOnce == \A c \in Challenges : minted[c] <= 1

\* MaxCodeAttempts "is how many wrong guesses burn a challenge". The count is
\* read before the comparison and written after it, so requests in flight
\* together may overshoot it, by at most one less than their number, and by the
\* increments that failed.
GuessesBounded == \A c \in Challenges :
  wrong[c] <= MaxCodeAttempts + Cardinality(Workers) - 1 + accountFaults

\* Concurrent first sign-ins of one phone, racing a deletion that frees it, do
\* not leave two live accounts (findOrCreateUser).
OneAccountPerPhone == \A u, v \in UserIds : (LiveUser(u) /\ phone[u] = phone[v]) => u = v

\* "This is what makes 'log out this session' take effect immediately": a
\* refresh that arrives after its device was revoked, or its account banned or
\* deleted, is not granted, unless the key is bound again, or the ban lifted,
\* before it is judged (handleRefresh).
LogoutIsImmediate == \A w \in Workers : At(w, "granted") => ~job[w].outDevice /\ ~job[w].outUser

(***************************************************************************)
(* The inductive invariant.                                                *)
(***************************************************************************)
\* A request past Consume, whose challenge is its own.
Holds(w, c) == job[w].op \in {"find", "refind", "create", "upsert"} /\ job[w].chal = c
Guessing(c) == {w \in Workers : job[w].op = "code" /\ job[w].chal = c}

\* What a request carries is there, and a refresh that should be refused still
\* will be: nothing but a rebind or an unban makes its session good again.
JobOK(w) ==
  LET j == job[w] IN
  /\ j.op \in {"code", "find", "refind", "create"}
       => j.chal \in Challenges /\ phoneOf[j.chal] \in Phones
  /\ j.op \in Ops \ {"idle", "softdelete", "revokeall"} => j.key \in Keys
  /\ j.op \in {"upsert", "devices", "account", "granted", "softdelete", "revokeall"}
       => j.user \in UserIds /\ phone[j.user] # Nil
  /\ j.op = "devices" /\ j.outDevice => ~ActiveDevice(j.user, j.key)
  /\ j.op \in {"account", "granted"} => ~j.outDevice
  /\ j.op \in {"devices", "account"} /\ j.outUser => ~LiveUser(j.user) \/ j.user \in banned
  /\ j.op = "granted" => ~j.outUser

\* A code is consumed once, and its session is opened by whoever consumed it.
MintOK(c) ==
  /\ minted[c] <= 1
  /\ c \notin consumed => minted[c] = 0
  /\ \A w \in Workers : Holds(w, c) => c \in consumed /\ minted[c] = 0
  /\ \A v, w \in Workers : Holds(v, c) /\ Holds(w, c) => v = w

\* A request is let in below the limit, when at most all the others are in.
CountOK(c) ==
  /\ attempts[c] + Cardinality(Guessing(c)) <= MaxCodeAttempts + Cardinality(Workers) - 1
  /\ wrong[c] <= attempts[c] + accountFaults

IInv == /\ AccountTypeOK /\ OneAccountPerPhone
        /\ \A t \in tokens : phone[t[1]] # Nil
        /\ \A w \in Workers : JobOK(w)
        /\ \A c \in Challenges : MintOK(c) /\ CountOK(c)
=============================================================================
