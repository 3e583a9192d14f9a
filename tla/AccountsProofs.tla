--------------------------- MODULE AccountsProofs ---------------------------
(***************************************************************************)
(* IInv of Accounts is inductive; it gives the four safety properties for  *)
(* any number of challenges, accounts, keys, requests and faults.          *)
(***************************************************************************)
EXTENDS Accounts, FiniteSetTheorems, TLAPS

\* The requests that compare a code of one challenge are finitely many.
LEMMA GuessingFinite ==
  ASSUME NEW c \in Challenges
  PROVE  /\ IsFiniteSet(Guessing(c)) /\ Cardinality(Guessing(c)) \in Nat
         /\ IsFiniteSet(Guessing(c)') /\ Cardinality(Guessing(c)') \in Nat
         /\ Cardinality(Workers) \in Nat \ {0}
         /\ Cardinality(Guessing(c)') <= Cardinality(Workers)
<1>1. Guessing(c) \subseteq Workers /\ Guessing(c)' \subseteq Workers
  BY Zenon DEF Guessing
<1>2. IsFiniteSet(Workers) /\ Workers # {}
  BY AccountsAssumption, Zenon
<1> QED BY <1>1, <1>2, FS_Subset, FS_CardinalityType, FS_EmptySet, Zenon

\* The guess count survives a step in which no request starts to compare a code.
LEMMA CountKept ==
  ASSUME IInv, attempts' = attempts, wrong' = wrong, accountFaults' \in Nat, accountFaults' >= accountFaults,
         \A v \in Workers : job'[v].op = "code" => job[v].op = "code" /\ job'[v].chal = job[v].chal
  PROVE  \A c \in Challenges : CountOK(c)'
<1> TAKE c \in Challenges
<1>1. Guessing(c)' \subseteq Guessing(c)
  BY Zenon DEF Guessing
<1>2. Cardinality(Guessing(c)') <= Cardinality(Guessing(c))
  BY <1>1, GuessingFinite, FS_Subset, Zenon
<1>3. attempts[c] \in Nat /\ wrong[c] \in Nat /\ accountFaults \in Nat /\ CountOK(c) /\ MaxCodeAttempts \in Nat
  BY AccountsAssumption, Zenon DEF IInv, AccountTypeOK
<1> QED BY <1>2, <1>3, GuessingFinite DEF CountOK

\* So does the bookkeeping of sessions when no request comes to hold a code.
LEMMA MintKept ==
  ASSUME IInv, minted' = minted, consumed' = consumed,
         \A v \in Workers, c \in Challenges : Holds(v, c)' => Holds(v, c)
  PROVE  \A c \in Challenges : MintOK(c)'
BY Zenon DEF IInv, MintOK

\* A request that is not touched stays well formed when sessions only get worse.
LEMMA OthersOK ==
  ASSUME IInv, NEW v \in Workers, job'[v] = job[v], phoneOf' = phoneOf, phone' = phone,
         banned \subseteq banned', owner' = owner, revoked \subseteq revoked'
  PROVE  JobOK(v)'
<1>1. JobOK(v)
  BY Zenon DEF IInv
<1> QED BY <1>1, Zenon DEF JobOK, ActiveDevice, LiveUser

\* An idle request is well formed, in every state.
LEMMA IdleOK ==
  ASSUME NEW w \in Workers, job'[w] = Idle
  PROVE  JobOK(w)' /\ job'[w].op # "code" /\ \A c \in Challenges : ~Holds(w, c)'
BY DEF JobOK, Idle, Holds, Ops

\* A step in which one request moves on, without starting to compare a code or
\* coming to hold one, while sessions only get worse.
LEMMA MoveStep ==
  ASSUME IInv, NEW w \in Workers, NEW j \in Jobs, job' = [job EXCEPT ![w] = j], JobOK(w)',
         j.op # "code", \A c \in Challenges : Holds(w, c)' => Holds(w, c),
         phoneOf' = phoneOf, phone' = phone,
         banned \subseteq banned', owner' = owner, revoked \subseteq revoked',
         attempts' = attempts, wrong' = wrong, accountFaults' \in Nat, accountFaults' >= accountFaults,
         minted' = minted, consumed' = consumed
  PROVE  /\ job' \in [Workers -> Jobs] /\ \A v \in Workers : JobOK(v)'
         /\ \A c \in Challenges : MintOK(c)' /\ CountOK(c)'
<1>0. job \in [Workers -> Jobs]
  BY Zenon DEF IInv, AccountTypeOK
<1>1. job'[w] = j /\ \A v \in Workers \ {w} : job'[v] = job[v]
  BY <1>0, Zenon
<1>2. job' \in [Workers -> Jobs]
  BY <1>0, Zenon
<1>3. \A v \in Workers : JobOK(v)'
  BY <1>1, OthersOK, Zenon
<1>4. \A v \in Workers, c \in Challenges : Holds(v, c)' => Holds(v, c)
  BY <1>1, Zenon DEF Holds
<1>5. \A v \in Workers : job'[v].op = "code" => job[v].op = "code" /\ job'[v].chal = job[v].chal
  BY <1>1, Zenon
<1>6. \A c \in Challenges : MintOK(c)'
  BY <1>4, MintKept, Zenon
<1>7. \A c \in Challenges : CountOK(c)'
  BY <1>5, CountKept, Zenon
<1> QED BY <1>2, <1>3, <1>6, <1>7, Zenon

\* A request that ends.
LEMMA DoneStep ==
  ASSUME IInv, NEW w \in Workers, Done(w), phoneOf' = phoneOf, phone' = phone,
         banned \subseteq banned', owner' = owner, revoked \subseteq revoked',
         attempts' = attempts, wrong' = wrong, accountFaults' \in Nat, accountFaults' >= accountFaults,
         minted' = minted, consumed' = consumed
  PROVE  /\ job' \in [Workers -> Jobs] /\ \A v \in Workers : JobOK(v)'
         /\ \A c \in Challenges : MintOK(c)' /\ CountOK(c)'
<1>1. job'[w] = Idle /\ Idle \in Jobs /\ Idle.op # "code"
  BY Zenon DEF IInv, AccountTypeOK, Done, Jobs, Idle, Ops
<1> QED BY <1>1, IdleOK, MoveStep, Zenon DEF Done

\* A request that goes on to another step, keeping what it carries.
LEMMA GotoJob ==
  ASSUME IInv, NEW w \in Workers, NEW op \in Ops, Goto(w, op)
  PROVE  /\ [job[w] EXCEPT !.op = op] \in Jobs
         /\ job' = [job EXCEPT ![w] = [job[w] EXCEPT !.op = op]]
         /\ job'[w] = [job[w] EXCEPT !.op = op]
BY DEF IInv, AccountTypeOK, Goto, Jobs

\* The accounts are untouched.
LEMMA AccountsKept ==
  ASSUME IInv, phone' = phone, tokens' = tokens
  PROVE  OneAccountPerPhone' /\ \A t \in tokens' : phone'[t[1]] # Nil
BY Zenon DEF IInv, OneAccountPerPhone, LiveUser

\* The first states.
LEMMA AccountsInit == AccountInit => IInv
<1> SUFFICES ASSUME AccountInit PROVE IInv
  BY Zenon
<1>0. Idle \in Jobs
  BY Zenon DEF Idle, Jobs, Ops
<1>1. AccountTypeOK
  BY <1>0, Zenon DEF AccountInit, AccountTypeOK
<1>2. OneAccountPerPhone
  BY AccountsAssumption, Zenon DEF AccountInit, OneAccountPerPhone, LiveUser
<1>3. \A w \in Workers : JobOK(w)
  BY Zenon DEF AccountInit, JobOK, Idle, Ops
<1>4. \A c \in Challenges : MintOK(c)
  BY DEF AccountInit, MintOK, Holds, Idle
<1>5. ASSUME NEW c \in Challenges PROVE CountOK(c)
  <2>1. Guessing(c) = {}
    BY Zenon DEF AccountInit, Guessing, Idle
  <2> QED BY <1>5, <2>1, FS_EmptySet, GuessingFinite, AccountsAssumption DEF AccountInit, CountOK
<1> QED BY <1>1, <1>2, <1>3, <1>4, <1>5, Zenon DEF IInv, AccountInit

\* No request moves: SendCode, Revoke, RevokeOthers, Expire.
LEMMA StillStep ==
  ASSUME IInv, job' = job, phone' = phone, banned' = banned, owner' = owner,
         revoked \subseteq revoked',
         \A c \in Challenges : phoneOf[c] \in Phones => phoneOf'[c] = phoneOf[c],
         attempts' = attempts, wrong' = wrong, accountFaults' = accountFaults,
         minted' = minted, consumed' = consumed
  PROVE  /\ \A v \in Workers : JobOK(v)'
         /\ \A c \in Challenges : MintOK(c)' /\ CountOK(c)'
<1>1. ASSUME NEW v \in Workers PROVE JobOK(v)'
  <2>1. JobOK(v)
    BY Zenon DEF IInv
  <2> QED BY <2>1, Zenon DEF JobOK, ActiveDevice, LiveUser
<1>2. \A c \in Challenges : MintOK(c)'
  BY MintKept, Zenon DEF Holds
<1>3. \A c \in Challenges : CountOK(c)'
  <2>1. accountFaults' \in Nat /\ accountFaults' >= accountFaults
    BY DEF IInv, AccountTypeOK
  <2> QED BY <2>1, CountKept, Zenon
<1> QED BY <1>1, <1>2, <1>3, Zenon

\* handleSendCode writes a fresh challenge and preserves the invariant.
LEMMA SendCodeStep == ASSUME IInv, NEW c \in Challenges, NEW p \in Phones, SendCode(c, p)
                      PROVE  IInv'
<1>1. AccountTypeOK'
  BY DEF IInv, AccountTypeOK, SendCode, userVars, deviceVars, histVars
<1>2. \A d \in Challenges : phoneOf[d] \in Phones => phoneOf'[d] = phoneOf[d]
  BY AccountsAssumption, Zenon DEF IInv, AccountTypeOK, SendCode
<1> QED BY <1>1, <1>2, StillStep, AccountsKept, Zenon DEF SendCode, IInv, userVars, deviceVars, histVars

\* A challenge that expires preserves the invariant.
LEMMA ExpireStep == ASSUME IInv, NEW c \in Challenges, Expire(c) PROVE IInv'
<1>1. AccountTypeOK'
  BY Zenon DEF IInv, AccountTypeOK, Expire, userVars, deviceVars, histVars
<1> QED BY <1>1, StillStep, AccountsKept, Zenon DEF Expire, IInv, userVars, deviceVars, histVars

\* Logout, of one device or of all the others, preserves the invariant.
LEMMA RevokeStep == ASSUME IInv, NEW u \in UserIds, NEW k \in Keys, Revoke(u, k) \/ RevokeOthers(u, k)
                    PROVE  IInv'
<1>1. AccountTypeOK'
  BY DEF IInv, AccountTypeOK, Revoke, RevokeOthers, DevicesOf, otpVars, userVars, histVars
<1> QED BY <1>1, StillStep, AccountsKept, Zenon DEF Revoke, RevokeOthers, IInv, otpVars, userVars, histVars

\* A request comes in below the limit; at most all requests compare a code then.
LEMMA SignInStep == ASSUME IInv, NEW w \in Workers, NEW c \in Challenges, NEW k \in Keys,
                           SignIn(w, c, k)
                    PROVE  IInv'
<1> DEFINE j == [Idle EXCEPT !.op = "code", !.chal = c, !.key = k]
<1> USE DEF SignIn, Begin, otpVars, userVars, deviceVars, histVars
<1>0. j \in Jobs /\ j.op = "code" /\ j.chal = c /\ j.key = k
  BY Zenon DEF Idle, Jobs, Ops
<1>1. job' = [job EXCEPT ![w] = j]
  BY Zenon
<1> HIDE DEF j
<1>2. job'[w] = j /\ \A v \in Workers \ {w} : job'[v] = job[v]
  BY <1>1, Zenon DEF IInv, AccountTypeOK
<1>3. AccountTypeOK'
  BY <1>0, <1>1 DEF IInv, AccountTypeOK
<1>4. JobOK(w)'
  BY <1>0, <1>2 DEF JobOK, IInv, AccountTypeOK
<1>5. \A v \in Workers : JobOK(v)'
  BY <1>2, <1>4, OthersOK, Zenon
<1>6. \A v \in Workers, d \in Challenges : Holds(v, d)' => Holds(v, d)
  BY <1>0, <1>2, Zenon DEF Holds
<1>7. \A d \in Challenges : MintOK(d)'
  BY <1>6, MintKept, Zenon
<1>8. ASSUME NEW d \in Challenges PROVE CountOK(d)'
  <2>0. attempts[d] \in Nat /\ CountOK(d) /\ MaxCodeAttempts \in Nat /\ accountFaults' = accountFaults
    BY AccountsAssumption, Zenon DEF IInv, AccountTypeOK
  <2>1. CASE d = c
    BY <2>0, <2>1, GuessingFinite DEF CountOK
  <2>2. CASE d # c
    <3>1. \A v \in Workers : v \in Guessing(d)' => v \in Guessing(d)
      BY <1>0, <1>2, <2>2, Zenon DEF Guessing
    <3>2. Guessing(d)' \subseteq Guessing(d)
      BY <3>1, Zenon DEF Guessing
    <3>3. Cardinality(Guessing(d)') <= Cardinality(Guessing(d))
      BY <3>2, GuessingFinite, FS_Subset, Zenon
    <3> QED BY <2>0, <3>3, GuessingFinite DEF CountOK
  <2> QED BY <2>1, <2>2, Zenon
<1> QED BY <1>3, <1>5, <1>7, <1>8, AccountsKept, Zenon DEF IInv

\* The count rises by one as one request stops comparing.
LEMMA WrongCodeStep == ASSUME IInv, NEW w \in Workers, WrongCode(w) PROVE IInv'
<1> USE DEF WrongCode, At, userVars, deviceVars
<1> DEFINE c == job[w].chal
<1>0. c \in Challenges /\ job[w].op = "code" /\ job[w] \in Jobs
  BY Zenon DEF IInv, JobOK, AccountTypeOK
<1>1. accountFaults' \in Nat /\ accountFaults' >= accountFaults
  BY AccountsAssumption DEF IInv, AccountTypeOK, AccountFault
<1>2. job'[w] = Idle /\ \A v \in Workers \ {w} : job'[v] = job[v]
  BY Zenon DEF Done, IInv, AccountTypeOK
<1>3. AccountTypeOK'
  <2>1. Idle \in Jobs
    BY Zenon DEF Idle, Jobs, Ops
  <2> QED BY <1>0, <1>1, <2>1 DEF IInv, AccountTypeOK, Done
<1>4. \A v \in Workers : JobOK(v)'
  BY <1>2, OthersOK, IdleOK, Zenon
<1>5. \A d \in Challenges : MintOK(d)'
  <2>1. \A v \in Workers, d \in Challenges : Holds(v, d)' => Holds(v, d)
    BY <1>2, IdleOK, Zenon DEF Holds
  <2> QED BY <2>1, MintKept, Zenon
<1>6. ASSUME NEW d \in Challenges PROVE CountOK(d)'
  <2>0. /\ attempts[d] \in Nat /\ wrong[d] \in Nat /\ accountFaults \in Nat /\ CountOK(d)
        /\ MaxCodeAttempts \in Nat
    BY AccountsAssumption, Zenon DEF IInv, AccountTypeOK
  <2>1. Guessing(d)' = Guessing(d) \ {w}
    BY <1>2, IdleOK, Zenon DEF Guessing
  <2>2. CASE d = c
    <3>1. w \in Guessing(d)
      BY <1>0, <2>2, Zenon DEF Guessing
    <3>2. Cardinality(Guessing(d)') = Cardinality(Guessing(d)) - 1
      <4>1. IsFiniteSet(Guessing(d))
        BY GuessingFinite, Zenon
      <4>2. Cardinality(Guessing(d) \ {w}) = Cardinality(Guessing(d)) - 1
        BY <3>1, <4>1, FS_RemoveElement, Zenon
      <4> QED BY <2>1, <4>2, Zenon
    <3>3. wrong'[d] = wrong[d] + 1
      BY <2>2, Zenon DEF IInv, AccountTypeOK
    <3>4. \/ attempts'[d] = attempts[d] + 1 /\ accountFaults' = accountFaults
          \/ attempts'[d] = attempts[d] /\ accountFaults' = accountFaults + 1
      BY <2>2, Zenon DEF IInv, AccountTypeOK, AccountFault
    <3> QED BY <2>0, <3>2, <3>3, <3>4, GuessingFinite DEF CountOK
  <2>3. CASE d # c
    <3>1. attempts'[d] = attempts[d] /\ wrong'[d] = wrong[d]
      BY <2>3, Zenon DEF IInv, AccountTypeOK
    <3>2. Guessing(d)' \subseteq Guessing(d)
      BY <2>1, Zenon
    <3>3. Cardinality(Guessing(d)') <= Cardinality(Guessing(d))
      BY <3>2, GuessingFinite, FS_Subset, Zenon
    <3> QED BY <1>1, <2>0, <3>1, <3>3, GuessingFinite DEF CountOK
  <2> QED BY <2>2, <2>3, Zenon
<1> QED BY <1>3, <1>4, <1>5, <1>6, AccountsKept, Zenon DEF IInv

\* The code passes to the request whose UPDATE found it unconsumed.
LEMMA ConsumeStep == ASSUME IInv, NEW w \in Workers, Consume(w) PROVE IInv'
<1> USE DEF Consume, At, userVars, deviceVars, histVars
<1> DEFINE c == job[w].chal
<1>0. /\ c \in Challenges /\ phoneOf[c] \in Phones /\ job[w].key \in Keys /\ job[w] \in Jobs
      /\ job[w].op = "code"
  BY Zenon DEF IInv, JobOK, AccountTypeOK, Ops
<1>1. accountFaults' \in Nat /\ accountFaults' >= accountFaults
  BY DEF IInv, AccountTypeOK
<1>2. CASE c \in consumed \union expired /\ Done(w) /\ UNCHANGED consumed
  <2>1. job' \in [Workers -> Jobs] /\ (\A v \in Workers : JobOK(v)')
        /\ \A d \in Challenges : MintOK(d)' /\ CountOK(d)'
    BY <1>1, <1>2, DoneStep, Zenon
  <2>2. AccountTypeOK'
    BY <1>2, <2>1, Zenon DEF IInv, AccountTypeOK
  <2> QED BY <2>1, <2>2, AccountsKept, Zenon DEF IInv
<1>3. CASE c \notin consumed \union expired /\ consumed' = consumed \union {c} /\ Goto(w, "find")
  <2>1. /\ job'[w] = [job[w] EXCEPT !.op = "find"]
        /\ [job[w] EXCEPT !.op = "find"] \in Jobs
        /\ job' = [job EXCEPT ![w] = [job[w] EXCEPT !.op = "find"]]
    BY <1>3, GotoJob, Zenon DEF Ops
  <2>2. job'[w].op = "find" /\ job'[w].chal = c /\ job'[w].key = job[w].key
    BY <1>0, <2>1 DEF Jobs
  <2>3. \A v \in Workers \ {w} : job'[v] = job[v]
    BY <2>1, Zenon DEF IInv, AccountTypeOK
  <2>4. AccountTypeOK'
    BY <1>0, <1>3, <2>1, Zenon DEF IInv, AccountTypeOK
  <2>5. \A v \in Workers : JobOK(v)'
    <3>1. JobOK(w)'
      BY <1>0, <2>2, Zenon DEF JobOK
    <3> QED BY <2>3, <3>1, OthersOK, Zenon
  <2>6. ASSUME NEW d \in Challenges PROVE MintOK(d)'
    <3>1. MintOK(d) /\ minted[d] \in Nat
      BY Zenon DEF IInv, AccountTypeOK
    <3>2. \A v \in Workers : Holds(v, d)' <=> Holds(v, d) \/ (v = w /\ d = c)
      BY <1>0, <2>2, <2>3, Zenon DEF Holds
    <3>3. d = c => minted[d] = 0 /\ \A v \in Workers : ~Holds(v, d)
      BY <1>3, <3>1, Zenon DEF MintOK
    <3> QED BY <1>3, <3>1, <3>2, <3>3, Zenon DEF MintOK
  <2>7. \A v \in Workers : job'[v].op = "code" => job[v].op = "code" /\ job'[v].chal = job[v].chal
    BY <2>2, <2>3, Zenon
  <2>8. \A d \in Challenges : CountOK(d)'
    BY <1>1, <2>7, CountKept, Zenon
  <2> QED BY <2>4, <2>5, <2>6, <2>8, AccountsKept, Zenon DEF IInv
<1> QED BY <1>2, <1>3, Zenon

\* Moves of one request that write nothing but the request.
LEMMA QuietStep ==
  ASSUME IInv, NEW w \in Workers, NEW j \in Jobs, job' = [job EXCEPT ![w] = j], JobOK(w)',
         j.op # "code", \A c \in Challenges : Holds(w, c)' => Holds(w, c),
         UNCHANGED <<otpVars, userVars, owner, tokens, histVars>>,
         revoked \subseteq revoked', revoked' \subseteq Keys,
         accountFaults' \in Nat, accountFaults' >= accountFaults, requests' \in Nat
  PROVE  IInv'
<1> USE DEF otpVars, userVars, histVars
<1>1. /\ job' \in [Workers -> Jobs] /\ \A v \in Workers : JobOK(v)'
      /\ \A c \in Challenges : MintOK(c)' /\ CountOK(c)'
  BY MoveStep, Zenon
<1>2. AccountTypeOK'
  BY <1>1, Zenon DEF IInv, AccountTypeOK
<1> QED BY <1>1, <1>2, AccountsKept, Zenon DEF IInv

\* A request that ends, at most revoking devices, preserves the invariant.
LEMMA EndStep ==
  ASSUME IInv, NEW w \in Workers, Done(w),
         UNCHANGED <<otpVars, userVars, owner, tokens, histVars>>,
         revoked \subseteq revoked', revoked' \subseteq Keys,
         accountFaults' \in Nat, accountFaults' >= accountFaults, requests' \in Nat
  PROVE  IInv'
<1>1. job'[w] = Idle /\ Idle \in Jobs /\ Idle.op # "code"
  BY Zenon DEF IInv, AccountTypeOK, Done, Jobs, Idle, Ops
<1> QED BY <1>1, IdleOK, QuietStep, Zenon DEF Done

\* findOrCreateUser's lookup by phone preserves the invariant.
LEMMA FindStep == ASSUME IInv, NEW w \in Workers, Find(w) PROVE IInv'
<1> USE DEF Find, At, deviceVars
<1>0. /\ job[w] \in Jobs /\ job[w].op \in {"find", "refind"} /\ job[w].key \in Keys
      /\ job[w].chal \in Challenges /\ phoneOf[job[w].chal] \in Phones
  BY Zenon DEF IInv, JobOK, AccountTypeOK, Ops
<1>1. revoked' = revoked /\ revoked \subseteq Keys /\ accountFaults' = accountFaults /\ accountFaults \in Nat
      /\ requests' \in Nat /\ accountFaults' >= accountFaults
  BY DEF IInv, AccountTypeOK
<1>2. CASE Done(w)
  BY <1>1, <1>2, EndStep, Zenon
<1>3. CASE At(w, "find") /\ Goto(w, "create")
  <2> DEFINE j == [job[w] EXCEPT !.op = "create"]
  <2>1. j \in Jobs /\ job' = [job EXCEPT ![w] = j] /\ job'[w] = j
    BY <1>3, GotoJob, Zenon DEF Ops
  <2>2. j.op = "create" /\ j.chal = job[w].chal /\ j.key = job[w].key
    BY <1>0, Zenon DEF Jobs
  <2> HIDE DEF j
  <2>3. JobOK(w)'
    BY <1>0, <2>1, <2>2, Zenon DEF JobOK, otpVars
  <2>4. \A c \in Challenges : Holds(w, c)' => Holds(w, c)
    BY <1>0, <2>1, <2>2, Zenon DEF Holds
  <2> QED BY <1>1, <2>1, <2>2, <2>3, <2>4, QuietStep, Zenon
<1>4. ASSUME NEW u \in UserIds, phone[u] = phoneOf[job[w].chal],
             job' = [job EXCEPT ![w].op = "upsert", ![w].user = u]
      PROVE  IInv'
  <2> DEFINE j == [job[w] EXCEPT !.op = "upsert", !.user = u]
  <2>1. j \in Jobs /\ job' = [job EXCEPT ![w] = j] /\ job'[w] = j
    BY <1>0, <1>4, Zenon DEF IInv, AccountTypeOK, Jobs, Ops
  <2>2. j.op = "upsert" /\ j.chal = job[w].chal /\ j.key = job[w].key /\ j.user = u
    BY <1>0, Zenon DEF Jobs
  <2> HIDE DEF j
  <2>3. JobOK(w)'
    BY <1>0, <1>4, <2>1, <2>2, AccountsAssumption DEF JobOK, otpVars, userVars
  <2>4. \A c \in Challenges : Holds(w, c)' => Holds(w, c)
    BY <1>0, <2>1, <2>2, Zenon DEF Holds
  <2> QED BY <1>1, <2>1, <2>2, <2>3, <2>4, QuietStep, Zenon
<1> QED BY <1>2, <1>3, <1>4, Zenon

\* The sessions of a request that is not touched only get worse when a new row
\* is inserted or a row is deleted: nobody carries a user without a row.
LEMMA OthersOKPhone ==
  ASSUME IInv, NEW v \in Workers, job'[v] = job[v], phoneOf' = phoneOf,
         NEW u \in UserIds, NEW q \in Phones \union {Deleted}, phone' = [phone EXCEPT ![u] = q],
         q = Deleted \/ phone[u] = Nil,
         banned' = banned, owner' = owner, revoked' = revoked
  PROVE  JobOK(v)'
<1>1. JobOK(v) /\ job[v] \in Jobs /\ phone \in [UserIds -> Phones \union {Nil, Deleted}]
  BY Zenon DEF IInv, AccountTypeOK
<1>2. \A x \in UserIds : phone[x] # Nil => phone'[x] # Nil /\ (LiveUser(x)' => LiveUser(x))
  BY <1>1, AccountsAssumption, Zenon DEF LiveUser
<1> QED BY <1>1, <1>2, Zenon DEF JobOK, ActiveDevice

\* The insert of a new account, whose phone is unique, preserves the invariant.
LEMMA CreateStep == ASSUME IInv, NEW w \in Workers, Create(w) PROVE IInv'
<1> USE DEF Create, At, otpVars, deviceVars, histVars
<1> DEFINE p == phoneOf[job[w].chal]
<1>0. /\ job[w] \in Jobs /\ job[w].op = "create" /\ job[w].key \in Keys
      /\ job[w].chal \in Challenges /\ p \in Phones
  BY Zenon DEF IInv, JobOK, AccountTypeOK, Ops
<1>1. accountFaults' = accountFaults /\ accountFaults' \in Nat /\ accountFaults' >= accountFaults /\ requests' \in Nat
      /\ revoked' = revoked /\ revoked \subseteq Keys
  BY DEF IInv, AccountTypeOK
<1>2. CASE Goto(w, "refind") /\ UNCHANGED phone
  <2> DEFINE j == [job[w] EXCEPT !.op = "refind"]
  <2>1. j \in Jobs /\ job' = [job EXCEPT ![w] = j] /\ job'[w] = j
    BY <1>2, GotoJob, Zenon DEF Ops
  <2>2. j.op = "refind" /\ j.chal = job[w].chal /\ j.key = job[w].key
    BY <1>0, Zenon DEF Jobs
  <2> HIDE DEF j
  <2>3. JobOK(w)'
    BY <1>0, <2>1, <2>2, Zenon DEF JobOK
  <2>4. \A c \in Challenges : Holds(w, c)' => Holds(w, c)
    BY <1>0, <2>1, <2>2, Zenon DEF Holds
  <2> QED BY <1>1, <1>2, <2>1, <2>2, <2>3, <2>4, QuietStep, Zenon DEF userVars
<1>3. ASSUME NEW u \in UserIds, phone[u] = Nil, \A x \in UserIds : phone[x] # p,
             phone' = [phone EXCEPT ![u] = p],
             job' = [job EXCEPT ![w].op = "upsert", ![w].user = u]
      PROVE  IInv'
  <2> DEFINE j == [job[w] EXCEPT !.op = "upsert", !.user = u]
  <2>1. j \in Jobs /\ job' = [job EXCEPT ![w] = j] /\ job'[w] = j
    BY <1>0, <1>3, Zenon DEF IInv, AccountTypeOK, Jobs, Ops
  <2>2. j.op = "upsert" /\ j.chal = job[w].chal /\ j.key = job[w].key /\ j.user = u
    BY <1>0, Zenon DEF Jobs
  <2> HIDE DEF j
  <2>3. \A v \in Workers \ {w} : job'[v] = job[v]
    BY <2>1, Zenon DEF IInv, AccountTypeOK
  <2>4. AccountTypeOK'
    BY <1>0, <1>3, <2>1, Zenon DEF IInv, AccountTypeOK
  <2>5. phone'[u] = p /\ \A x \in UserIds \ {u} : phone'[x] = phone[x]
    BY <1>3, Zenon DEF IInv, AccountTypeOK
  <2>6. JobOK(w)'
    BY <1>0, <1>3, <2>1, <2>2, <2>5, AccountsAssumption DEF JobOK
  <2>7. \A v \in Workers : JobOK(v)'
    BY <1>0, <1>3, <2>3, <2>6, OthersOKPhone, Zenon
  <2>8. OneAccountPerPhone'
    BY <1>0, <1>3, <2>5 DEF IInv, OneAccountPerPhone, LiveUser
  <2>9. \A t \in tokens' : phone'[t[1]] # Nil
    BY <1>0, <1>3, <2>5, AccountsAssumption, Zenon DEF IInv, AccountTypeOK
  <2>10. \A v \in Workers, c \in Challenges : Holds(v, c)' => Holds(v, c)
    BY <1>0, <2>1, <2>2, <2>3 DEF Holds
  <2>11. \A c \in Challenges : MintOK(c)'
    BY <2>10, MintKept, Zenon
  <2>12. \A v \in Workers : job'[v].op = "code" => job[v].op = "code" /\ job'[v].chal = job[v].chal
    BY <2>1, <2>2, <2>3, Zenon
  <2>13. \A c \in Challenges : CountOK(c)'
    BY <1>1, <2>12, CountKept, Zenon
  <2> QED BY <2>4, <2>7, <2>8, <2>9, <2>11, <2>13, Zenon DEF IInv
<1> QED BY <1>2, <1>3, Zenon

\* SoftDelete frees the phone of an account and preserves the invariant.
LEMMA SoftDeleteStep == ASSUME IInv, NEW w \in Workers, SoftDelete(w) PROVE IInv'
<1> USE DEF SoftDelete, At, otpVars, deviceVars, histVars
<1> DEFINE u == job[w].user
<1>0. u \in UserIds /\ phone[u] # Nil
  BY Zenon DEF IInv, JobOK
<1>1. accountFaults' = accountFaults /\ accountFaults' \in Nat /\ accountFaults' >= accountFaults
  BY DEF IInv, AccountTypeOK
<1>2. job'[w] = Idle /\ \A v \in Workers \ {w} : job'[v] = job[v]
  BY Zenon DEF Done, IInv, AccountTypeOK
<1>3. AccountTypeOK'
  <2>1. Idle \in Jobs
    BY Zenon DEF Idle, Jobs, Ops
  <2> QED BY <1>0, <2>1, Zenon DEF IInv, AccountTypeOK, Done
<1>4. phone'[u] = Deleted /\ \A x \in UserIds \ {u} : phone'[x] = phone[x]
  BY <1>0, Zenon DEF IInv, AccountTypeOK
<1>5. \A v \in Workers : JobOK(v)'
  <2>1. phone' = [phone EXCEPT ![u] = Deleted]
    BY Zenon
  <2> QED BY <1>0, <1>2, <2>1, IdleOK, OthersOKPhone, Zenon
<1>6. OneAccountPerPhone'
  BY <1>0, <1>4, AccountsAssumption DEF IInv, OneAccountPerPhone, LiveUser
<1>7. \A t \in tokens' : phone'[t[1]] # Nil
  BY <1>0, <1>4, AccountsAssumption, Zenon DEF IInv, AccountTypeOK
<1>8. \A c \in Challenges : MintOK(c)'
  <2>1. \A v \in Workers, c \in Challenges : Holds(v, c)' => Holds(v, c)
    BY <1>2, IdleOK, Zenon DEF Holds
  <2> QED BY <2>1, MintKept, Zenon
<1>9. \A c \in Challenges : CountOK(c)'
  <2>1. \A v \in Workers : job'[v].op = "code" => job[v].op = "code" /\ job'[v].chal = job[v].chal
    BY <1>2, IdleOK, Zenon
  <2> QED BY <1>1, <2>1, CountKept, Zenon
<1> QED BY <1>3, <1>5, <1>6, <1>7, <1>8, <1>9, Zenon DEF IInv

\* The session of the code is opened by its only holder; requests on the key
\* whose device is active again are no longer expected to be refused for it.
LEMMA UpsertStep == ASSUME IInv, NEW w \in Workers, Upsert(w) PROVE IInv'
<1> USE DEF Upsert, At, otpVars, userVars
<1> DEFINE u == job[w].user  k == job[w].key  c == job[w].chal
<1>0. /\ u \in UserIds /\ phone[u] # Nil /\ k \in Keys /\ c \in Challenges \union {Nil}
      /\ job[w].op = "upsert"
  BY Zenon DEF IInv, JobOK, AccountTypeOK, Jobs, Ops
<1>1. accountFaults' = accountFaults /\ accountFaults' \in Nat /\ accountFaults' >= accountFaults
  BY DEF IInv, AccountTypeOK
<1>2. job'[w] = Idle
  BY Zenon
<1>3. ASSUME NEW v \in Workers \ {w}
      PROVE  /\ job'[v] \in Jobs /\ job'[v].op = job[v].op /\ job'[v].chal = job[v].chal
             /\ job'[v].user = job[v].user /\ job'[v].key = job[v].key
             /\ job'[v].outUser = job[v].outUser
             /\ job'[v].outDevice => job[v].outDevice /\ job[v].key # k
  <2>1. job[v] \in Jobs
    BY Zenon DEF IInv, AccountTypeOK
  <2>2. job'[v] = IF job[v].key = k THEN [job[v] EXCEPT !.outDevice = FALSE] ELSE job[v]
    BY <1>3, Zenon
  <2> QED BY <2>1, <2>2, Zenon DEF Jobs
<1>4. job' \in [Workers -> Jobs]
  <2>1. Idle \in Jobs
    BY Zenon DEF Idle, Jobs, Ops
  <2>2. \A v \in Workers : job'[v] \in Jobs
    BY <1>2, <1>3, <2>1, Zenon
  <2>3. DOMAIN job' = Workers /\ job' = [v \in Workers |-> job'[v]]
    BY Zenon
  <2> QED BY <2>2, <2>3, Zenon
<1>5. AccountTypeOK'
  <2>1. owner' \in [Keys -> UserIds \union {Nil}] /\ revoked' \subseteq Keys
    BY <1>0, Zenon DEF IInv, AccountTypeOK
  <2>2. tokens' \subseteq UserIds \X Keys /\ minted' \in [Challenges -> Nat]
    BY <1>0 DEF IInv, AccountTypeOK
  <2> QED BY <1>4, <2>1, <2>2, Zenon DEF IInv, AccountTypeOK
<1>6. ASSUME NEW v \in Workers PROVE JobOK(v)'
  <2>1. CASE v = w
    BY <1>2, <2>1, IdleOK, Zenon
  <2>2. CASE v # w
    <3>1. JobOK(v) /\ job[v] \in Jobs
      BY Zenon DEF IInv, AccountTypeOK
    <3>2. \A x \in Keys \ {k} : owner'[x] = owner[x] /\ (x \in revoked' <=> x \in revoked)
      BY Zenon DEF IInv, AccountTypeOK
    <3>3. job'[v].op = "devices" /\ job'[v].outDevice
            => ~(owner'[job'[v].key] = job'[v].user /\ job'[v].key \notin revoked')
      BY <1>3, <2>2, <3>1, <3>2 DEF JobOK, ActiveDevice, Ops
    <3> QED BY <1>3, <2>2, <3>1, <3>3 DEF JobOK, LiveUser, ActiveDevice
  <2> QED BY <2>1, <2>2, Zenon
<1>7. OneAccountPerPhone' /\ \A t \in tokens' : phone'[t[1]] # Nil
  BY <1>0 DEF IInv, OneAccountPerPhone, LiveUser
<1>8. \A v \in Workers, d \in Challenges : Holds(v, d)' => v # w /\ Holds(v, d)
  BY <1>2, <1>3, IdleOK DEF Holds
<1>9. ASSUME NEW d \in Challenges PROVE MintOK(d)'
  <2>1. MintOK(d) /\ minted[d] \in Nat
    BY Zenon DEF IInv, AccountTypeOK
  <2>2. CASE d = c
    <3>1. Holds(w, d)
      BY <1>0, <2>2, Zenon DEF Holds
    <3>2. d \in consumed /\ minted[d] = 0 /\ \A v \in Workers : Holds(v, d) => v = w
      BY <2>1, <3>1, Zenon DEF MintOK
    <3>3. minted'[d] = 1
      BY <2>2, <3>2, AccountsAssumption DEF IInv, AccountTypeOK
    <3> QED BY <1>8, <3>2, <3>3 DEF MintOK
  <2>3. CASE d # c
    <3>1. minted'[d] = minted[d]
      BY <2>3, Zenon DEF IInv, AccountTypeOK
    <3> QED BY <1>8, <2>1, <3>1, Zenon DEF MintOK
  <2> QED BY <2>2, <2>3, Zenon
<1>10. \A v \in Workers : job'[v].op = "code" => job[v].op = "code" /\ job'[v].chal = job[v].chal
  BY <1>2, <1>3, IdleOK, Zenon
<1>11. \A d \in Challenges : CountOK(d)'
  BY <1>1, <1>10, CountKept, Zenon
<1> QED BY <1>5, <1>6, <1>7, <1>9, <1>11, Zenon DEF IInv

\* Lifting a ban preserves the invariant.
LEMMA UnbanStep == ASSUME IInv, NEW u \in UserIds, Unban(u) PROVE IInv'
<1> USE DEF Unban, otpVars, deviceVars, histVars
<1>1. accountFaults' = accountFaults /\ accountFaults' \in Nat /\ accountFaults' >= accountFaults /\ requests' \in Nat
  BY DEF IInv, AccountTypeOK
<1>2. ASSUME NEW v \in Workers
      PROVE  /\ job'[v] \in Jobs /\ job'[v].op = job[v].op /\ job'[v].chal = job[v].chal
             /\ job'[v].user = job[v].user /\ job'[v].key = job[v].key
             /\ job'[v].outDevice = job[v].outDevice
             /\ job'[v].outUser => job[v].outUser /\ (job[v].user # u \/ ~LiveUser(u))
  <2>1. job[v] \in Jobs
    BY Zenon DEF IInv, AccountTypeOK
  <2>2. job'[v] = IF job[v].user = u /\ LiveUser(u)
                    THEN [job[v] EXCEPT !.outUser = FALSE] ELSE job[v]
    BY Zenon
  <2> QED BY <2>1, <2>2, Zenon DEF Jobs
<1>3. AccountTypeOK'
  <2>1. job' \in [Workers -> Jobs]
    <3>1. DOMAIN job' = Workers /\ job' = [v \in Workers |-> job'[v]]
      BY Zenon
    <3> QED BY <1>2, <3>1, Zenon
  <2> QED BY <1>1, <2>1, Zenon DEF IInv, AccountTypeOK
<1>4. ASSUME NEW v \in Workers PROVE JobOK(v)'
  <2>1. JobOK(v)
    BY Zenon DEF IInv
  <2>2. \A x \in UserIds \ {u} : x \in banned' <=> x \in banned
    BY Zenon
  <2> QED BY <1>2, <2>1, <2>2 DEF JobOK, ActiveDevice, LiveUser
<1>5. \A c \in Challenges : MintOK(c)'
  <2>1. \A v \in Workers, c \in Challenges : Holds(v, c)' => Holds(v, c)
    BY <1>2, Zenon DEF Holds
  <2> QED BY <2>1, MintKept, Zenon
<1>6. \A c \in Challenges : CountOK(c)'
  BY <1>1, <1>2, CountKept, Zenon
<1> QED BY <1>3, <1>4, <1>5, <1>6, AccountsKept, Zenon DEF IInv

\* A refresh comes in and notes what its session is worth.
LEMMA RefreshStep == ASSUME IInv, NEW w \in Workers, NEW u \in UserIds, NEW k \in Keys,
                            Refresh(w, u, k)
                     PROVE  IInv'
<1> DEFINE j == [Idle EXCEPT !.op = "devices", !.user = u, !.key = k,
                             !.outDevice = ~ActiveDevice(u, k),
                             !.outUser = ~LiveUser(u) \/ u \in banned]
<1>0. /\ j \in Jobs /\ j.op = "devices" /\ j.user = u /\ j.key = k
      /\ j.outDevice <=> ~ActiveDevice(u, k)
      /\ j.outUser <=> ~LiveUser(u) \/ u \in banned
  BY Zenon DEF Idle, Jobs, Ops
<1>1. job' = [job EXCEPT ![w] = j]
  BY Zenon DEF Refresh, Begin
<1> HIDE DEF j
<1>2. job'[w] = j
  BY <1>1, Zenon DEF IInv, AccountTypeOK
<1>3. phone[u] # Nil
  BY Zenon DEF Refresh, IInv, AccountTypeOK
<1>4. UNCHANGED <<otpVars, userVars, deviceVars, tokens, accountFaults, histVars>>
  BY Zenon DEF Refresh
<1>5. JobOK(w)'
  BY <1>0, <1>2, <1>3, <1>4, Zenon DEF JobOK, ActiveDevice, LiveUser, userVars, deviceVars
<1>6. \A c \in Challenges : Holds(w, c)' => Holds(w, c)
  BY <1>0, <1>2, Zenon DEF Holds
<1>7. accountFaults' \in Nat /\ accountFaults' >= accountFaults /\ requests' \in Nat /\ revoked' = revoked
      /\ revoked' \subseteq Keys /\ owner' = owner
  BY <1>4 DEF IInv, AccountTypeOK, Refresh, Begin, deviceVars
<1> QED BY <1>0, <1>1, <1>4, <1>5, <1>6, <1>7, QuietStep, Zenon

\* The reads and the answer of handleRefresh preserve the invariant.
LEMMA RefreshJudged ==
  ASSUME IInv, NEW w \in Workers, RefreshDevices(w) \/ RefreshAccount(w) \/ Granted(w)
  PROVE  IInv'
<1> USE DEF RefreshDevices, RefreshAccount, Granted, At
<1>0. UNCHANGED <<otpVars, userVars, deviceVars, tokens, requests, accountFaults, histVars>>
  BY Zenon
<1>1. accountFaults' \in Nat /\ accountFaults' >= accountFaults /\ requests' \in Nat /\ revoked' = revoked
      /\ revoked' \subseteq Keys /\ owner' = owner
  BY <1>0 DEF IInv, AccountTypeOK, deviceVars
<1>2. CASE Done(w)
  BY <1>0, <1>1, <1>2, EndStep, Zenon
<1>3. ASSUME NEW op \in {"account", "granted"}, Goto(w, op),
             \/ op = "account" /\ job[w].op = "devices" /\ ActiveDevice(job[w].user, job[w].key)
             \/ op = "granted" /\ job[w].op = "account" /\ LiveUser(job[w].user)
                /\ job[w].user \notin banned
      PROVE  IInv'
  <2> DEFINE j == [job[w] EXCEPT !.op = op]
  <2>0. JobOK(w) /\ job[w] \in Jobs
    BY Zenon DEF IInv, AccountTypeOK
  <2>1. j \in Jobs /\ job' = [job EXCEPT ![w] = j] /\ job'[w] = j
    BY <1>3, GotoJob, Zenon DEF Ops
  <2>2. /\ j.op = op /\ j.user = job[w].user /\ j.key = job[w].key
        /\ j.outDevice = job[w].outDevice /\ j.outUser = job[w].outUser
    BY <2>0, Zenon DEF Jobs
  <2> HIDE DEF j
  <2>3. JobOK(w)'
    BY <1>0, <1>3, <2>0, <2>1, <2>2, Zenon DEF JobOK, ActiveDevice, LiveUser, userVars, deviceVars, Ops
  <2>4. \A c \in Challenges : Holds(w, c)' => Holds(w, c)
    BY <1>3, <2>1, <2>2, Zenon DEF Holds
  <2> QED BY <1>0, <1>1, <1>3, <2>1, <2>2, <2>3, <2>4, QuietStep, Zenon
<1> QED BY <1>2, <1>3, Zenon

\* A request that binds a key or deletes an account comes in.
LEMMA ResolveStep == ASSUME IInv, NEW w \in Workers, NEW u \in UserIds, NEW k \in Keys,
                            ResolveToken(w, u, k)
                     PROVE  IInv'
<1> DEFINE j == [Idle EXCEPT !.op = "upsert", !.user = u, !.key = k]
<1>0. j \in Jobs /\ j.op = "upsert" /\ j.user = u /\ j.key = k /\ j.chal = Nil
  BY Zenon DEF Idle, Jobs, Ops
<1>1. job' = [job EXCEPT ![w] = j]
  BY Zenon DEF ResolveToken, Begin
<1> HIDE DEF j
<1>2. job'[w] = j
  BY <1>1, Zenon DEF IInv, AccountTypeOK
<1>3. UNCHANGED <<otpVars, userVars, deviceVars, tokens, accountFaults, histVars>>
  BY Zenon DEF ResolveToken
<1>4. JobOK(w)'
  BY <1>0, <1>2, <1>3, AccountsAssumption, Zenon DEF ResolveToken, JobOK, LiveUser, userVars
<1>5. \A c \in Challenges : Holds(w, c)' => Holds(w, c)
  BY <1>0, <1>2, AccountsAssumption, Zenon DEF Holds
<1>6. accountFaults' \in Nat /\ accountFaults' >= accountFaults /\ requests' \in Nat /\ revoked' = revoked
      /\ revoked' \subseteq Keys /\ owner' = owner
  BY <1>3 DEF IInv, AccountTypeOK, ResolveToken, Begin, deviceVars
<1> QED BY <1>0, <1>1, <1>3, <1>4, <1>5, <1>6, QuietStep, Zenon

\* The arrival of an account deletion preserves the invariant.
LEMMA DeleteAccountStep == ASSUME IInv, NEW w \in Workers, NEW u \in UserIds, DeleteAccount(w, u)
                           PROVE  IInv'
<1> DEFINE j == [Idle EXCEPT !.op = "softdelete", !.user = u]
<1>0. j \in Jobs /\ j.op = "softdelete" /\ j.user = u
  BY Zenon DEF Idle, Jobs, Ops
<1>1. job' = [job EXCEPT ![w] = j]
  BY Zenon DEF DeleteAccount, Begin
<1> HIDE DEF j
<1>2. job'[w] = j
  BY <1>1, Zenon DEF IInv, AccountTypeOK
<1>3. UNCHANGED <<otpVars, userVars, owner, tokens, accountFaults, histVars>>
  BY Zenon DEF DeleteAccount
<1>4. phone[u] # Nil
  BY Zenon DEF DeleteAccount, IInv, AccountTypeOK
<1>5. JobOK(w)'
  BY <1>0, <1>2, <1>3, <1>4, Zenon DEF JobOK, userVars
<1>6. \A c \in Challenges : Holds(w, c)' => Holds(w, c)
  BY <1>0, <1>2, Zenon DEF Holds
<1>7. accountFaults' \in Nat /\ accountFaults' >= accountFaults /\ requests' \in Nat /\ revoked \subseteq revoked'
      /\ revoked' \subseteq Keys
  BY <1>3 DEF IInv, AccountTypeOK, DeleteAccount, Begin, DevicesOf
<1> QED BY <1>0, <1>1, <1>3, <1>5, <1>6, <1>7, QuietStep, Zenon

\* Revoking every device of an account, or the death of a request, preserves the invariant.
LEMMA EndingStep == ASSUME IInv, NEW w \in Workers, RevokeAll(w) \/ Crash(w) PROVE IInv'
<1>1. /\ Done(w) /\ UNCHANGED <<otpVars, userVars, owner, tokens, histVars>>
      /\ accountFaults' \in Nat /\ accountFaults' >= accountFaults /\ requests' \in Nat /\ revoked \subseteq revoked'
      /\ revoked' \subseteq Keys
  BY AccountsAssumption DEF IInv, AccountTypeOK, RevokeAll, Crash, AccountFault, DevicesOf, deviceVars
<1> QED BY <1>1, EndStep, Zenon

\* A ban preserves the invariant.
LEMMA BanStep == ASSUME IInv, NEW w \in Workers, NEW u \in UserIds, Ban(w, u) PROVE IInv'
<1> DEFINE j == [Idle EXCEPT !.op = "revokeall", !.user = u]
<1> USE DEF Ban, Begin, otpVars, deviceVars, histVars
<1>0. j \in Jobs /\ j.op = "revokeall" /\ j.user = u
  BY Zenon DEF Idle, Jobs, Ops
<1>1. job' = [job EXCEPT ![w] = j]
  BY Zenon
<1> HIDE DEF j
<1>2. job'[w] = j
  BY <1>1, Zenon DEF IInv, AccountTypeOK
<1>3. JobOK(w)'
  BY <1>0, <1>2, AccountsAssumption, Zenon DEF JobOK, LiveUser
<1>4. \A c \in Challenges : Holds(w, c)' => Holds(w, c)
  BY <1>0, <1>2, Zenon DEF Holds
<1>5. accountFaults' \in Nat /\ accountFaults' >= accountFaults /\ requests' \in Nat
  BY DEF IInv, AccountTypeOK
<1>6. /\ job' \in [Workers -> Jobs] /\ \A v \in Workers : JobOK(v)'
      /\ \A c \in Challenges : MintOK(c)' /\ CountOK(c)'
  BY <1>0, <1>1, <1>3, <1>4, <1>5, MoveStep, Zenon
<1>7. AccountTypeOK'
  BY <1>5, <1>6, Zenon DEF IInv, AccountTypeOK
<1> QED BY <1>6, <1>7, AccountsKept, Zenon DEF IInv

\* IInv holds in every state of every behaviour of the auth-service.
THEOREM AccountsInductive == AccountSpec => []IInv
<1>1. AccountInit => IInv
  BY AccountsInit, Zenon
<1>2. IInv /\ [AccountNext]_accountVars => IInv'
  <2> SUFFICES ASSUME IInv, [AccountNext]_accountVars PROVE IInv'
    BY Zenon
  <2>1. CASE UNCHANGED accountVars
    <3>1. UNCHANGED <<otpVars, userVars, deviceVars, tokens, job, requests, accountFaults, histVars>>
      BY <2>1, Zenon DEF accountVars
    <3>2. AccountTypeOK'
      BY <3>1, Zenon DEF IInv, AccountTypeOK, otpVars, userVars, deviceVars, histVars
    <3> QED BY <3>1, <3>2, StillStep, AccountsKept, Zenon
          DEF IInv, otpVars, userVars, deviceVars, histVars
  <2>2. CASE AccountNext
    BY <2>2, SendCodeStep, ExpireStep, RevokeStep, SignInStep, WrongCodeStep, ConsumeStep,
       FindStep, CreateStep, SoftDeleteStep, UpsertStep, UnbanStep, RefreshStep, RefreshJudged,
       ResolveStep, DeleteAccountStep, EndingStep, BanStep DEF AccountNext
  <2> QED BY <2>1, <2>2, Zenon
<1> QED BY <1>1, <1>2, PTL DEF AccountSpec

\* A verification code opens at most one session, however many sign-ins race on
\* it (handleSignIn, OTP.Consume).
THEOREM CodeOpensOneSession == AccountSpec => []CodeMintsOnce
<1>1. IInv => CodeMintsOnce
  BY Zenon DEF IInv, MintOK, CodeMintsOnce
<1> QED BY <1>1, AccountsInductive, PTL

\* Wrong codes beyond MaxCodeAttempts are fewer than the requests in flight plus
\* the increments that failed (handleSignIn, OTP.IncrementAttempts).
THEOREM WrongCodesAreBounded == AccountSpec => []GuessesBounded
<1>1. IInv => GuessesBounded
  <2> SUFFICES ASSUME IInv, NEW c \in Challenges
               PROVE  wrong[c] <= MaxCodeAttempts + Cardinality(Workers) - 1 + accountFaults
    BY Zenon DEF GuessesBounded
  <2>1. /\ attempts[c] \in Nat /\ wrong[c] \in Nat /\ accountFaults \in Nat /\ CountOK(c)
        /\ MaxCodeAttempts \in Nat
    BY AccountsAssumption, Zenon DEF IInv, AccountTypeOK
  <2> QED BY <2>1, GuessingFinite DEF CountOK
<1> QED BY <1>1, AccountsInductive, PTL

\* Two live accounts never share a phone (findOrCreateUser, SoftDelete).
THEOREM PhonesAreUnique == AccountSpec => []OneAccountPerPhone
<1>1. IInv => OneAccountPerPhone
  BY Zenon DEF IInv
<1> QED BY <1>1, AccountsInductive, PTL

\* A refresh that arrives after logout, ban or deletion is not granted
\* (handleRefresh).
THEOREM LogoutTakesEffect == AccountSpec => []LogoutIsImmediate
<1>1. IInv => LogoutIsImmediate
  BY Zenon DEF IInv, JobOK, LogoutIsImmediate, At
<1> QED BY <1>1, AccountsInductive, PTL
=============================================================================
