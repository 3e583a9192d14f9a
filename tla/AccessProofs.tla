---------------------------- MODULE AccessProofs ----------------------------
(***************************************************************************)
(* Proofs about who may do what.  A group's rows, its count and the roster *)
(* a send is judged by (Membership), for every set of users, requests and  *)
(* sends; the tokens services refuse while a signing key is replaced       *)
(* (KeyRotation), for any number of keys, services and clients; the links  *)
(* to files that media-service gives out (MediaAccess), for any chats and  *)
(* users.                                                                  *)
(***************************************************************************)
EXTENDS Membership, KeyRotation, MediaAccess, FiniteSetTheorems, TLAPS

(***************************************************************************)
(* Membership.                                                             *)
(***************************************************************************)
\* The set of active members is finite, so that its cardinality is a number
\* that an added or a removed row changes by one.
LEMMA ActiveFinite ==
  ASSUME NEW a \in [Users -> BOOLEAN]
  PROVE  /\ IsFiniteSet({u \in Users : a[u]})
         /\ Cardinality({u \in Users : a[u]}) \in Nat
<1>1. IsFiniteSet(Users) BY MembershipAssumption, Zenon
<1>2. {u \in Users : a[u]} \subseteq Users BY Zenon
<1>3. IsFiniteSet({u \in Users : a[u]}) BY <1>1, <1>2, FS_Subset, Zenon
<1> QED BY <1>3, FS_CardinalityType, Zenon

\* Members.Add on a user who is not an active member: the roster grows by one.
LEMMA AddCounts ==
  ASSUME NEW a \in [Users -> BOOLEAN], NEW t \in Users, ~a[t]
  PROVE  Cardinality({u \in Users : [a EXCEPT ![t] = TRUE][u]})
           = Cardinality({u \in Users : a[u]}) + 1
<1>1. {u \in Users : [a EXCEPT ![t] = TRUE][u]} = {u \in Users : a[u]} \union {t}
  BY Zenon
<1>2. t \notin {u \in Users : a[u]} BY Zenon
<1> QED BY <1>1, <1>2, ActiveFinite, FS_AddElement, Zenon

\* Members.Remove on an active member: the roster shrinks by one, and was not
\* empty, so that GREATEST(member_count - 1, 0) never clips.
LEMMA RemoveCounts ==
  ASSUME NEW a \in [Users -> BOOLEAN], NEW t \in Users, a[t]
  PROVE  /\ Cardinality({u \in Users : a[u]}) > 0
         /\ Cardinality({u \in Users : [a EXCEPT ![t] = FALSE][u]})
              = Cardinality({u \in Users : a[u]}) - 1
<1> DEFINE b == [a EXCEPT ![t] = FALSE]
<1>1. b \in [Users -> BOOLEAN] /\ ~b[t] BY Zenon
<1>2. [b EXCEPT ![t] = TRUE] = a BY Zenon
<1>3. Cardinality({u \in Users : a[u]}) = Cardinality({u \in Users : b[u]}) + 1
  <2> HIDE DEF b
  <2> QED BY <1>1, <1>2, AddCounts
<1>4. Cardinality({u \in Users : b[u]}) \in Nat
  <2> HIDE DEF b
  <2> QED BY <1>1, ActiveFinite, Zenon
<1> QED BY <1>3, <1>4

-----------------------------------------------------------------------------
\* CreateGroup makes its caller the one owner and counts the first members.
LEMMA MembershipInit == Init => IInv
<1> SUFFICES ASSUME Init PROVE IInv BY Zenon
<1> USE MembershipAssumption
<1>1. role \in [Users -> Roles \union {None}] BY Zenon DEF Init, Roles
<1>2. active \in [Users -> BOOLEAN] BY DEF Init
<1>3. Active = Initial BY Zenon DEF Init, Active
<1>4. CountIsRoster BY <1>3, Zenon DEF Init, CountIsRoster
<1>5. count \in Nat
  <2>1. IsFiniteSet(Initial) BY FS_Subset, Zenon
  <2> QED BY <2>1, FS_CardinalityType, Zenon DEF Init
<1>6. TypeOK
  <2>1. deleted \in BOOLEAN BY Zenon DEF Init
  <2>2. step \in [Workers -> {"idle", "judge", "write"}] BY Zenon DEF Init
  <2>3. req \in [Workers -> Requests \union {None}] BY Zenon DEF Init
  <2> QED BY <1>1, <1>2, <1>5, <2>1, <2>2, <2>3, Zenon DEF TypeOK
<1>7. ExactlyOneOwner
  <2>1. active[Owner] BY Zenon DEF Init
  <2>2. ASSUME NEW u \in Users PROVE role[u] = "owner" <=> u = Owner
    <3>1. CASE u = Owner BY <3>1, Zenon DEF Init
    <3>2. CASE u # Owner /\ u \in Initial BY <3>2, Zenon DEF Init
    <3>3. CASE u \notin Initial
      <4>1. role[u] = None BY <3>3, Zenon DEF Init
      <4> QED BY <4>1, <3>3, Zenon DEF Roles
    <3> QED BY <3>1, <3>2, <3>3, Zenon
  <2> QED BY <2>1, <2>2, Zenon DEF ExactlyOneOwner
<1>8. ASSUME NEW u \in Users, active[u] PROVE role[u] # None
  BY <1>8, Zenon DEF Init, Roles
<1>9. \A w \in Workers : Knows(w) BY Zenon DEF Init, Knows
<1> QED BY <1>4, <1>6, <1>7, <1>8, <1>9, Zenon DEF IInv

\* Requests that no step touched still know what they knew.
LEMMA OthersKnow ==
  ASSUME IInv, NEW w \in Workers, Knows(w)',
         \A v \in Workers \ {w} : step'[v] = step[v] /\ req'[v] = req[v]
  PROVE  \A v \in Workers : Knows(v)'
<1>1. ASSUME NEW v \in Workers, v # w PROVE Knows(v)'
  BY <1>1 DEF IInv, Knows
<1> QED BY <1>1, Zenon

\* A finished request leaves nothing behind.
LEMMA FinishKeeps ==
  ASSUME IInv, NEW w \in Workers, Finish(w)
  PROVE  /\ step' \in [Workers -> {"idle", "judge", "write"}]
         /\ req' \in [Workers -> Requests \union {None}]
         /\ \A v \in Workers : Knows(v)'
<1>1. step' \in [Workers -> {"idle", "judge", "write"}] BY Zenon DEF IInv, TypeOK, Finish
<1>2. req' \in [Workers -> Requests \union {None}] BY Zenon DEF IInv, TypeOK, Finish
<1>3. Knows(w)' BY Zenon DEF IInv, TypeOK, Finish, Knows
<1>4. \A v \in Workers \ {w} : step'[v] = step[v] /\ req'[v] = req[v]
  BY Zenon DEF IInv, TypeOK, Finish
<1> QED BY <1>1, <1>2, <1>3, <1>4, OthersKnow, Zenon

\* Steps that leave the rows and the requests alone keep the invariant.
LEMMA RowsUntouched ==
  ASSUME IInv, UNCHANGED <<rowVars, step, req>>
  PROVE  IInv'
  BY Zenon DEF IInv, TypeOK, ExactlyOneOwner, CountIsRoster, Active, Knows, rowVars

\* requireMember records the caller's role as it is.
LEMMA BeginStep ==
  ASSUME IInv, NEW w \in Workers, Begin(w)
  PROVE  IInv'
<1>1. PICK op \in Ops, actor \in Users, target \in Users, to \in Roles :
        /\ active[actor]
        /\ op \in {"leave", "deleteChat"} => target = actor
        /\ req' = [req EXCEPT ![w] = [op |-> op, actor |-> actor, actorRole |-> role[actor],
                                      target |-> target, to |-> to]]
        /\ step' = [step EXCEPT ![w] = "judge"]
        /\ UNCHANGED rowVars
  BY Zenon DEF Begin
<1> DEFINE q == [op |-> op, actor |-> actor, actorRole |-> role[actor],
                 target |-> target, to |-> to]
<1>2. role[actor] \in Roles
  BY <1>1, Zenon DEF IInv, TypeOK
<1>3. q \in Requests BY <1>1, <1>2, Zenon DEF Requests
<1>4. step' \in [Workers -> {"idle", "judge", "write"}] BY <1>1, Zenon DEF IInv, TypeOK
<1>5. req' \in [Workers -> Requests \union {None}] BY <1>1, <1>3, Zenon DEF IInv, TypeOK
<1>6. TypeOK' BY <1>1, <1>4, <1>5, Zenon DEF IInv, TypeOK, rowVars
<1>7. req'[w] = q /\ step'[w] = "judge" BY <1>1, Zenon DEF IInv, TypeOK
<1>8. role[actor] = "owner" <=> actor = Owner BY Zenon DEF IInv, ExactlyOneOwner
<1>9. Knows(w)' BY <1>1, <1>3, <1>7, <1>8 DEF Knows
<1>10. \A v \in Workers \ {w} : step'[v] = step[v] /\ req'[v] = req[v]
  BY <1>1, Zenon DEF IInv, TypeOK
<1>11. \A v \in Workers : Knows(v)' BY <1>9, <1>10, OthersKnow, Zenon
<1> QED BY <1>1, <1>6, <1>11, Zenon DEF IInv, ExactlyOneOwner, CountIsRoster, Active, rowVars

\* The checks: a request is let through only when its victim is not the owner
\* and what it grants is not ownership.
LEMMA JudgeStep ==
  ASSUME IInv, NEW w \in Workers, Judge(w)
  PROVE  IInv'
<1>0. UNCHANGED rowVars /\ step[w] = "judge" BY Zenon DEF Judge
<1>1. CASE Allowed(req[w]) /\ step' = [step EXCEPT ![w] = "write"] /\ UNCHANGED req
  <2>1. req[w] \in Requests /\ Knows(w) BY <1>0, Zenon DEF IInv, Knows
  <2>2. step'[w] = "write" /\ req'[w] = req[w] BY <1>1, Zenon DEF IInv, TypeOK
  <2>3. req[w].op \in {"remove", "leave", "setRole"} => req[w].target # Owner
    <3>1. CASE req[w].op = "remove"
      BY <1>1, <2>1, <3>1, Zenon DEF Allowed, canRemoveMember, IInv, ExactlyOneOwner, Requests
    <3>2. CASE req[w].op = "leave"
      BY <1>0, <1>1, <2>1, <3>2, Zenon DEF Allowed, Knows
    <3>3. CASE req[w].op = "setRole"
      BY <1>1, <2>1, <3>3, Zenon DEF Allowed, canSetRole, IInv, ExactlyOneOwner, Requests
    <3> QED BY <3>1, <3>2, <3>3, Zenon
  <2>4. req[w].op \in {"add", "setRole"} => req[w].to # "owner"
    <3>1. CASE req[w].op = "add" BY <1>1, <3>1, Zenon DEF Allowed, canAddMember
    <3>2. CASE req[w].op = "setRole" BY <1>1, <3>2, Zenon DEF Allowed, canSetRole
    <3> QED BY <3>1, <3>2, Zenon
  <2>5. Knows(w)' BY <1>0, <2>1, <2>2, <2>3, <2>4, Zenon DEF Knows
  <2>6. \A v \in Workers \ {w} : step'[v] = step[v] /\ req'[v] = req[v]
    BY <1>1, Zenon DEF IInv, TypeOK
  <2>7. \A v \in Workers : Knows(v)' BY <2>5, <2>6, OthersKnow, Zenon
  <2>8. TypeOK' BY <1>0, <1>1, Zenon DEF IInv, TypeOK, rowVars
  <2> QED BY <1>0, <2>7, <2>8, Zenon DEF IInv, ExactlyOneOwner, CountIsRoster, Active, rowVars
<1>2. CASE Finish(w)
  <2>1. TypeOK' BY <1>0, <1>2, FinishKeeps, Zenon DEF IInv, TypeOK, rowVars
  <2> QED BY <1>0, <1>2, <2>1, FinishKeeps, Zenon
          DEF IInv, ExactlyOneOwner, CountIsRoster, Active, rowVars
<1> QED BY <1>1, <1>2, Zenon DEF Judge

\* Members.Add: a member that is there is left alone, whoever it is; a new row
\* never has the owner role, and is not the owner's.
LEMMA AddStep ==
  ASSUME IInv, NEW w \in Workers, WriteAdd(w)
  PROVE  IInv'
<1> DEFINE q == req[w]
<1>1. Finish(w) /\ step[w] = "write" /\ q.op = "add" /\ deleted' = deleted
  BY Zenon DEF WriteAdd, Written
<1>2. q \in Requests /\ q.to # "owner" /\ q.target \in Users /\ q.to \in Roles
  <2>1. q \in Requests /\ q.to # "owner" BY <1>1, Zenon DEF IInv, Knows
  <2> QED BY <2>1, Zenon DEF Requests
<1>3. CASE active[q.target]
  <2>1. UNCHANGED rowVars BY <1>1, <1>3, Zenon DEF WriteAdd, rowVars
  <2>2. TypeOK' BY <1>1, <2>1, FinishKeeps, Zenon DEF IInv, TypeOK, rowVars
  <2> QED BY <1>1, <2>1, <2>2, FinishKeeps, Zenon
          DEF IInv, ExactlyOneOwner, CountIsRoster, Active, rowVars
<1>4. CASE ~active[q.target]
  <2>1. /\ role' = [role EXCEPT ![q.target] = q.to]
        /\ active' = [active EXCEPT ![q.target] = TRUE]
        /\ count' = count + 1
    BY <1>4, Zenon DEF WriteAdd
  <2>2. q.target # Owner BY <1>4, Zenon DEF IInv, ExactlyOneOwner
  <2>3. TypeOK'
    <3>1. role' \in [Users -> Roles \union {None}] BY <1>2, <2>1, Zenon DEF IInv, TypeOK
    <3>2. active' \in [Users -> BOOLEAN] BY <2>1, Zenon DEF IInv, TypeOK
    <3>3. count' \in Nat /\ deleted' \in BOOLEAN BY <1>1, <2>1 DEF IInv, TypeOK
    <3> QED BY <1>1, <3>1, <3>2, <3>3, FinishKeeps, Zenon DEF TypeOK
  <2>4. ExactlyOneOwner'
    BY <1>2, <2>1, <2>2, MembershipAssumption, Zenon DEF IInv, TypeOK, ExactlyOneOwner
  <2>5. CountIsRoster'
    <3>1. active \in [Users -> BOOLEAN] BY Zenon DEF IInv, TypeOK
    <3>2. Cardinality({u \in Users : active'[u]}) = Cardinality({u \in Users : active[u]}) + 1
      BY <1>2, <1>4, <2>1, <3>1, AddCounts, Zenon
    <3> QED BY <2>1, <3>2, Zenon DEF IInv, CountIsRoster, Active
  <2>6. \A u \in Users : active'[u] => role'[u] # None
    BY <1>2, <2>1, MembershipAssumption, Zenon DEF IInv, TypeOK
  <2> QED BY <1>1, <2>3, <2>4, <2>5, <2>6, FinishKeeps, Zenon DEF IInv
<1> QED BY <1>3, <1>4, Zenon

\* Members.Remove, for a removal and for a departure: the row is not the owner's.
LEMMA RemoveStep ==
  ASSUME IInv, NEW w \in Workers, WriteRemove(w)
  PROVE  IInv'
<1> DEFINE t == req[w].target
<1>1. Finish(w) /\ step[w] = "write" /\ req[w].op \in {"remove", "leave"}
  BY Zenon DEF WriteRemove, Written, Refused
<1>2. t # Owner /\ t \in Users
  <2>1. req[w] \in Requests /\ t # Owner BY <1>1, Zenon DEF IInv, Knows
  <2> QED BY <2>1, Zenon DEF Requests
<1>3. CASE UNCHANGED rowVars
  <2>1. TypeOK' BY <1>1, <1>3, FinishKeeps, Zenon DEF IInv, TypeOK, rowVars
  <2> QED BY <1>1, <1>3, <2>1, FinishKeeps, Zenon
          DEF IInv, ExactlyOneOwner, CountIsRoster, Active, rowVars
<1>4. CASE /\ active[t]
           /\ active' = [active EXCEPT ![t] = FALSE]
           /\ count' = (IF count > 0 THEN count - 1 ELSE 0)
           /\ UNCHANGED <<role, deleted>>
  <2>1. active \in [Users -> BOOLEAN] /\ count \in Nat /\ count = Cardinality(Active)
    BY Zenon DEF IInv, TypeOK, CountIsRoster
  <2>2. count > 0 /\ Cardinality({u \in Users : active'[u]}) = count - 1
    BY <1>2, <1>4, <2>1, RemoveCounts, Zenon DEF Active
  <2>3. TypeOK'
    <3>1. active' \in [Users -> BOOLEAN] BY <1>4, <2>1, Zenon
    <3>2. count' \in Nat BY <1>4, <2>1, <2>2
    <3> QED BY <1>1, <1>4, <3>1, <3>2, FinishKeeps, Zenon DEF IInv, TypeOK
  <2>4. ExactlyOneOwner'
    BY <1>2, <1>4, <2>1, MembershipAssumption, Zenon DEF IInv, ExactlyOneOwner
  <2>5. CountIsRoster' BY <1>4, <2>1, <2>2, Zenon DEF CountIsRoster, Active
  <2>6. \A u \in Users : active'[u] => role'[u] # None BY <1>4, <2>1, Zenon DEF IInv
  <2> QED BY <1>1, <2>3, <2>4, <2>5, <2>6, FinishKeeps, Zenon DEF IInv
<1> QED BY <1>3, <1>4, Zenon DEF WriteRemove, Refused

\* Members.SetRole: neither the owner's row nor the owner role.
LEMMA SetRoleStep ==
  ASSUME IInv, NEW w \in Workers, WriteSetRole(w)
  PROVE  IInv'
<1> DEFINE q == req[w]
<1>1. Finish(w) /\ step[w] = "write" /\ q.op = "setRole"
  BY Zenon DEF WriteSetRole, Written, Refused
<1>2. q.target # Owner /\ q.to # "owner" /\ q.target \in Users /\ q.to \in Roles
  <2>1. q \in Requests /\ q.target # Owner /\ q.to # "owner" BY <1>1, Zenon DEF IInv, Knows
  <2> QED BY <2>1, Zenon DEF Requests
<1>3. CASE UNCHANGED rowVars
  <2>1. TypeOK' BY <1>1, <1>3, FinishKeeps, Zenon DEF IInv, TypeOK, rowVars
  <2> QED BY <1>1, <1>3, <2>1, FinishKeeps, Zenon
          DEF IInv, ExactlyOneOwner, CountIsRoster, Active, rowVars
<1>4. CASE role' = [role EXCEPT ![q.target] = q.to] /\ UNCHANGED <<active, count, deleted>>
  <2>1. TypeOK'
    <3>1. role' \in [Users -> Roles \union {None}] BY <1>2, <1>4, Zenon DEF IInv, TypeOK
    <3> QED BY <1>1, <1>4, <3>1, FinishKeeps, Zenon DEF IInv, TypeOK
  <2>2. ExactlyOneOwner'
    BY <1>2, <1>4, MembershipAssumption, Zenon DEF IInv, TypeOK, ExactlyOneOwner
  <2>3. \A u \in Users : active'[u] => role'[u] # None
    BY <1>2, <1>4, MembershipAssumption, Zenon DEF IInv, TypeOK
  <2> QED BY <1>1, <1>4, <2>1, <2>2, <2>3, FinishKeeps, Zenon DEF IInv, CountIsRoster, Active
<1> QED BY <1>3, <1>4, Zenon DEF WriteSetRole, Refused

\* Chats.SoftDelete touches no membership row.
LEMMA DeleteChatStep ==
  ASSUME IInv, NEW w \in Workers, WriteDeleteChat(w)
  PROVE  IInv'
<1>1. Finish(w) /\ UNCHANGED <<role, active, count>> /\ deleted' \in BOOLEAN
  BY Zenon DEF WriteDeleteChat, Written, Refused, rowVars, IInv, TypeOK
<1>2. TypeOK' BY <1>1, FinishKeeps, Zenon DEF IInv, TypeOK
<1> QED BY <1>1, <1>2, FinishKeeps, Zenon DEF IInv, ExactlyOneOwner, CountIsRoster, Active

\* The inductive invariant holds in every reachable state, whatever the number
\* of users, concurrent requests, sends and faults.
THEOREM MembershipInductive == Spec => []IInv
<1>1. IInv /\ [Next]_vars => IInv'
  <2> SUFFICES ASSUME IInv, [Next]_vars PROVE IInv' BY Zenon
  <2>1. ASSUME NEW w \in Workers, Begin(w) \/ Judge(w) PROVE IInv'
    BY <2>1, BeginStep, JudgeStep, Zenon
  <2>2. ASSUME NEW w \in Workers, Write(w) PROVE IInv'
    BY <2>2, AddStep, RemoveStep, SetRoleStep, DeleteChatStep, Zenon DEF Write
  <2>3. CASE Invalidate \/ Expire
    BY <2>3, RowsUntouched, Zenon DEF Invalidate, Expire
  <2>4. ASSUME NEW u \in Users, PostCached(u) PROVE IInv'
    BY <2>4, RowsUntouched, Zenon DEF PostCached
  <2>5. ASSUME NEW p \in Posters, NEW u \in Users, PostAsk(p, u) PROVE IInv'
    BY <2>5, RowsUntouched, Zenon DEF PostAsk
  <2>6. ASSUME NEW p \in Posters, PostRead(p) \/ PostStore(p) PROVE IInv'
    BY <2>6, RowsUntouched, Zenon DEF PostRead, PostStore
  <2>7. CASE UNCHANGED vars BY <2>7, RowsUntouched, Zenon DEF vars
  <2> QED BY <2>1, <2>2, <2>3, <2>4, <2>5, <2>6, <2>7, Zenon DEF Next
<1> QED BY <1>1, MembershipInit, PTL DEF Spec

\* A chat has exactly one owner, its creator, who stays a member: the promise
\* canSetRole states, although every handler judges rows that may have changed
\* before it writes.
THEOREM OneOwner == Spec => []ExactlyOneOwner
<1>1. IInv => ExactlyOneOwner BY Zenon DEF IInv
<1> QED BY <1>1, MembershipInductive, PTL

\* chats.member_count is the number of active rows, so the member limit is
\* judged on the real size of the chat.
THEOREM CountMatchesRoster == Spec => []CountIsRoster
<1>1. IInv => CountIsRoster BY Zenon DEF IInv
<1> QED BY <1>1, MembershipInductive, PTL

\* However checks and writes interleave, the rows of the roster are sound.
THEOREM RowsAreSound == Spec => []RosterSound
<1>1. IInv => RosterSound BY Zenon DEF IInv, RosterSound
<1> QED BY <1>1, MembershipInductive, PTL

-----------------------------------------------------------------------------
\* Users who have, or had, a row.
HadRow == {u \in Users : role[u] # None}

\* Who may be accepted: the cached roster and the rosters being read name users
\* with a row, a send that asked is of a user who could post then, and everybody
\* who can post now is on record.
PosterInv ==
  /\ cache # None => cache \subseteq HadRow
  /\ \A p \in Posters : /\ roster[p] # None => roster[p] \subseteq HadRow /\ sender[p] # None
                        /\ sender[p] # None => sender[p] \in couldPost
  /\ {u \in Users : Permitted(u)} \subseteq couldPost
  /\ posted \subseteq [user : HadRow, asked : {FALSE}]
  /\ sender \in [Posters -> Users \union {None}] /\ DOMAIN roster = Posters

\* Nobody has posted, and nothing is cached.
LEMMA PosterInit == Init => PosterInv
BY Zenon DEF Init, PosterInv

\* A row is never deleted: a removed member keeps one.
LEMMA RowsStay ==
  ASSUME IInv, NEW w \in Workers, Write(w)
  PROVE  HadRow \subseteq HadRow'
<1>1. None \notin Roles BY MembershipAssumption, Zenon
<1>2. CASE UNCHANGED role
  BY <1>2, Zenon DEF HadRow
<1>3. CASE role' = [role EXCEPT ![req[w].target] = req[w].to] /\ step[w] = "write"
  <2>1. req[w] \in Requests BY <1>3, Zenon DEF IInv, Knows
  <2>2. req[w].to \in Roles BY <2>1, Zenon DEF Requests
  <2> QED BY <1>1, <1>3, <2>2, Zenon DEF HadRow, IInv, TypeOK
<1> QED
  BY <1>2, <1>3, Zenon DEF Write, WriteAdd, WriteRemove, WriteSetRole, WriteDeleteChat, Refused, rowVars

\* A write records whoever can post after it.
LEMMA PosterWrites ==
  ASSUME IInv, PosterInv, NEW w \in Workers, Write(w)
  PROVE  PosterInv'
<1>1. HadRow \subseteq HadRow' BY RowsStay, Zenon
<1>2. UNCHANGED <<cache, sender, roster, posted>>
  BY Zenon DEF Write, WriteAdd, WriteRemove, WriteSetRole, WriteDeleteChat, Refused, Written, sendVars
<1>3. couldPost \subseteq couldPost' /\ {u \in Users : Permitted(u)'} \subseteq couldPost'
  <2>1. CASE Written(w)
    BY <2>1, Zenon DEF Written, Permitted
  <2>2. CASE Refused(w)
    BY <2>2, Zenon DEF Refused, rowVars, Permitted, CanPost, PosterInv
  <2> QED
    BY <2>1, <2>2, Zenon DEF Write, WriteAdd, WriteRemove, WriteSetRole, WriteDeleteChat
<1> QED BY <1>1, <1>2, <1>3, Zenon DEF PosterInv

\* A send, the steps of the cache, and requests before their write.
LEMMA PosterSteps ==
  ASSUME IInv, PosterInv, UNCHANGED rowVars, couldPost' = couldPost,
         \/ UNCHANGED <<cache, sendVars>>
         \/ Invalidate \/ Expire
         \/ \E u \in Users : PostCached(u)
         \/ \E p \in Posters : PostRead(p) \/ PostStore(p) \/ \E u \in Users : PostAsk(p, u)
  PROVE  PosterInv'
<1>1. HadRow' = HadRow /\ \A u \in Users : Permitted(u)' = Permitted(u)
  BY Zenon DEF rowVars, HadRow, Permitted, CanPost
<1> USE DEF PosterInv, sendVars
<1>2. CASE UNCHANGED <<cache, sendVars>>
  BY <1>1, <1>2, Zenon
<1>3. CASE Invalidate \/ Expire
  BY <1>1, <1>3, Zenon DEF Invalidate, Expire
<1>4. ASSUME NEW u \in Users, PostCached(u) PROVE PosterInv'
  <2>1. u \in HadRow /\ posted' \subseteq posted \union {[user |-> u, asked |-> FALSE]}
    BY <1>4, Zenon DEF PostCached, Accept
  <2>2. [user |-> u, asked |-> FALSE] \in [user : HadRow, asked : {FALSE}]
    BY <2>1, Zenon
  <2>3. posted' \subseteq [user : HadRow, asked : {FALSE}]
    BY <2>1, <2>2, Zenon
  <2> QED
    BY <1>1, <1>4, <2>3, Zenon DEF PostCached
<1>5. ASSUME NEW p \in Posters, PostRead(p) PROVE PosterInv'
  <2>1. Active \subseteq HadRow
    BY Zenon DEF Active, HadRow, IInv
  <2> QED
    BY <1>1, <1>5, <2>1, Zenon DEF PostRead
<1>6. ASSUME NEW p \in Posters, PostStore(p) PROVE PosterInv'
  <2>1. posted' = posted
    BY <1>6, Zenon DEF PostStore, Accept
  <2>2. cache' # None => cache' \subseteq HadRow
    BY <1>6, Zenon DEF PostStore
  <2> QED
    BY <1>1, <1>6, <2>1, <2>2, Zenon DEF PostStore
<1>7. ASSUME NEW p \in Posters, NEW u \in Users, PostAsk(p, u) PROVE PosterInv'
  BY <1>1, <1>7, Zenon DEF PostAsk
<1> QED
  BY <1>2, <1>3, <1>4, <1>5, <1>6, <1>7, Zenon

\* authorisedRecipients: whoever asked CanPost could post at that time, and whoever
\* the cached roster let through had been a member, for any users, requests,
\* sends, expiries and failed cache commands.
THEOREM PostersAreJustified == Spec => []PostersJustified
<1>1. IInv /\ PosterInv /\ [Next]_vars => PosterInv'
  <2> SUFFICES ASSUME IInv, PosterInv, [Next]_vars PROVE PosterInv' BY Zenon
  <2>1. ASSUME NEW w \in Workers, Write(w) PROVE PosterInv'
    BY <2>1, PosterWrites, Zenon
  <2>2. ASSUME NEW w \in Workers, Begin(w) \/ Judge(w) PROVE PosterInv'
    BY <2>2, PosterSteps, Zenon DEF Begin, Judge
  <2>3. CASE Invalidate \/ Expire
    BY <2>3, PosterSteps, Zenon DEF Invalidate, Expire
  <2>4. ASSUME NEW u \in Users, PostCached(u) PROVE PosterInv'
    BY <2>4, PosterSteps, Zenon DEF PostCached
  <2>5. ASSUME NEW p \in Posters, PostRead(p) \/ PostStore(p) \/ \E u \in Users : PostAsk(p, u)
        PROVE  PosterInv'
    BY <2>5, PosterSteps, Zenon DEF PostRead, PostStore, PostAsk
  <2>6. CASE UNCHANGED vars
    BY <2>6, PosterSteps, Zenon DEF vars
  <2> QED BY <2>1, <2>2, <2>3, <2>4, <2>5, <2>6, Zenon DEF Next
<1>2. PosterInv => PostersJustified
  BY Zenon DEF PosterInv, PostersJustified, HadRow
<1> QED
  BY <1>1, <1>2, PosterInit, MembershipInductive, PTL DEF Spec

(***************************************************************************)
(* KeyRotation: a token is refused only around a rotation.                 *)
(***************************************************************************)
KeySetShape == [keys : SUBSET KeyIds, seen : SUBSET KeyIds]
SessionShape == [access : KeyIds \union {0}, refresh : KeyIds, seen : SUBSET KeyIds,
                 state : {"open", "closed"}]

\* The keys of a verifier are some that were published when it fetched them, and
\* those of the session some that were published when it was issued.
KeyInv ==
  /\ secret \in KeyIds /\ podKey \in [AuthPods -> KeyIds] /\ keyFaults \in 0..MaxKeyFaults
  /\ keySet \in [Verifiers -> KeySetShape] /\ session \in SessionShape
  /\ verdict \in [ok : BOOLEAN, explained : BOOLEAN]
  /\ \A v \in Verifiers : keySet[v].keys # {} /\ keySet[v].keys \subseteq keySet[v].seen
  /\ session.access \in session.seen \union {0} /\ session.refresh \in session.seen
  /\ verdict.ok \/ verdict.explained

\* Two keys that were published make a rotation.
LEMMA TwoKeysExplain ==
  ASSUME NEW S \in SUBSET KeyIds, NEW T \in SUBSET KeyIds, NEW a \in S, NEW b \in T, a # b
  PROVE  Explained(S, T)
<1>1. IsFiniteSet(KeyIds)
  BY KeyAssumption, FS_Interval DEF KeyIds
<1>2. IsFiniteSet(S \union T) /\ Cardinality(S \union T) \in Nat
  BY <1>1, FS_Subset, FS_CardinalityType, Zenon
<1>3. Cardinality(S \union T) # 0
  BY <1>2, FS_EmptySet, Zenon
<1>4. Cardinality(S \union T) # 1
  BY <1>2, FS_Singleton
<1> QED
  BY <1>2, <1>3, <1>4 DEF Explained

\* A rotation that passed in between is one.
LEMMA KeyRefusalsExplained ==
  ASSUME NEW then \in SUBSET KeyIds, NEW now \in SUBSET KeyIds, NEW token \in then,
         NEW keys \in SUBSET now, keys # {}, token \notin keys
  PROVE  Explained(then, now)
<1>1. PICK k \in keys : k # token
  BY Zenon
<1> QED
  BY <1>1, TwoKeysExplain, Zenon

\* A verdict that is favourable or explained keeps the invariant.
LEMMA VerdictKept ==
  ASSUME NEW ok \in BOOLEAN, NEW why \in BOOLEAN, ok \/ why,
         verdict' = [ok |-> ok, explained |-> why]
  PROVE  verdict' \in [ok : BOOLEAN, explained : BOOLEAN] /\ (verdict'.ok \/ verdict'.explained)
BY Zenon

\* The keys the issuing pods publish are key ids.
LEMMA PublishedKeys ==
  ASSUME KeyInv, NEW p \in AuthPods
  PROVE  /\ Published \in SUBSET KeyIds /\ podKey[p] \in Published
         /\ NewVerifier(p) \in KeySetShape /\ Issue(p) \in SessionShape
BY DEF KeyInv, Published, NewVerifier, PublicJWKS, Issue, KeySetShape, SessionShape

\* Every pod and every verifier starts with the first key.
LEMMA KeyInitInv == KeyInit => KeyInv
BY KeyAssumption DEF KeyInit, KeyInv, KeyIds, NoVerdict, KeySetShape, SessionShape

\* The environment: a new key, a rolled pod, an expired token.
LEMMA KeyEnvironmentInv ==
  ASSUME KeyInv, NewSecret \/ AccessExpires \/ \E p \in AuthPods : NewIssuer(p)
  PROVE  KeyInv'
<1>1. CASE NewSecret
  BY <1>1, KeyAssumption DEF KeyInv, NewSecret, KeyIds
<1>2. CASE AccessExpires
  BY <1>2, Zenon DEF KeyInv, AccessExpires, SessionShape
<1>3. CASE \E p \in AuthPods : NewIssuer(p)
  BY <1>3, Zenon DEF KeyInv, NewIssuer
<1> QED
  BY <1>1, <1>2, <1>3, Zenon

\* A fetch brings the key of the pod that answers, which is published.
LEMMA RefreshInv ==
  ASSUME KeyInv, NEW v \in Verifiers, NEW p \in AuthPods, refresh(v, p)
  PROVE  KeyInv'
<1>1. CASE UNCHANGED keySet
  BY <1>1, KeyAssumption DEF KeyInv, refresh
<1>2. CASE keySet' = [keySet EXCEPT ![v] = NewVerifier(p)] /\ UNCHANGED keyFaults
  <2>1. keySet' \in [Verifiers -> KeySetShape]
    BY <1>2, PublishedKeys, Zenon DEF KeyInv
  <2>2. \A w \in Verifiers : keySet'[w].keys # {} /\ keySet'[w].keys \subseteq keySet'[w].seen
    BY <1>2, PublishedKeys, Zenon DEF KeyInv, NewVerifier, PublicJWKS
  <2> QED
    BY <1>2, <2>1, <2>2, Zenon DEF KeyInv, refresh
<1> QED
  BY <1>1, <1>2, Zenon DEF refresh

\* The access token was signed with a published key, and the verifier has some
\* published key: when they differ there are two, or the published ones changed.
LEMMA MiddlewareInv ==
  ASSUME KeyInv, NEW v \in Verifiers, Middleware(v)
  PROVE  KeyInv'
<1>1. Verify(keySet[v].keys, session.access) \/ Explained(session.seen, keySet[v].seen)
  BY KeyRefusalsExplained DEF KeyInv, Middleware, Verify, SessionShape, KeySetShape
<1>2. /\ verdict' \in [ok : BOOLEAN, explained : BOOLEAN]
      /\ verdict'.ok \/ verdict'.explained
  <2>1. /\ Verify(keySet[v].keys, session.access) \in BOOLEAN
        /\ Explained(session.seen, keySet[v].seen) \in BOOLEAN
    BY DEF Verify, Explained
  <2> QED
    BY <1>1, <2>1, VerdictKept, Zenon DEF Middleware
<1> QED
  BY <1>2, Zenon DEF KeyInv, Middleware

\* The same for a refresh token and the key of the pod it is shown to.
LEMMA HandleRefreshInv ==
  ASSUME KeyInv, NEW p \in AuthPods, handleRefresh(p)
  PROVE  KeyInv'
<1> DEFINE ok == Verify(PublicJWKS(p), session.refresh)
<1>1. Published \in SUBSET KeyIds /\ podKey[p] \in Published /\ Issue(p) \in SessionShape
  BY PublishedKeys, Zenon
<1>2. ok \/ Explained(session.seen, Published)
  <2>1. /\ session.seen \in SUBSET KeyIds /\ session.refresh \in session.seen
        /\ {podKey[p]} \in SUBSET Published /\ {podKey[p]} # {}
    BY <1>1, Zenon DEF KeyInv, SessionShape
  <2>2. session.refresh \notin {podKey[p]} => Explained(session.seen, Published)
    BY <1>1, <2>1, KeyRefusalsExplained, Zenon
  <2> QED
    BY <2>2, Zenon DEF Verify, PublicJWKS
<1>3. /\ verdict' = [ok |-> ok, explained |-> Explained(session.seen, Published)]
      /\ session' = IF ok THEN Issue(p) ELSE [session EXCEPT !.state = "closed"]
      /\ UNCHANGED <<secret, podKey, keySet, keyFaults>>
  BY Zenon DEF handleRefresh
<1>4. /\ verdict' \in [ok : BOOLEAN, explained : BOOLEAN]
      /\ verdict'.ok \/ verdict'.explained
  <2>1. ok \in BOOLEAN /\ Explained(session.seen, Published) \in BOOLEAN
    BY DEF Verify, Explained
  <2> QED
    BY <1>2, <1>3, <2>1, VerdictKept, Zenon
<1>5. /\ session' \in SessionShape /\ session'.refresh \in session'.seen
      /\ session'.access \in session'.seen \union {0}
  BY <1>1, <1>3, Zenon DEF KeyInv, SessionShape, Issue
<1> QED
  BY <1>3, <1>4, <1>5, Zenon DEF KeyInv

\* A fresh sign-in begins a session of its own.
LEMMA SignInAgainInv ==
  ASSUME KeyInv, NEW p \in AuthPods, SignInAgain(p)
  PROVE  KeyInv'
<1>1. session' \in SessionShape /\ podKey[p] \in Published
  BY PublishedKeys, Zenon DEF SignInAgain
<1> QED
  BY <1>1, Zenon DEF KeyInv, SignInAgain, Issue

\* What verifiers and sessions hold was published, for any pods, services,
\* rotations and failed fetches.
THEOREM KeyInductive == KeySpec => []KeyInv
<1>1. ASSUME KeyInv, [KeyNext]_keyVars PROVE KeyInv'
  <2>1. CASE UNCHANGED keyVars
    BY <1>1, <2>1, Zenon DEF keyVars, KeyInv
  <2>2. CASE KeyNext
    BY <1>1, <2>2, KeyEnvironmentInv, RefreshInv, MiddlewareInv, HandleRefreshInv,
       SignInAgainInv DEF KeyNext, Refreshes
  <2> QED
    BY <1>1, <2>1, <2>2, Zenon
<1> QED
  BY <1>1, KeyInitInv, PTL DEF KeySpec

\* RefreshingVerifier: a live token is refused only when a rotation was under way
\* at one end or passed in between, for any number of pods, services and failed
\* fetches.
THEOREM OnlyRotationsRefuse == KeySpec => []RefusedOnlyByRotation
<1>1. KeyInv => RefusedOnlyByRotation
  BY Zenon DEF KeyInv, RefusedOnlyByRotation, KeyTypeOK, KeySetShape, SessionShape
<1> QED
  BY <1>1, KeyInductive, PTL


(***************************************************************************)
(* MediaAccess.                                                            *)
(***************************************************************************)
Ask == [pc : {"idle", "binding", "record", "member", "url", "refused"},
        room : Rooms \union {"none"}, failed : BOOLEAN,
        bindings : SUBSET (Bindings \union {Unbound}), ever : SUBSET Rooms, always : SUBSET Rooms]

\* What a request has noted covers what is so now, until it is answered; what it has read was
\* so at some moment of it.
AskRight(p) ==
  /\ Asking(p) => /\ binding \in ask[p].bindings
                  /\ inside[p] \subseteq ask[p].ever /\ ask[p].always \subseteq inside[p]
  /\ ask[p].always \subseteq ask[p].ever
  /\ ask[p].pc = "record" => Unbound \in ask[p].bindings
  /\ ask[p].pc = "member" => \E b \in ask[p].bindings \ {Unbound} : b.room = ask[p].room /\ b.by # p

AccessInv ==
  /\ AccessTypeOK /\ UrlsJustified /\ RefusalsJustified
  /\ ask \in [Persons -> Ask]
  /\ \A p \in Persons : AskRight(p)

\* Nothing is bound and nobody asks.
LEMMA AccessInitInv == AccessInit => AccessInv
<1> SUFFICES ASSUME AccessInit PROVE AccessInv
  BY Zenon
<1>1. NoAsk \in Ask /\ NoAsk.pc = "idle" /\ NoAsk.always = {} /\ NoAsk.ever = {}
  BY DEF NoAsk, Ask
<1>2. \A p \in Persons : ask[p] = NoAsk
  BY Zenon DEF AccessInit
<1>3. AccessTypeOK
  BY <1>1, <1>2, AccessAssumption DEF AccessInit, AccessTypeOK
<1>4. ask \in [Persons -> Ask]
  BY <1>1 DEF AccessInit
<1>5. UrlsJustified /\ RefusalsJustified /\ \A p \in Persons : AskRight(p)
  BY <1>1, <1>2 DEF UrlsJustified, RefusalsJustified, AskRight, Asking
<1> QED
  BY <1>3, <1>4, <1>5, Zenon DEF AccessInv

\* Unbound names no room and nobody.
LEMMA UnboundApart ==
  /\ Unbound.by = "none" /\ Unbound.room = "none"
  /\ \A p \in Persons : "none" # p
  /\ Unbound \notin Bindings
BY AccessAssumption DEF Unbound, Persons, Bindings

\* A step of one request: it keeps what it noted, and shows its answer is justified.
LEMMA AskStep ==
  ASSUME AccessInv, NEW p \in Persons, Asking(p),
         NEW a \in Ask, ask' = [ask EXCEPT ![p] = a],
         a.bindings = ask[p].bindings, a.ever = ask[p].ever, a.always = ask[p].always,
         accessFaults' \in 0..MaxAccessFaults,
         UNCHANGED <<inside, binding, ownerKey, shares, moves>>,
         a.pc = "record" => Unbound \in a.bindings,
         a.pc = "member" => \E b \in a.bindings \ {Unbound} : b.room = a.room /\ b.by # p,
         a.pc = "url" => \/ \E b \in a.bindings \ {Unbound} : b.by = p \/ b.room \in a.ever
                         \/ p = "uploader" /\ Unbound \in a.bindings,
         a.pc = "refused" /\ ~a.failed => \E b \in a.bindings : b.by # p /\ b.room \notin a.always
  PROVE  AccessInv'
<1>1. ask \in [Persons -> Ask]
  BY Zenon DEF AccessInv
<1>2. /\ ask' \in [Persons -> Ask] /\ ask'[p] = a
      /\ \A q \in Persons : q # p => ask'[q] = ask[q]
  BY <1>1
<1>3. a.pc \in {"idle", "binding", "record", "member", "url", "refused"}
  BY DEF Ask
<1>4. a.always \subseteq a.ever
  BY Zenon DEF AccessInv, AskRight
<1>5. AccessTypeOK'
  <2>1. \A q \in Persons :
          /\ ask'[q].pc \in {"idle", "binding", "record", "member", "url", "refused"}
          /\ ask'[q].always \subseteq ask'[q].ever
    BY <1>2, <1>3, <1>4, Zenon DEF AccessInv, AccessTypeOK
  <2> QED
    BY <2>1, Zenon DEF AccessInv, AccessTypeOK
<1>6. AskRight(p)'
  BY <1>2, <1>4, Zenon DEF AccessInv, AskRight, Asking
<1>7. ASSUME NEW q \in Persons, q # p PROVE AskRight(q)'
  <2>1. ask'[q] = ask[q] /\ AskRight(q)
    BY <1>2, <1>7, Zenon DEF AccessInv
  <2> QED
    BY <2>1, Zenon DEF AskRight, Asking
<1>8. UrlsJustified'
  <2>1. \A q \in Persons : q # p /\ ask'[q].pc = "url" =>
          \/ \E b \in ask'[q].bindings \ {Unbound} : b.by = q \/ b.room \in ask'[q].ever
          \/ q = "uploader" /\ Unbound \in ask'[q].bindings
    BY <1>2, Zenon DEF AccessInv, UrlsJustified
  <2> QED
    BY <2>1, <1>2, Zenon DEF UrlsJustified
<1>9. RefusalsJustified'
  <2>1. \A q \in Persons : q # p /\ ask'[q].pc = "refused" /\ ~ask'[q].failed =>
          \E b \in ask'[q].bindings : b.by # q /\ b.room \notin ask'[q].always
    BY <1>2, Zenon DEF AccessInv, RefusalsJustified
  <2> QED
    BY <2>1, <1>2, Zenon DEF RefusalsJustified
<1> QED
  BY <1>2, <1>5, <1>6, <1>7, <1>8, <1>9, Zenon DEF AccessInv

\* A lookup that fails ends in a refusal that says so.
LEMMA FailedAskInv ==
  ASSUME AccessInv, NEW p \in Persons, Asking(p), AccessFault, FailedAsk(p),
         UNCHANGED <<inside, binding, ownerKey, shares, moves>>
  PROVE  AccessInv'
<1> DEFINE a == [ask[p] EXCEPT !.pc = "refused", !.failed = TRUE]
<1>1. ask \in [Persons -> Ask] /\ ask[p] \in Ask
  BY Zenon DEF AccessInv
<1>2. /\ a \in Ask /\ a.pc = "refused" /\ a.failed /\ a.bindings = ask[p].bindings
      /\ a.ever = ask[p].ever /\ a.always = ask[p].always
  BY <1>1 DEF Ask
<1>3. ask' = [ask EXCEPT ![p] = a]
  BY <1>1 DEF FailedAsk
<1>4. accessFaults' \in 0..MaxAccessFaults
  BY AccessAssumption DEF AccessFault, AccessInv, AccessTypeOK
<1>5. a.pc # "record" /\ a.pc # "member" /\ a.pc # "url"
  BY <1>2
<1> HIDE DEF a
<1> QED
  BY <1>2, <1>3, <1>4, <1>5, AskStep, Zenon

\* A lookup that answers moves the request on.
LEMMA AnsweredShape ==
  ASSUME AccessInv, NEW p \in Persons, NEW answer \in {"record", "url", "refused"},
         Answered(p, answer)
  PROVE  \E a \in Ask : /\ ask' = [ask EXCEPT ![p] = a] /\ a.pc = answer
                        /\ a.bindings = ask[p].bindings /\ a.ever = ask[p].ever
                        /\ a.always = ask[p].always /\ a.room = ask[p].room
<1> DEFINE a == [ask[p] EXCEPT !.pc = answer]
<1>1. ask \in [Persons -> Ask] /\ ask[p] \in Ask
  BY Zenon DEF AccessInv
<1>2. /\ a \in Ask /\ a.pc = answer /\ a.bindings = ask[p].bindings
      /\ a.ever = ask[p].ever /\ a.always = ask[p].always /\ a.room = ask[p].room
  BY <1>1 DEF Ask
<1>3. ask' = [ask EXCEPT ![p] = a]
  BY <1>1 DEF Answered
<1> HIDE DEF a
<1> QED
  BY <1>2, <1>3, Zenon

\* MediaACL.ChatFor.
LEMMA ChatForInv == ASSUME AccessInv, NEW p \in Persons, ChatFor(p) PROVE AccessInv'
<1>1. /\ Asking(p) /\ ask[p].pc = "binding"
      /\ UNCHANGED <<inside, binding, ownerKey, shares, moves>>
  BY Zenon DEF ChatFor, Asking
<1>2. binding \in ask[p].bindings /\ binding \in Bindings \union {Unbound}
  BY <1>1, Zenon DEF AccessInv, AskRight, AccessTypeOK
<1>3. CASE AccessFault /\ FailedAsk(p)
  BY <1>1, <1>3, FailedAskInv, Zenon
<1>4. ASSUME NoAccessFault PROVE accessFaults' \in 0..MaxAccessFaults
  BY <1>4, Zenon DEF NoAccessFault, AccessInv, AccessTypeOK
<1>5. CASE NoAccessFault /\ binding = Unbound /\ Answered(p, "record")
  <2>1. PICK a \in Ask : /\ ask' = [ask EXCEPT ![p] = a] /\ a.pc = "record"
                         /\ a.bindings = ask[p].bindings /\ a.ever = ask[p].ever
                         /\ a.always = ask[p].always
    BY <1>5, AnsweredShape, Zenon
  <2>2. a.pc # "member" /\ a.pc # "url" /\ a.pc # "refused"
    BY <2>1
  <2> QED
    BY <1>1, <1>2, <1>4, <1>5, <2>1, <2>2, AskStep, Zenon
<1>6. CASE NoAccessFault /\ binding # Unbound /\ binding.by = p /\ Answered(p, "url")
  <2>1. PICK a \in Ask : /\ ask' = [ask EXCEPT ![p] = a] /\ a.pc = "url"
                         /\ a.bindings = ask[p].bindings /\ a.ever = ask[p].ever
                         /\ a.always = ask[p].always
    BY <1>6, AnsweredShape, Zenon
  <2>2. a.pc # "member" /\ a.pc # "record" /\ a.pc # "refused"
    BY <2>1
  <2>3. \E b \in a.bindings \ {Unbound} : b.by = p
    BY <1>2, <1>6, <2>1, Zenon
  <2> QED
    BY <1>1, <1>4, <1>6, <2>1, <2>2, <2>3, AskStep, Zenon
<1>7. CASE /\ NoAccessFault /\ binding # Unbound /\ binding.by # p
           /\ ask' = [ask EXCEPT ![p].pc = "member", ![p].room = binding.room]
  <2> DEFINE a == [ask[p] EXCEPT !.pc = "member", !.room = binding.room]
  <2>1. ask \in [Persons -> Ask] /\ ask[p] \in Ask
    BY Zenon DEF AccessInv
  <2>2. binding.room \in Rooms
    BY <1>2, <1>7 DEF Bindings
  <2>3. /\ a \in Ask /\ a.pc = "member" /\ a.bindings = ask[p].bindings /\ a.room = binding.room
        /\ a.ever = ask[p].ever /\ a.always = ask[p].always
    BY <2>1, <2>2 DEF Ask
  <2>4. ask' = [ask EXCEPT ![p] = a]
    BY <1>7, <2>1
  <2>5. a.pc # "record" /\ a.pc # "url" /\ a.pc # "refused"
    BY <2>3
  <2> HIDE DEF a
  <2>6. \E b \in a.bindings \ {Unbound} : b.room = a.room /\ b.by # p
    BY <1>2, <1>7, <2>3, Zenon
  <2> QED
    BY <1>1, <1>4, <1>7, <2>3, <2>4, <2>5, <2>6, AskStep, Zenon
<1> QED
  BY <1>3, <1>5, <1>6, <1>7, Zenon DEF ChatFor

\* ownsPendingUpload.
LEMMA OwnsInv == ASSUME AccessInv, NEW p \in Persons, ownsPendingUpload(p) PROVE AccessInv'
<1>1. /\ Asking(p) /\ ask[p].pc = "record"
      /\ UNCHANGED <<inside, binding, ownerKey, shares, moves>>
  BY Zenon DEF ownsPendingUpload, Asking
<1>2. Unbound \in ask[p].bindings
  BY <1>1, Zenon DEF AccessInv, AskRight
<1>3. CASE AccessFault /\ FailedAsk(p)
  BY <1>1, <1>3, FailedAskInv, Zenon
<1>4. CASE NoAccessFault /\ Answered(p, IF ownerKey /\ p = "uploader" THEN "url" ELSE "refused")
  <2>1. accessFaults' \in 0..MaxAccessFaults
    BY <1>4, Zenon DEF NoAccessFault, AccessInv, AccessTypeOK
  <2>2. PICK answer \in {"record", "url", "refused"} :
          /\ Answered(p, answer) /\ answer # "record" /\ (answer = "url" => p = "uploader")
    BY <1>4
  <2>7. answer \in {"record", "url", "refused"} /\ Answered(p, answer)
    BY <2>2, Zenon
  <2>3. PICK a \in Ask : /\ ask' = [ask EXCEPT ![p] = a] /\ a.pc = answer
                         /\ a.bindings = ask[p].bindings /\ a.ever = ask[p].ever
                         /\ a.always = ask[p].always /\ a.room = ask[p].room
    BY <2>7, AnsweredShape
  <2>4. a.pc # "record" /\ a.pc # "member" /\ (a.pc = "url" => p = "uploader")
    BY <2>2, <2>3
  <2>5. Unbound.by # p /\ Unbound.room \notin a.always
    <3>1. a.always \subseteq Rooms
      BY DEF Ask
    <3> QED
      BY <3>1, UnboundApart, AccessAssumption, Zenon
  <2>6. /\ a.pc = "url" => p = "uploader" /\ Unbound \in a.bindings
        /\ \E b \in a.bindings : b.by # p /\ b.room \notin a.always
    BY <1>2, <2>3, <2>4, <2>5, Zenon
  <2> QED
    BY <1>1, <2>1, <2>3, <2>4, <2>6, AskStep, Zenon
<1> QED
  BY <1>3, <1>4, Zenon DEF ownsPendingUpload

\* Members.Get on the room read before.
LEMMA GetMemberInv == ASSUME AccessInv, NEW p \in Persons, GetMember(p) PROVE AccessInv'
<1>1. /\ Asking(p) /\ ask[p].pc = "member"
      /\ UNCHANGED <<inside, binding, ownerKey, shares, moves>>
  BY Zenon DEF GetMember, Asking
<1>2. /\ inside[p] \subseteq ask[p].ever /\ ask[p].always \subseteq inside[p]
      /\ \E b \in ask[p].bindings \ {Unbound} : b.room = ask[p].room /\ b.by # p
  BY <1>1, Zenon DEF AccessInv, AskRight
<1>3. CASE AccessFault /\ FailedAsk(p)
  BY <1>1, <1>3, FailedAskInv, Zenon
<1>4. CASE NoAccessFault /\ Answered(p, IF ask[p].room \in inside[p] THEN "url" ELSE "refused")
  <2>1. accessFaults' \in 0..MaxAccessFaults
    BY <1>4, Zenon DEF NoAccessFault, AccessInv, AccessTypeOK
  <2>2. PICK answer \in {"record", "url", "refused"} :
          /\ Answered(p, answer) /\ answer # "record"
          /\ answer = "url" => ask[p].room \in inside[p]
          /\ answer = "refused" => ask[p].room \notin inside[p]
    BY <1>4
  <2>7. answer \in {"record", "url", "refused"} /\ Answered(p, answer)
    BY <2>2, Zenon
  <2>3. PICK a \in Ask : /\ ask' = [ask EXCEPT ![p] = a] /\ a.pc = answer
                         /\ a.bindings = ask[p].bindings /\ a.ever = ask[p].ever
                         /\ a.always = ask[p].always /\ a.room = ask[p].room
    BY <2>7, AnsweredShape
  <2>4. a.pc # "record" /\ a.pc # "member"
    BY <2>2, <2>3
  <2>5. a.pc = "url" => \E b \in a.bindings \ {Unbound} : b.by = p \/ b.room \in a.ever
    BY <1>2, <2>2, <2>3, Zenon
  <2>6. a.pc = "refused" => \E b \in a.bindings : b.by # p /\ b.room \notin a.always
    BY <1>2, <2>2, <2>3, Zenon
  <2> QED
    BY <1>1, <2>1, <2>3, <2>4, <2>5, <2>6, AskStep, Zenon
<1> QED
  BY <1>3, <1>4, Zenon DEF GetMember

\* A request begins.
LEMMA AskForUrlInv == ASSUME AccessInv, NEW p \in Persons, AskForUrl(p) PROVE AccessInv'
<1> DEFINE a == [NoAsk EXCEPT !.pc = "binding", !.bindings = {binding}, !.ever = inside[p],
                              !.always = inside[p]]
<1>1. /\ ask \in [Persons -> Ask] /\ inside \in [Persons -> SUBSET Rooms]
      /\ binding \in Bindings \union {Unbound}
  BY Zenon DEF AccessInv, AccessTypeOK
<1>2. /\ a \in Ask /\ a.pc = "binding" /\ a.bindings = {binding}
      /\ a.ever = inside[p] /\ a.always = inside[p]
  BY <1>1 DEF Ask, NoAsk
<1>3. /\ ask' = [ask EXCEPT ![p] = a]
      /\ UNCHANGED <<inside, binding, ownerKey, shares, moves, accessFaults>>
  BY Zenon DEF AskForUrl
<1> HIDE DEF a
<1>4. /\ ask' \in [Persons -> Ask] /\ ask'[p] = a
      /\ \A q \in Persons : q # p => ask'[q] = ask[q]
  BY <1>1, <1>2, <1>3
<1>5. a.pc # "record" /\ a.pc # "member" /\ a.pc # "url" /\ a.pc # "refused"
  BY <1>2
<1>6. AccessTypeOK'
  <2>1. \A q \in Persons :
          /\ ask'[q].pc \in {"idle", "binding", "record", "member", "url", "refused"}
          /\ ask'[q].always \subseteq ask'[q].ever
    BY <1>2, <1>4, Zenon DEF AccessInv, AccessTypeOK
  <2> QED
    BY <2>1, <1>3, Zenon DEF AccessInv, AccessTypeOK
<1>7. AskRight(p)'
  BY <1>2, <1>3, <1>4, <1>5 DEF AskRight, Asking
<1>8. ASSUME NEW q \in Persons, q # p PROVE AskRight(q)'
  <2>1. ask'[q] = ask[q] /\ AskRight(q)
    BY <1>4, <1>8, Zenon DEF AccessInv
  <2> QED
    BY <2>1, <1>3, Zenon DEF AskRight, Asking
<1>9. UrlsJustified'
  BY <1>4, <1>5, Zenon DEF AccessInv, UrlsJustified
<1>10. RefusalsJustified'
  BY <1>4, <1>5, Zenon DEF AccessInv, RefusalsJustified
<1> QED
  BY <1>4, <1>6, <1>7, <1>8, <1>9, <1>10, Zenon DEF AccessInv

\* What others do during a request widens what it has noted, and leaves answered
\* requests alone.
LEMMA OthersStep ==
  ASSUME AccessInv, ask' \in [Persons -> Ask],
         \A q \in Persons :
           /\ ~Asking(q) => ask'[q] = ask[q]
           /\ Asking(q) => /\ ask'[q].pc = ask[q].pc /\ ask'[q].room = ask[q].room
                          /\ ask[q].bindings \subseteq ask'[q].bindings
                          /\ ask[q].ever \subseteq ask'[q].ever
                          /\ ask'[q].always \subseteq ask[q].always
                          /\ binding' \in ask'[q].bindings
                          /\ inside'[q] \subseteq ask'[q].ever /\ ask'[q].always \subseteq inside'[q],
         inside' \in [Persons -> SUBSET Rooms], binding' \in Bindings \union {Unbound},
         ownerKey' \in BOOLEAN, shares' \in 0..MaxShares, moves' \in 0..MaxMoves,
         UNCHANGED accessFaults
  PROVE  AccessInv'
<1>1. \A q \in Persons : ask'[q].pc = ask[q].pc /\ ask'[q].always \subseteq ask'[q].ever
  BY Zenon DEF AccessInv, AskRight
<1>2. AccessTypeOK'
  <2>1. \A q \in Persons :
          /\ ask'[q].pc \in {"idle", "binding", "record", "member", "url", "refused"}
          /\ ask'[q].always \subseteq ask'[q].ever
    BY <1>1, Zenon DEF AccessInv, AccessTypeOK
  <2> QED
    BY <2>1, Zenon DEF AccessInv, AccessTypeOK
<1>3. ASSUME NEW q \in Persons PROVE AskRight(q)'
  <2>1. AskRight(q) /\ (Asking(q)' <=> Asking(q))
    BY <1>1, Zenon DEF AccessInv, Asking
  <2>2. CASE ~Asking(q)
    <3>1. ask'[q] = ask[q]
      BY <2>2, Zenon
    <3>2. ask[q].pc # "record" /\ ask[q].pc # "member"
      BY <2>2, Zenon DEF Asking
    <3> QED
      BY <3>1, <3>2, <2>1, <2>2, Zenon DEF AskRight
  <2>3. CASE Asking(q)
    <3>1. ask'[q].pc = "record" => Unbound \in ask'[q].bindings
      BY <2>1, <2>3, Zenon DEF AskRight
    <3>2. ask'[q].pc = "member" =>
            \E b \in ask'[q].bindings \ {Unbound} : b.room = ask'[q].room /\ b.by # q
      BY <2>1, <2>3, Zenon DEF AskRight
    <3> QED
      BY <3>1, <3>2, <1>1, <2>1, <2>3, Zenon DEF AskRight
  <2> QED
    BY <2>2, <2>3, Zenon
<1>4. \A q \in Persons : ask'[q].pc \in {"url", "refused"} => ask'[q] = ask[q]
  BY <1>1 DEF Asking
<1>5. UrlsJustified'
  BY <1>4, Zenon DEF AccessInv, UrlsJustified
<1>6. RefusalsJustified'
  BY <1>4, Zenon DEF AccessInv, RefusalsJustified
<1> QED
  BY <1>2, <1>3, <1>5, <1>6, Zenon DEF AccessInv

\* MediaACL.Bind writes the row over while requests are under way.
LEMMA ShareInv == ASSUME AccessInv, NEW p \in Persons, ShareObject(p) PROVE AccessInv'
<1>1. PICK room \in inside[p] : binding' = [room |-> room, by |-> p]
  BY Zenon DEF ShareObject, Bind
<1>2. /\ ask \in [Persons -> Ask] /\ inside \in [Persons -> SUBSET Rooms]
      /\ ownerKey \in BOOLEAN /\ moves \in 0..MaxMoves /\ shares \in 0..MaxShares
  BY Zenon DEF AccessInv, AccessTypeOK
<1>3. binding' \in Bindings
  BY <1>1, <1>2 DEF Bindings
<1>4. shares' \in 0..MaxShares /\ UNCHANGED <<inside, ownerKey, moves, accessFaults>>
  BY <1>2, AccessAssumption DEF ShareObject
<1>5. ask' = [q \in Persons |-> IF Asking(q) THEN [ask[q] EXCEPT !.bindings = @ \union {binding'}]
                                ELSE ask[q]]
  BY Zenon DEF ShareObject
<1>6. ASSUME NEW q \in Persons
      PROVE  LET a == [ask[q] EXCEPT !.bindings = @ \union {binding'}]
             IN  /\ a \in Ask /\ a.pc = ask[q].pc /\ a.room = ask[q].room
                 /\ a.bindings = ask[q].bindings \union {binding'}
                 /\ a.ever = ask[q].ever /\ a.always = ask[q].always
  <2>1. ask[q] \in Ask
    BY <1>2, Zenon
  <2> QED
    BY <2>1, <1>3 DEF Ask
<1>7. \A q \in Persons :
        /\ ask'[q] \in Ask /\ (~Asking(q) => ask'[q] = ask[q])
        /\ Asking(q) => /\ ask'[q].pc = ask[q].pc /\ ask'[q].room = ask[q].room
                       /\ ask'[q].bindings = ask[q].bindings \union {binding'}
                       /\ ask'[q].ever = ask[q].ever /\ ask'[q].always = ask[q].always
  BY <1>2, <1>5, <1>6, Zenon
<1>8. ask' \in [Persons -> Ask]
  BY <1>5, <1>7, Zenon
<1>9. \A q \in Persons : Asking(q) => /\ inside[q] \subseteq ask[q].ever
                                     /\ ask[q].always \subseteq inside[q]
  BY Zenon DEF AccessInv, AskRight
<1>10. \A q \in Persons :
         /\ ~Asking(q) => ask'[q] = ask[q]
         /\ Asking(q) => /\ ask'[q].pc = ask[q].pc /\ ask'[q].room = ask[q].room
                        /\ ask[q].bindings \subseteq ask'[q].bindings
                        /\ ask[q].ever \subseteq ask'[q].ever
                        /\ ask'[q].always \subseteq ask[q].always
                        /\ binding' \in ask'[q].bindings
                        /\ inside'[q] \subseteq ask'[q].ever /\ ask'[q].always \subseteq inside'[q]
  BY <1>4, <1>7, <1>9, Zenon
<1> QED
  BY <1>2, <1>3, <1>4, <1>8, <1>10, OthersStep, Zenon

\* Members join and leave while requests are under way.
LEMMA MoveInv == ASSUME AccessInv, NEW p \in Persons, Move(p) PROVE AccessInv'
<1>1. /\ ask \in [Persons -> Ask] /\ inside \in [Persons -> SUBSET Rooms]
      /\ ownerKey \in BOOLEAN /\ moves \in 0..MaxMoves /\ shares \in 0..MaxShares
      /\ binding \in Bindings \union {Unbound}
  BY Zenon DEF AccessInv, AccessTypeOK
<1>2. moves' \in 0..MaxMoves /\ UNCHANGED <<binding, ownerKey, shares, accessFaults>>
  BY <1>1, AccessAssumption DEF Move
<1>3. \A q \in Persons : Asking(q) => /\ binding \in ask[q].bindings
                                     /\ inside[q] \subseteq ask[q].ever
                                     /\ ask[q].always \subseteq inside[q]
  BY Zenon DEF AccessInv, AskRight
<1>4. PICK room \in Rooms :
        \/ /\ inside' = [inside EXCEPT ![p] = @ \union {room}]
           /\ ask' = IF Asking(p) THEN [ask EXCEPT ![p].ever = @ \union {room}] ELSE ask
        \/ /\ inside' = [inside EXCEPT ![p] = @ \ {room}]
           /\ ask' = IF Asking(p) THEN [ask EXCEPT ![p].always = @ \ {room}] ELSE ask
  BY Zenon DEF Move
<1>5. /\ inside' \in [Persons -> SUBSET Rooms]
      /\ \A q \in Persons : q # p => inside'[q] = inside[q]
      /\ ask' \in [Persons -> Ask] /\ \A q \in Persons : q # p => ask'[q] = ask[q]
      /\ ~Asking(p) => ask' = ask
  <2>1. ask[p] \in Ask
    BY <1>1, Zenon
  <2>2. [ask[p] EXCEPT !.ever = @ \union {room}] \in Ask /\ [ask[p] EXCEPT !.always = @ \ {room}] \in Ask
    BY <2>1 DEF Ask
  <2> QED
    BY <1>1, <1>4, <2>2
<1>6. Asking(p) => /\ ask'[p].pc = ask[p].pc /\ ask'[p].room = ask[p].room
                   /\ ask'[p].bindings = ask[p].bindings
                   /\ \/ /\ ask'[p].ever = ask[p].ever \union {room}
                         /\ ask'[p].always = ask[p].always
                         /\ inside'[p] = inside[p] \union {room}
                      \/ /\ ask'[p].always = ask[p].always \ {room}
                         /\ ask'[p].ever = ask[p].ever /\ inside'[p] = inside[p] \ {room}
  <2>1. ask[p] \in Ask
    BY <1>1, Zenon
  <2> QED
    BY <1>1, <1>4, <2>1 DEF Ask
<1>7. \A q \in Persons :
        /\ ~Asking(q) => ask'[q] = ask[q]
        /\ Asking(q) => /\ ask'[q].pc = ask[q].pc /\ ask'[q].room = ask[q].room
                       /\ ask[q].bindings \subseteq ask'[q].bindings
                       /\ ask[q].ever \subseteq ask'[q].ever
                       /\ ask'[q].always \subseteq ask[q].always
                       /\ binding' \in ask'[q].bindings
                       /\ inside'[q] \subseteq ask'[q].ever /\ ask'[q].always \subseteq inside'[q]
  <2> TAKE q \in Persons
  <2>1. CASE q # p
    BY <2>1, <1>2, <1>3, <1>5, Zenon
  <2>2. CASE q = p
    BY <2>2, <1>2, <1>3, <1>5, <1>6, Zenon
  <2> QED
    BY <2>1, <2>2, Zenon
<1> QED
  BY <1>1, <1>2, <1>5, <1>7, OthersStep, Zenon

\* The upload record expires, or nothing happens.
LEMMA RecordExpires ==
  ASSUME AccessInv, UNCHANGED <<inside, binding, ask, shares, moves, accessFaults>>,
         ownerKey' \in BOOLEAN
  PROVE  AccessInv'
<1>1. \A q \in Persons : AskRight(q)'
  BY Zenon DEF AccessInv, AskRight, Asking
<1>2. AccessTypeOK' /\ UrlsJustified' /\ RefusalsJustified'
  BY Zenon DEF AccessInv, AccessTypeOK, UrlsJustified, RefusalsJustified
<1> QED
  BY <1>1, <1>2, Zenon DEF AccessInv

\* What MediaAnswersJustified rests on: a request notes what was so in each moment of
\* it, and what it has read is among that.
THEOREM AccessInductive == AccessSpec => []AccessInv
<1>1. AccessInv /\ [AccessNext]_accessVars => AccessInv'
  <2> SUFFICES ASSUME AccessInv, [AccessNext]_accessVars PROVE AccessInv'
    BY Zenon
  <2>1. ASSUME NEW p \in Persons, ShareObject(p) \/ Move(p) \/ AskForUrl(p) PROVE AccessInv'
    BY <2>1, ShareInv, MoveInv, AskForUrlInv, Zenon
  <2>2. ASSUME NEW p \in Persons, ChatFor(p) \/ ownsPendingUpload(p) \/ GetMember(p)
        PROVE  AccessInv'
    BY <2>2, ChatForInv, OwnsInv, GetMemberInv, Zenon
  <2>3. CASE OwnerKeyExpires
    BY <2>3, RecordExpires, Zenon DEF OwnerKeyExpires
  <2>4. CASE UNCHANGED accessVars
    <3>1. UNCHANGED <<inside, binding, ask, shares, moves, accessFaults>> /\ ownerKey' \in BOOLEAN
      BY <2>4, Zenon DEF accessVars, AccessInv, AccessTypeOK
    <3> QED
      BY <3>1, RecordExpires, Zenon
  <2> QED
    BY <2>1, <2>2, <2>3, <2>4, Zenon DEF AccessNext
<1> QED
  BY <1>1, AccessInitInv, PTL DEF AccessSpec

\* A download URL goes only to somebody the binding and the membership justified at
\* some moment of the request, and a refusal without a failed lookup is justified too.
THEOREM MediaAnswersJustified == AccessSpec => []AccessJustified
<1>1. AccessInv => AccessJustified
  BY Zenon DEF AccessInv, AccessJustified
<1> QED
  BY <1>1, AccessInductive, PTL
=============================================================================
