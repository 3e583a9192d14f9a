----------------------------- MODULE Membership -----------------------------
(***************************************************************************)
(* The roster of one group or channel: the membership handlers of the      *)
(* chat-service, which read and judge in one round trip and write in       *)
(* another, and the Redis roster cache that the send path trusts.          *)
(***************************************************************************)
EXTENDS Integers, FiniteSets

CONSTANTS Users, Owner, None,
          Initial,       \* members the chat is created with, the owner included
          Kind,          \* "group" or "channel"
          MaxGroupMembers,
          Workers,       \* concurrent requests that change the roster
          Posters,       \* concurrent sends
          MaxRequests,   \* bound: membership requests
          MaxRosterFaults \* bound: failed cache reads, writes, invalidations

Roles == {"owner", "admin", "member", "restricted"}
Ops == {"add", "remove", "leave", "setRole", "deleteChat"}

ASSUME MembershipAssumption ==
  /\ Owner \in Initial /\ Initial \subseteq Users /\ IsFiniteSet(Users)
  /\ None \notin Users \union Roles
  /\ Kind \in {"group", "channel"}
  /\ MaxGroupMembers \in Nat /\ MaxRequests \in Nat /\ MaxRosterFaults \in Nat

VARIABLES
  role, active,        \* chat_members: role (None: no row), left_at IS NULL
  count, deleted,      \* chats.member_count, chats.deleted_at
  step, req,           \* membership requests: step; what was asked and read
  cache, pending,      \* Redis roster (None: absent); invalidations to run
  sender, roster,      \* sends that missed the cache: who, and the ids read
  posted, couldPost,   \* history: accepted senders who never could post; who ever could
  requests, rosterFaults

rowVars == <<role, active, count, deleted>>
sendVars == <<sender, roster, posted>>
vars == <<rowVars, step, req, cache, pending, sendVars, couldPost, requests, rosterFaults>>

Active == {u \in Users : active[u]}
RosterFault == rosterFaults < MaxRosterFaults /\ rosterFaults' = rosterFaults + 1

\* Members.CanPost, on the rows of state r, a, d.
CanPost(r, a, d, u) == /\ a[u] /\ ~d
                       /\ r[u] # "restricted"
                       /\ Kind = "channel" => r[u] \in {"owner", "admin"}
Permitted(u) == CanPost(role, active, deleted, u)

\* CreateGroup.
Init ==
  /\ role = [u \in Users |-> IF u = Owner THEN "owner"
                             ELSE IF u \in Initial THEN "member" ELSE None]
  /\ active = [u \in Users |-> u \in Initial]
  /\ count = Cardinality(Initial) /\ deleted = FALSE
  /\ step = [w \in Workers |-> "idle"]
  /\ req = [w \in Workers |-> None]
  /\ cache = None /\ pending = 0
  /\ sender = [p \in Posters |-> None] /\ roster = [p \in Posters |-> None]
  /\ posted = {} /\ couldPost = {u \in Users : Permitted(u)}
  /\ requests = 0 /\ rosterFaults = 0

(***************************************************************************)
(* Membership requests: requireMember, the judgement, the write.           *)
(***************************************************************************)
\* requireMember reads the caller's row; "leave" concerns the caller.
Begin(w) == \E op \in Ops, actor, target \in Users, to \in Roles :
  /\ step[w] = "idle" /\ requests < MaxRequests /\ requests' = requests + 1
  /\ active[actor]
  /\ op \in {"leave", "deleteChat"} => target = actor
  /\ op \in {"leave", "deleteChat", "remove"} => to = "member"
  /\ req' = [req EXCEPT ![w] = [op |-> op, actor |-> actor, actorRole |-> role[actor],
                               target |-> target, to |-> to]]
  /\ step' = [step EXCEPT ![w] = "judge"]
  /\ UNCHANGED <<rowVars, cache, pending, sendVars, couldPost, rosterFaults>>

IsAdmin(q) == q.actorRole \in {"owner", "admin"}

\* handleAddMember.
canAddMember(q) == /\ ~deleted /\ IsAdmin(q) /\ q.to # "owner"
                   /\ count < MaxGroupMembers

\* Mutant of canRemoveMember: admins may remove anybody.
canRemoveAnybody(q) == role[q.target] # None /\ IsAdmin(q)

\* canRemoveMember, on the target's row.
canRemoveMember(q) == /\ role[q.target] # None
                      /\ IsAdmin(q)
                      /\ role[q.target] # "owner"
                      /\ role[q.target] = "admin" => q.actorRole = "owner"

\* canSetRole; handleSetRole answers at once when nothing would change.
canSetRole(q) == /\ role[q.target] # None
                 /\ q.to # "owner"
                 /\ q.actor # q.target
                 /\ IsAdmin(q)
                 /\ role[q.target] # "owner"
                 /\ "admin" \in {q.to, role[q.target]} => q.actorRole = "owner"
                 /\ role[q.target] # q.to

Allowed(q) == CASE q.op = "add" -> canAddMember(q)
                [] q.op = "remove" -> canRemoveMember(q)
                [] q.op = "leave" -> q.actorRole # "owner"
                [] q.op = "setRole" -> canSetRole(q)
                [] q.op = "deleteChat" -> ~deleted /\ q.actorRole = "owner"

Finish(w) == /\ step' = [step EXCEPT ![w] = "idle"]
             /\ req' = [req EXCEPT ![w] = None]

\* The second read and the judgement; a refused request is over.
Judge(w) == /\ step[w] = "judge"
            /\ IF Allowed(req[w])
                 THEN step' = [step EXCEPT ![w] = "write"] /\ UNCHANGED req
                 ELSE Finish(w)
            /\ UNCHANGED <<rowVars, cache, pending, sendVars, couldPost, requests, rosterFaults>>

\* A write that changed a row is followed by a detached invalidation.
Written(w) == /\ Finish(w)
              /\ pending' = pending + 1
              /\ couldPost' = couldPost \union {u \in Users : CanPost(role', active', deleted', u)}
              /\ UNCHANGED <<cache, sendVars, requests, rosterFaults>>

\* Members.Remove found no active row.
Refused(w) == /\ Finish(w)
              /\ UNCHANGED <<rowVars, cache, pending, sendVars, couldPost, requests, rosterFaults>>

\* Members.Add, one transaction; an active member is left alone.
WriteAdd(w) ==
  LET q == req[w] IN
  /\ step[w] = "write" /\ q.op = "add"
  /\ IF active[q.target] THEN UNCHANGED <<role, active, count>>
     ELSE /\ role' = [role EXCEPT ![q.target] = q.to]
          /\ active' = [active EXCEPT ![q.target] = TRUE]
          /\ count' = count + 1
  /\ UNCHANGED deleted
  /\ Written(w)

\* Members.Remove, one transaction, for handleRemoveMember and handleLeave.
WriteRemove(w) ==
  LET t == req[w].target IN
  /\ step[w] = "write" /\ req[w].op \in {"remove", "leave"}
  /\ \/ /\ ~active[t] /\ Refused(w)
     \/ /\ active[t]
        /\ active' = [active EXCEPT ![t] = FALSE]
        /\ count' = IF count > 0 THEN count - 1 ELSE 0
        /\ UNCHANGED <<role, deleted>>
        /\ Written(w)

\* Members.SetRole.
WriteSetRole(w) ==
  LET q == req[w] IN
  /\ step[w] = "write" /\ q.op = "setRole"
  /\ \/ /\ ~active[q.target] /\ Refused(w)
     \/ /\ active[q.target]
        /\ role' = [role EXCEPT ![q.target] = q.to]
        /\ UNCHANGED <<active, count, deleted>>
        /\ Written(w)

\* Chats.SoftDelete.
WriteDeleteChat(w) ==
  /\ step[w] = "write" /\ req[w].op = "deleteChat"
  /\ \/ deleted /\ Refused(w)
     \/ /\ ~deleted /\ deleted' = TRUE
        /\ UNCHANGED <<role, active, count>>
        /\ Written(w)

(***************************************************************************)
(* The roster cache.                                                       *)
(***************************************************************************)
Invalidate == /\ pending > 0 /\ pending' = pending - 1
              /\ \/ cache' = None /\ UNCHANGED rosterFaults
                 \/ RosterFault /\ UNCHANGED cache
              /\ UNCHANGED <<rowVars, step, req, sendVars, couldPost, requests>>

Expire == /\ cache # None /\ cache' = None
          /\ UNCHANGED <<rowVars, step, req, pending, sendVars, couldPost, requests, rosterFaults>>

(***************************************************************************)
(* authorisedRecipients.                                                   *)
(***************************************************************************)
Accept(u, asked) == posted' = IF u \in couldPost THEN posted
                              ELSE posted \union {[user |-> u, asked |-> asked]}

\* The sender is on the cached roster: accepted without asking Postgres.
PostCached(u) == /\ cache # None /\ u \in cache
                 /\ Accept(u, FALSE)
                 /\ UNCHANGED <<rowVars, step, req, cache, pending, sender, roster, couldPost,
                                requests, rosterFaults>>

\* Mutant of PostAsk: a failed read of the cache is taken for a cached sender.
PostAskOpen(p, u) ==
  /\ sender[p] = None
  /\ IF cache # None /\ u \in cache THEN RosterFault ELSE Permitted(u) /\ UNCHANGED rosterFaults
  /\ sender' = [sender EXCEPT ![p] = u]
  /\ UNCHANGED <<rowVars, step, req, cache, pending, roster, posted, couldPost, requests>>

\* A miss, or a failed read: CanPost decides.
PostAsk(p, u) == /\ sender[p] = None
                 /\ IF cache # None /\ u \in cache THEN RosterFault ELSE UNCHANGED rosterFaults
                 /\ Permitted(u)
                 /\ sender' = [sender EXCEPT ![p] = u]
                 /\ UNCHANGED <<rowVars, step, req, cache, pending, roster, posted, couldPost,
                                requests>>

\* Members.IDs.
PostRead(p) == /\ sender[p] # None /\ roster[p] = None
               /\ roster' = [roster EXCEPT ![p] = Active]
               /\ UNCHANGED <<rowVars, step, req, cache, pending, sender, posted, couldPost,
                              requests, rosterFaults>>

\* MemCache.Set writes the roster back; the send is accepted either way.
PostStore(p) == /\ roster[p] # None
                /\ \/ cache' = (IF roster[p] = {} THEN None ELSE roster[p]) /\ UNCHANGED rosterFaults
                   \/ RosterFault /\ UNCHANGED cache
                /\ Accept(sender[p], TRUE)
                /\ sender' = [sender EXCEPT ![p] = None]
                /\ roster' = [roster EXCEPT ![p] = None]
                /\ UNCHANGED <<rowVars, step, req, pending, couldPost, requests>>

Write(w) == WriteAdd(w) \/ WriteRemove(w) \/ WriteSetRole(w) \/ WriteDeleteChat(w)

Next == \/ \E w \in Workers : Begin(w) \/ Judge(w) \/ Write(w)
        \/ Invalidate \/ Expire
        \/ \E u \in Users : PostCached(u)
        \/ \E p \in Posters : PostRead(p) \/ PostStore(p) \/ \E u \in Users : PostAsk(p, u)

Spec == Init /\ [][Next]_vars

\* What requests, sends and detached invalidations that began still have to do.
RosterWork == \/ Invalidate
              \/ \E w \in Workers : Judge(w) \/ Write(w)
              \/ \E p \in Posters : PostRead(p) \/ PostStore(p)

\* Work that began goes on, and Redis expires keys.
FairSpec == /\ Spec
            /\ WF_vars(RosterWork) /\ WF_vars(Expire)
-----------------------------------------------------------------------------
Requests == [op : Ops, actor : Users, actorRole : Roles, target : Users, to : Roles]

TypeOK == /\ role \in [Users -> Roles \union {None}]
          /\ active \in [Users -> BOOLEAN]
          /\ count \in Nat /\ deleted \in BOOLEAN
          /\ step \in [Workers -> {"idle", "judge", "write"}]
          /\ req \in [Workers -> Requests \union {None}]

\* canSetRole: "A chat has exactly one owner".  However the checks of one
\* request and the writes of another interleave, the creator stays the only
\* owner and stays a member: nobody can be promoted, demoted, removed, re-added
\* or leave around it.
ExactlyOneOwner == /\ active[Owner]
                   /\ \A u \in Users : role[u] = "owner" <=> u = Owner

\* Members.Add "keeps member_count correct": the column that the member limit
\* is judged by equals the number of active rows.
CountIsRoster == count = Cardinality(Active)

\* What a request that passed its checks knows: it neither names the owner as
\* the victim nor grants ownership.
Knows(w) == /\ step[w] # "idle" =>
                 /\ req[w] \in Requests
                 /\ req[w].actorRole = "owner" <=> req[w].actor = Owner
                 /\ req[w].op = "leave" => req[w].target = req[w].actor
            /\ step[w] = "write" =>
                 /\ req[w].op \in {"remove", "leave", "setRole"} => req[w].target # Owner
                 /\ req[w].op \in {"add", "setRole"} => req[w].to # "owner"

\* The inductive invariant: besides what requests know, a row without a role is
\* not active.
IInv == /\ TypeOK /\ ExactlyOneOwner /\ CountIsRoster
        /\ \A u \in Users : active[u] => role[u] # None
        /\ \A w \in Workers : Knows(w)

\* When the roster stops changing the cache becomes right and stays right: a
\* stale roster stored by a send that overlapped a removal, or left by a failed
\* invalidation, lives no longer than its TTL.
StaleRosterEnds == <>[](cache # None => cache \subseteq Active)

\* A sender who asked CanPost, because the roster was not cached, did not name
\* them or could not be read, had the right to post at some time; one whom the
\* cached roster let through had at least been a member.  More does not hold: the
\* roster names restricted members and the readers of a channel too, and they are
\* accepted for as long as it is cached.
PostersJustified == \A p \in posted : ~p.asked /\ role[p.user] # None

\* The roster's rows are sound: one owner, and the count the limit is judged by.
RosterSound == TypeOK /\ ExactlyOneOwner /\ CountIsRoster
=============================================================================
