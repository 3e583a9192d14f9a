---------------------------- MODULE MediaAccess ----------------------------
(***************************************************************************)
(* Who may download one uploaded object.  The persister binds the object   *)
(* to the chat of the message that carries it (MediaACL.Bind in            *)
(* pkg/cassandrax/cassandra.go, one row per object, the last write wins),  *)
(* and handleDownloadURL (services/media-service/main.go) reads that       *)
(* binding and then the caller's membership, while the object is shared    *)
(* on, members come and go and the upload record expires.                  *)
(***************************************************************************)
EXTENDS FiniteSets, Naturals

CONSTANTS Rooms,             \* chats the object can be shared into
          MaxShares,         \* bound: messages that carry the object
          MaxMoves,          \* bound: joins and leaves
          MaxAccessFaults    \* bound: failed lookups

ASSUME AccessAssumption == /\ "none" \notin Rooms
                           /\ {MaxShares, MaxMoves, MaxAccessFaults} \subseteq Nat

VARIABLES inside,    \* the rooms each person is an active member of
          binding,   \* the media_acl row: [room, by], or Unbound
          ownerKey,  \* the uploadowner record has not expired
          ask,       \* each person's download request
          shares, moves, accessFaults

accessVars == <<inside, binding, ownerKey, ask, shares, moves, accessFaults>>

Persons == {"uploader", "reader"}
Unbound == [room |-> "none", by |-> "none"]
Bindings == [room : Rooms, by : Persons]

\* A request, with what was true in any moment and in every moment of it.
NoAsk == [pc |-> "idle", room |-> "none", failed |-> FALSE, bindings |-> {}, ever |-> {}, always |-> {}]

AccessTypeOK ==
  /\ inside \in [Persons -> SUBSET Rooms] /\ binding \in Bindings \union {Unbound}
  /\ ownerKey \in BOOLEAN /\ shares \in 0..MaxShares /\ moves \in 0..MaxMoves
  /\ accessFaults \in 0..MaxAccessFaults
  /\ \A p \in Persons : /\ ask[p].pc \in {"idle", "binding", "record", "member", "url", "refused"}
                        /\ ask[p].always \subseteq ask[p].ever

AccessInit ==
  /\ inside \in [Persons -> SUBSET Rooms] /\ binding = Unbound /\ ownerKey = TRUE
  /\ ask = [p \in Persons |-> NoAsk] /\ shares = 0 /\ moves = 0 /\ accessFaults = 0

AccessFault == accessFaults < MaxAccessFaults /\ accessFaults' = accessFaults + 1
NoAccessFault == UNCHANGED accessFaults
Asking(p) == ask[p].pc \in {"binding", "record", "member"}

\* MediaACL.Bind, once the message is durable: the row is written over.
Bind(room, by) == binding' = [room |-> room, by |-> by]

\* A message that carries the object is persisted: the uploader's own, or one a
\* reader who was in its room passes on.
ShareObject(p) ==
  /\ shares < MaxShares /\ shares' = shares + 1
  /\ p = "reader" => binding.room \in inside[p]
  /\ \E room \in inside[p] : Bind(room, p)
  /\ ask' = [q \in Persons |-> IF Asking(q) THEN [ask[q] EXCEPT !.bindings = @ \union {binding'}]
                               ELSE ask[q]]
  /\ UNCHANGED <<inside, ownerKey, moves, accessFaults>>

\* p joins or leaves a room.
Move(p) ==
  /\ moves < MaxMoves /\ moves' = moves + 1
  /\ \E room \in Rooms :
       \/ /\ room \notin inside[p] /\ inside' = [inside EXCEPT ![p] = @ \union {room}]
          /\ ask' = IF Asking(p) THEN [ask EXCEPT ![p].ever = @ \union {room}] ELSE ask
       \/ /\ room \in inside[p] /\ inside' = [inside EXCEPT ![p] = @ \ {room}]
          /\ ask' = IF Asking(p) THEN [ask EXCEPT ![p].always = @ \ {room}] ELSE ask
  /\ UNCHANGED <<binding, ownerKey, shares, accessFaults>>

\* The uploadowner key lives 24 hours.
OwnerKeyExpires ==
  /\ ownerKey /\ ownerKey' = FALSE
  /\ UNCHANGED <<inside, binding, ask, shares, moves, accessFaults>>

\* A request for the object or for one of its derivatives, which ACLKey maps to the same
\* row.  Requests only read, so one at a time is enough.
AskForUrl(p) ==
  /\ \A q \in Persons : ask[q].pc = "idle"
  /\ ask' = [ask EXCEPT ![p] = [NoAsk EXCEPT !.pc = "binding", !.bindings = {binding},
                                             !.ever = inside[p], !.always = inside[p]]]
  /\ UNCHANGED <<inside, binding, ownerKey, shares, moves, accessFaults>>

Answered(p, answer) == ask' = [ask EXCEPT ![p].pc = answer]
FailedAsk(p) == ask' = [ask EXCEPT ![p].pc = "refused", ![p].failed = TRUE]

\* MediaACL.ChatFor: unbound leaves only the upload record; who shared the object
\* gets the URL, everyone else is looked up in the room.
ChatFor(p) ==
  /\ ask[p].pc = "binding"
  /\ \/ /\ NoAccessFault
        /\ IF binding = Unbound THEN Answered(p, "record")
           ELSE IF binding.by = p THEN Answered(p, "url")
           ELSE ask' = [ask EXCEPT ![p].pc = "member", ![p].room = binding.room]
     \/ AccessFault /\ FailedAsk(p)
  /\ UNCHANGED <<inside, binding, ownerKey, shares, moves>>

\* ownsPendingUpload: the record, or no access.
ownsPendingUpload(p) ==
  /\ ask[p].pc = "record"
  /\ \/ NoAccessFault /\ Answered(p, IF ownerKey /\ p = "uploader" THEN "url" ELSE "refused")
     \/ AccessFault /\ FailedAsk(p)
  /\ UNCHANGED <<inside, binding, ownerKey, shares, moves>>

\* Mutant of GetMember: a failed lookup lets the caller in.
GetMemberOpen(p) ==
  /\ ask[p].pc = "member"
  /\ \/ NoAccessFault /\ Answered(p, IF ask[p].room \in inside[p] THEN "url" ELSE "refused")
     \/ AccessFault /\ Answered(p, "url")
  /\ UNCHANGED <<inside, binding, ownerKey, shares, moves>>

\* Members.Get on the room read before: no row, a left member and an error all refuse.
GetMember(p) ==
  /\ ask[p].pc = "member"
  /\ \/ NoAccessFault /\ Answered(p, IF ask[p].room \in inside[p] THEN "url" ELSE "refused")
     \/ AccessFault /\ FailedAsk(p)
  /\ UNCHANGED <<inside, binding, ownerKey, shares, moves>>

AccessNext ==
  \/ OwnerKeyExpires
  \/ \E p \in Persons : \/ ShareObject(p) \/ Move(p) \/ AskForUrl(p)
                        \/ ChatFor(p) \/ ownsPendingUpload(p) \/ GetMember(p)

AccessSpec == AccessInit /\ [][AccessNext]_accessVars

(***************************************************************************)
(* Properties.                                                             *)
(***************************************************************************)
\* A URL goes only to who shared the object, to someone who was in the room it
\* was bound to at some moment of the request, or to the uploader of an object no
\* message carries yet: the binding and the membership are read apart, and both
\* may change in between (handleDownloadURL: "revoking membership revokes the
\* media with it").
UrlsJustified ==
  \A p \in Persons : ask[p].pc = "url" =>
     \/ \E b \in ask[p].bindings \ {Unbound} : b.by = p \/ b.room \in ask[p].ever
     \/ p = "uploader" /\ Unbound \in ask[p].bindings

\* Nobody is refused who shared the object in the binding of the whole request, or
\* sat in its room throughout, unless a lookup failed.
RefusalsJustified ==
  \A p \in Persons : ask[p].pc = "refused" /\ ~ask[p].failed =>
     \E b \in ask[p].bindings : b.by # p /\ b.room \notin ask[p].always

\* Every answer of handleDownloadURL is justified by what was so during it.
AccessJustified == AccessTypeOK /\ UrlsJustified /\ RefusalsJustified
=============================================================================
