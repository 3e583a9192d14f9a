------------------------------ MODULE Dialogs ------------------------------
(***************************************************************************)
(* The chat list of one user: private chats made by pair                   *)
(* (pkg/pgstore/chats.go CreatePrivate) and the other party shown for each *)
(* of them (services/chat-service/internal/service.go handleGetDialogs).   *)
(*                                                                         *)
(* "me" is the user whose list it is.  A private chat is named by the peer *)
(* it is with.                                                             *)
(***************************************************************************)
EXTENDS FiniteSets, Naturals, Sequences

CONSTANTS DialogOrder,     \* the peers, in the order Dialogs sorts their chats
          Creators,        \* create requests; a request's name is its new chat id
          PairIndexes,     \* can ON CONFLICT (pair_key) use the unique index:
                           \* {FALSE} with the migrations of the repository
          MaxDialogFaults  \* bound: failed lookups

ASSUME DialogAssumption == MaxDialogFaults \in Nat

Peers == {DialogOrder[i] : i \in DOMAIN DialogOrder}

VARIABLES chatRows,   \* the rows of private chats
          member,     \* chat_members: "no" row, "in", or "left"
          creator,    \* the create requests
          pairIndex,  \* the database has an index the statement can use
          gone,       \* peers whose account is deleted
          listing,    \* a handleGetDialogs request
          dialogFaults

creating == <<chatRows, creator, pairIndex>>
dialogVars == <<creating, member, gone, listing, dialogFaults>>

Sides == {"me", "peer"}

DialogTypeOK ==
  /\ chatRows \subseteq [id : Creators, pair : Peers]
  /\ member \in [Peers -> [Sides -> {"no", "in", "left"}]]
  /\ \A c \in Creators : creator[c].pc \in {"new", "insert", "done", "failed"}
  /\ pairIndex \in PairIndexes
  /\ gone \subseteq Peers
  /\ listing.pc \in {"new", "ids", "users", "done"}
  /\ dialogFaults \in 0..MaxDialogFaults

DialogInit ==
  /\ chatRows = {} /\ gone = {} /\ pairIndex \in PairIndexes
  /\ member = [p \in Peers |-> [s \in Sides |-> "no"]]
  /\ creator = [c \in Creators |-> [pc |-> "new", pair |-> "", id |-> "", created |-> FALSE]]
  /\ listing = [pc |-> "new", list |-> <<>>, looked |-> 0, peerIDs |-> <<>>,
                gaps |-> {}, peer |-> <<>>]
  /\ dialogFaults = 0

DialogFault == dialogFaults < MaxDialogFaults /\ dialogFaults' = dialogFaults + 1

(***************************************************************************)
(* CreatePrivate: one transaction per request, read committed.             *)
(***************************************************************************)
RowOf(p) == {r \in chatRows : r.pair = p}
AnswerCreate(c, p, id, created) ==
  creator' = [creator EXCEPT ![c] = [pc |-> "done", pair |-> p, id |-> id,
                                     created |-> created]]

\* The fast path: a chat that exists is returned as it is, membership included.
CreateLook(c, p) ==
  /\ creator[c].pc = "new"
  /\ \/ \E r \in RowOf(p) : AnswerCreate(c, p, r.id, FALSE)
     \/ RowOf(p) = {} /\ creator' = [creator EXCEPT ![c].pc = "insert", ![c].pair = p]
  /\ UNCHANGED <<chatRows, pairIndex, member, gone, listing, dialogFaults>>

\* Mutant of CreateInsert: a plain INSERT, with no index on the pair.
CreateInsertPlain(c) ==
  /\ creator[c].pc = "insert"
  /\ LET p == creator[c].pair
     IN /\ chatRows' = chatRows \union {[id |-> c, pair |-> p]}
        /\ AnswerCreate(c, p, c, TRUE)
        /\ member' = [member EXCEPT ![p] = [s \in Sides |-> "in"]]
  /\ UNCHANGED <<pairIndex, gone, listing, dialogFaults>>

\* INSERT ... ON CONFLICT (pair_key), then both members, left or not.  Where no
\* unique index matches the conflict target the statement is an error.
CreateInsert(c) ==
  /\ creator[c].pc = "insert"
  /\ LET p == creator[c].pair IN
     \/ /\ pairIndex
        /\ \/ /\ RowOf(p) = {}
              /\ chatRows' = chatRows \union {[id |-> c, pair |-> p]}
              /\ AnswerCreate(c, p, c, TRUE)
           \/ /\ \E r \in RowOf(p) : AnswerCreate(c, p, r.id, FALSE)
              /\ UNCHANGED chatRows
        /\ member' = [member EXCEPT ![p] = [s \in Sides |-> "in"]]
     \/ /\ ~pairIndex
        /\ creator' = [creator EXCEPT ![c].pc = "failed"]
        /\ UNCHANGED <<chatRows, member>>
  /\ UNCHANGED <<pairIndex, gone, listing, dialogFaults>>

\* handleLeave.
LeavePrivate(p, s) ==
  /\ member[p][s] = "in"
  /\ member' = [member EXCEPT ![p][s] = "left"]
  /\ UNCHANGED <<creating, gone, listing, dialogFaults>>

\* handleDeleteAccount: the account is no longer among what GetMany returns.
DeletePeer(p) ==
  /\ p \notin gone
  /\ gone' = gone \union {p}
  /\ UNCHANGED <<creating, member, listing, dialogFaults>>

(***************************************************************************)
(* handleGetDialogs: the rows, the members of each private chat in turn,   *)
(* then one batch of users dealt out in order.                             *)
(***************************************************************************)
ListDialogs ==
  /\ listing.pc = "new"
  /\ LET list == SelectSeq(DialogOrder, LAMBDA p : member[p]["me"] = "in")
     IN listing' = [listing EXCEPT !.pc = IF list = <<>> THEN "done" ELSE "ids",
                                   !.list = list]
  /\ UNCHANGED <<creating, member, gone, dialogFaults>>

\* Members.IDs of the next private chat: a failed lookup and a chat the peer
\* has left both add nothing to peerIDs.
LookUpPeer ==
  /\ listing.pc = "ids"
  /\ LET i == listing.looked + 1
         p == listing.list[i]
         next == [listing EXCEPT !.looked = i,
                                 !.pc = IF i = Len(listing.list) THEN "users" ELSE "ids"]
     IN \/ /\ member[p]["peer"] = "in" /\ UNCHANGED dialogFaults
           /\ listing' = [next EXCEPT !.peerIDs = Append(@, p)]
        \/ /\ \/ member[p]["peer"] # "in" /\ UNCHANGED dialogFaults
              \/ member[p]["peer"] = "in" /\ DialogFault
           /\ listing' = [next EXCEPT !.gaps = @ \union {i}]
  /\ UNCHANGED <<creating, member, gone>>

\* The peers as they are dealt out: the i-th private chat gets the i-th id.
Dealt(l, users) ==
  [i \in 1..Len(l.list) |->
     IF i <= Len(l.peerIDs) /\ l.peerIDs[i] \in users THEN l.peerIDs[i] ELSE "none"]

\* Users.GetMany; when it fails no peer is filled in.
Hydrate ==
  /\ listing.pc = "users"
  /\ \/ /\ listing' = [listing EXCEPT !.pc = "done", !.peer = Dealt(listing, Peers \ gone)]
        /\ UNCHANGED dialogFaults
     \/ /\ DialogFault
        /\ listing' = [listing EXCEPT !.pc = "done", !.peer = Dealt(listing, {})]
  /\ UNCHANGED <<creating, member, gone>>

DialogNext ==
  \/ \E c \in Creators : CreateInsert(c) \/ \E p \in Peers : CreateLook(c, p)
  \/ \E p \in Peers : DeletePeer(p) \/ \E s \in Sides : LeavePrivate(p, s)
  \/ ListDialogs \/ LookUpPeer \/ Hydrate

DialogSpec == DialogInit /\ [][DialogNext]_dialogVars

(***************************************************************************)
(* Properties.                                                             *)
(***************************************************************************)
\* Two devices that open the same private chat at once get the same chat, and
\* exactly one of the answers says it is new, so the peer is told once
\* (CreatePrivate under concurrent transactions).
CreatesConverge ==
  /\ \A c, d \in Creators :
       creator[c].pc = "done" /\ creator[d].pc = "done" /\ creator[c].pair = creator[d].pair
         => creator[c].id = creator[d].id
  /\ \A r \in chatRows :
       Cardinality({c \in Creators : creator[c].created /\ creator[c].pair = r.pair}) = 1

\* handleGetDialogs shows another user as the party of a private chat only when
\* that chat or one listed before it had no id to add: a lookup that failed or
\* a peer who had left shifts the ids after it.  A deleted account does not.
PeersRight ==
  listing.pc = "done" =>
    \A i \in DOMAIN listing.peer :
      \/ listing.peer[i] \in {listing.list[i], "none"}
      \/ \E j \in listing.gaps : j <= i

\* Opening a private chat from two devices converges, and the chat list names
\* the right parties unless a chat before had no id to add.
PrivateChatsRight == DialogTypeOK /\ CreatesConverge /\ PeersRight
=============================================================================
