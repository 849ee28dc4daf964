---------------------------- MODULE Communities -----------------------------
(* A community and its chat: joining, requests to join, leaving, roles,     *)
(* removal, the transfer of ownership, and what the back office may do      *)
(* beside the community's own administrators.                               *)
(*                                                                          *)
(* Every call reads first - who the caller is, which row, whether someone   *)
(* else is an owner - and then writes by what it has read. Transactions     *)
(* that write the member row and then the chat's are READ COMMITTED: the    *)
(* row is locked between the two, what others have committed is seen. An    *)
(* upsert that finds its row changes nothing and locks nothing.             *)
(* News, meetups, media and the archive flag are left out.                  *)
EXTENDS Integers, FiniteSets

CONSTANTS
    Users,
    Creator,        \* who has created the community
    Calls,          \* calls that may overlap
    MaxCalls        \* bound on calls

VARIABLES
    creator,    \* Community.createdById
    privacy,    \* Community.privacy
    member,     \* CommunityMember of a user: its id and role
    chat,       \* users with a ChatMember row of the community's chat
    request,    \* CommunityJoinRequest of a user: its id and status
    call,       \* per open call: what it has read, and how far it is
    left,       \* calls left
    hidden,     \* (history) creators who have deleted the chat for themselves
    crossed,    \* (history) users of whom a call wrote what had changed under it
    raced,      \* (history) ownership changed under a call that wrote an owner's row
    deposed     \* (history) creators whom the back office has demoted or removed

vars == <<creator, privacy, member, chat, request, call, left, hidden, crossed,
          raced, deposed>>
history == <<hidden, crossed, raced, deposed>>

Roles == {"member", "moderator", "owner"}
Idle == [op |-> "idle", step |-> "idle"]
IsMember(u) == member[u].role # "none"
Owners == {u \in Users : member[u].role = "owner"}

(* getAdminCommunity                                                        *)
MayAdminister(u) == creator = u \/ member[u].role \in {"owner", "moderator"}

Init ==
    /\ creator = Creator
    /\ privacy \in {"public", "private"}
    /\ member = [u \in Users |-> IF u = Creator THEN [id |-> 1, role |-> "owner"]
                                 ELSE [id |-> 0, role |-> "none"]]
    /\ chat = {Creator}
    /\ request = [u \in Users |-> [id |-> 0, status |-> "none"]]
    /\ call = [k \in Calls |-> Idle]
    /\ left = MaxCalls
    /\ hidden = {}
    /\ crossed = {}
    /\ raced = FALSE
    /\ deposed = {}

-----------------------------------------------------------------------------
(* Calls and their locks *)

Saw(u) == [seat |-> member[u], owners |-> Owners, creator |-> creator]

Begin(k, op, step, u) ==
    /\ call[k] = Idle
    /\ left > 0
    /\ left' = left - 1
    /\ call' = [call EXCEPT ![k] = [op |-> op, step |-> step, of |-> u, saw |-> Saw(u),
                                    request |-> request[u].id, do |-> "none"]]
    /\ UNCHANGED <<creator, privacy, member, chat, request>>
    /\ UNCHANGED history

End(k) == call' = [call EXCEPT ![k] = Idle]

(* Another transaction has written the user's member row, or his request,   *)
(* and has not committed.                                                   *)
SeatHeld(u) ==
    \E k \in Calls : call[k].step = "chat" /\ call[k].of = u /\ call[k].do # "none"
RequestHeld(u) ==
    \E k \in Calls : call[k].step = "chat" /\ call[k].of = u /\ call[k].op = "approve"

(* Errors - a row gone, a lost connection - undo the transaction.           *)
Fail(k) ==
    /\ call[k] # Idle
    /\ End(k)
    /\ UNCHANGED <<creator, privacy, member, chat, request, left>>
    /\ UNCHANGED history

(* The user's seat, or whether he is the creator, changed under the call.   *)
Overtaken(c) ==
    \/ c.saw.seat # member[c.of]
    \/ ~(c.saw.creator = c.of <=> creator = c.of)

Note(c) ==
    /\ crossed' = IF Overtaken(c) THEN crossed \union {c.of} ELSE crossed
    /\ raced' = (raced \/ (/\ member[c.of].role = "owner"
                           /\ \/ c.saw.owners # Owners
                              \/ c.saw.creator # creator))

-----------------------------------------------------------------------------
(* Joining: joinCommunity, and createJoinRequest of a public community      *)

BeginJoin(k, u) ==
    /\ privacy = "public"
    /\ Begin(k, "join", "seat", u)

(* The upsert of the member row, of a join or an approval.                  *)
Seat(k) ==
    LET c == call[k] IN
    /\ c.step = "seat" /\ c.op \in {"join", "approve"}
    /\ ~IsMember(c.of) => ~SeatHeld(c.of)
    /\ c.op = "approve" => /\ request[c.of].id = c.request
                           /\ request[c.of].status # "none"
                           /\ ~RequestHeld(c.of)
    /\ call' = [call EXCEPT ![k].step = "chat",
                            ![k].do = IF IsMember(c.of) THEN "none" ELSE "insert"]
    /\ UNCHANGED <<creator, privacy, member, chat, request, left>>
    /\ UNCHANGED history

(* The upsert of the chat row, and the commit.                              *)
Admit(k) ==
    LET c == call[k]
        u == c.of
    IN
    /\ c.step = "chat" /\ c.op \in {"join", "approve"}
    /\ member' = IF c.do = "insert"
                 THEN [member EXCEPT ![u] = [id |-> @.id + 1, role |-> "member"]]
                 ELSE member
    /\ chat' = chat \union {u}
    /\ request' = IF c.op = "approve"
                  THEN [request EXCEPT ![u].status = "approved"] ELSE request
    /\ Note(c)
    /\ End(k)
    /\ UNCHANGED <<creator, privacy, left, hidden, deposed>>

BeginRequest(k, u) ==
    /\ privacy = "private"
    /\ creator # u
    /\ ~IsMember(u)
    /\ Begin(k, "request", "write", u)

Request(k) ==
    LET u == call[k].of IN
    /\ call[k].op = "request"
    /\ ~RequestHeld(u)
    /\ request' = [request EXCEPT ![u] =
          [id |-> IF @.status = "none" THEN @.id + 1 ELSE @.id, status |-> "pending"]]
    /\ End(k)
    /\ UNCHANGED <<creator, privacy, member, chat, left>>
    /\ UNCHANGED history

CancelJoinRequest(u) ==
    /\ request[u].status = "pending"
    /\ ~RequestHeld(u)
    /\ request' = [request EXCEPT ![u].status = "none"]
    /\ UNCHANGED <<creator, privacy, member, chat, call, left>>
    /\ UNCHANGED history

(* reviewJoinRequest: only a pending request is found, but it is written by *)
(* its id.                                                                  *)
BeginReview(k, a, u, op) ==
    /\ MayAdminister(a)
    /\ request[u].status = "pending"
    /\ Begin(k, op, "seat", u)

Reject(k) ==
    LET c == call[k] IN
    /\ c.op = "reject"
    /\ request[c.of].id = c.request /\ request[c.of].status # "none"
    /\ ~RequestHeld(c.of)
    /\ request' = [request EXCEPT ![c.of].status = "rejected"]
    /\ End(k)
    /\ UNCHANGED <<creator, privacy, member, chat, left>>
    /\ UNCHANGED history

-----------------------------------------------------------------------------
(* Leaving and removal *)

(* leaveCommunity, and the deletion of the chat by another than the creator *)
BeginLeave(k, u) ==
    /\ creator # u
    /\ Begin(k, "leave", "seat", u)

(* removeAdminMember, of the community's administrators.                    *)
BeginRemove(k, a, u) ==
    /\ MayAdminister(a)
    /\ member[u].role \in {"member", "moderator"}
    /\ Begin(k, "remove", "seat", u)

(* removeMember, of the back office.                                        *)
BeginExpel(k, u) ==
    /\ IsMember(u)
    /\ member[u].role = "owner" => Cardinality(Owners) > 1
    /\ Begin(k, "expel", "seat", u)

(* The member row is deleted: by user, or by the id that was read.          *)
Unseat(k) ==
    LET c == call[k] IN
    /\ c.step = "seat" /\ c.op \in {"leave", "remove", "expel"}
    /\ IsMember(c.of) => ~SeatHeld(c.of)
    /\ c.op # "leave" => IsMember(c.of) /\ member[c.of].id = c.saw.seat.id
    /\ call' = [call EXCEPT ![k].step = "chat",
                            ![k].do = IF IsMember(c.of) THEN "delete" ELSE "none"]
    /\ UNCHANGED <<creator, privacy, member, chat, request, left>>
    /\ UNCHANGED history

(* The chat row is deleted, and the commit.                                 *)
Part(k) ==
    LET c == call[k]
        u == c.of
    IN
    /\ c.step = "chat" /\ c.op \in {"leave", "remove", "expel"}
    /\ member' = IF c.do = "delete" THEN [member EXCEPT ![u].role = "none"] ELSE member
    /\ chat' = chat \ {u}
    /\ deposed' = IF c.op = "expel" /\ creator = u THEN deposed \union {u} ELSE deposed
    /\ Note(c)
    /\ End(k)
    /\ UNCHANGED <<creator, privacy, request, left, hidden>>

(* deleteChat by the creator hides the chat from him and no more.           *)
HideChat(u) ==
    /\ u \in chat
    /\ creator = u
    /\ chat' = chat \ {u}
    /\ hidden' = hidden \union {u}
    /\ UNCHANGED <<creator, privacy, member, request, call, left, crossed, raced, deposed>>

(* restoreCommunityChatMembership, when a chat without its row is opened.   *)
BeginRestore(k, u) ==
    /\ u \notin chat
    /\ creator = u \/ IsMember(u)
    /\ Begin(k, "restore", "write", u)

Restore(k) ==
    LET c == call[k] IN
    /\ c.op = "restore"
    /\ chat' = chat \union {c.of}
    /\ crossed' = IF Overtaken(c) THEN crossed \union {c.of} ELSE crossed
    /\ End(k)
    /\ UNCHANGED <<creator, privacy, member, request, left, hidden, raced, deposed>>

-----------------------------------------------------------------------------
(* Roles and ownership *)

(* updateAdminMemberRole spares owners; updateMemberRole of the back office *)
(* spares the last of them.                                                 *)
BeginRole(k, a, u, role) ==
    /\ MayAdminister(a)
    /\ member[u].role \in {"member", "moderator"}
    /\ role # "owner"
    /\ Begin(k, role, "write", u)

BeginAppoint(k, u, role) ==
    /\ IsMember(u)
    /\ (member[u].role = "owner" /\ role # "owner") => Cardinality(Owners) > 1
    /\ Begin(k, role, "write", u)

SetRole(k) ==
    LET c == call[k]
        u == c.of
    IN
    /\ c.op \in Roles
    /\ IsMember(u) /\ member[u].id = c.saw.seat.id
    /\ ~SeatHeld(u)
    /\ member' = [member EXCEPT ![u].role = c.op]
    /\ deposed' = IF creator = u /\ c.saw.creator = u /\ c.op # "owner"
                  THEN deposed \union {u} ELSE deposed
    /\ Note(c)
    /\ End(k)
    /\ UNCHANGED <<creator, privacy, chat, request, left, hidden>>

BeginTransfer(k, a, u) ==
    /\ MayAdminister(a)
    /\ IsMember(u)
    /\ Begin(k, "transfer", "write", u)

(* Slip: the new owner is made before the old ones are unmade.              *)
HandedPromoteFirst(u) ==
    [v \in Users |-> IF v = u \/ v \in Owners
                     THEN [member[v] EXCEPT !.role = "moderator"] ELSE member[v]]

(* All owners become moderators, then the new one owner.                    *)
Handed(u) ==
    [v \in Users |->
        IF v = u THEN [member[v] EXCEPT !.role = "owner"]
        ELSE IF v \in Owners THEN [member[v] EXCEPT !.role = "moderator"]
        ELSE member[v]]

TransferOwnership(k) ==
    LET c == call[k]
        u == c.of
    IN
    /\ c.op = "transfer"
    /\ IsMember(u) /\ member[u].id = c.saw.seat.id
    /\ \A v \in Owners \union {u} : ~SeatHeld(v)
    /\ creator' = u
    /\ member' = Handed(u)
    /\ End(k)
    /\ UNCHANGED <<privacy, chat, request, left>>
    /\ UNCHANGED history

(* updateAdminSettings and updateCommunity                                  *)
SetPrivacy(p) ==
    /\ privacy # p
    /\ privacy' = p
    /\ UNCHANGED <<creator, member, chat, request, call, left>>
    /\ UNCHANGED history

-----------------------------------------------------------------------------
Next ==
    \/ \E k \in Calls :
          \/ \E u \in Users :
                \/ BeginJoin(k, u) \/ BeginRequest(k, u) \/ BeginLeave(k, u)
                \/ BeginExpel(k, u) \/ BeginRestore(k, u)
                \/ \E role \in Roles : BeginAppoint(k, u, role)
                \/ \E a \in Users :
                      \/ \E op \in {"approve", "reject"} : BeginReview(k, a, u, op)
                      \/ BeginRemove(k, a, u)
                      \/ \E role \in Roles : BeginRole(k, a, u, role)
                      \/ BeginTransfer(k, a, u)
          \/ Seat(k) \/ Admit(k) \/ Request(k) \/ Reject(k) \/ Unseat(k) \/ Part(k)
          \/ Restore(k) \/ SetRole(k) \/ TransferOwnership(k)
          \/ Fail(k)
    \/ \E u \in Users : CancelJoinRequest(u) \/ HideChat(u)
    \/ \E p \in {"public", "private"} : SetPrivacy(p)

Spec == Init /\ [][Next]_vars

-----------------------------------------------------------------------------
TypeOK ==
    /\ creator \in Users
    /\ \A u \in Users : member[u].role \in Roles \union {"none"}
    /\ \A u \in Users : request[u].status \in {"none", "pending", "approved", "rejected"}
    /\ chat \subseteq Users

(* A member is in the chat, but for a creator who hid the chat from         *)
(* himself; and who is in the chat is a member, but for a creator whom the  *)
(* back office put out. Neither is said of users whose seat, or whose being *)
(* the creator, changed while a call about them was on its way.             *)
SeatsMatch ==
    \A u \in Users \ crossed :
        /\ IsMember(u) => u \in chat \/ u \in hidden
        /\ u \in chat => IsMember(u) \/ u \in deposed

(* The creator is an owner, so that there is one: unless the back office    *)
(* has demoted or removed him, or ownership changed under a call that       *)
(* wrote an owner's row.                                                    *)
CreatorOwns == raced \/ creator \in deposed \/ member[creator].role = "owner"

(* Through joins, approvals, departures, removals and transfers.            *)
CommunityHolds == SeatsMatch /\ CreatorOwns
=============================================================================
