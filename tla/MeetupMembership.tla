-------------------------- MODULE MeetupMembership --------------------------
(* Who belongs to one meetup: its seats (EventParticipant), its chat members *)
(* (ChatMember), its check-ins (EventAttendance), and the requests and       *)
(* invites that lead to a seat (one EventJoinRequest per user).              *)
(*                                                                           *)
(* A call of the API reads what it decides on, then runs the statements of   *)
(* a READ COMMITTED transaction: each statement sees what is committed when  *)
(* it runs, a written row is locked until the transaction ends, and a        *)
(* refused statement rolls the whole call back.  A call is therefore a list  *)
(* of statements (todo), what it read (saw) and what it has written and not  *)
(* yet committed (wrote).                                                    *)
EXTENDS Naturals, Sequences, FiniteSets

CONSTANTS
    Guests, Host,   \* the users of the meetup; the host is none of the guests
    Calls,          \* calls in flight at the same time
    Kinds,          \* the kinds of call that occur
    Starts,         \* how a guest may stand to the meetup at the start
    Capacities,     \* the capacities a meetup is given, at least 2 each
    MaxCalls        \* bound: calls in one behaviour

VARIABLES
    event,          \* capacity, joinMode, dating, canceled, and chat: it has one
    participants,   \* EventParticipant
    members,        \* ChatMember of the meetup's chat
    attendance,     \* EventAttendance, "none" for no row
    request,        \* EventJoinRequest, NoRequest for no row
    hostKeys,       \* users whose event_join_request dedupe key is taken
    guestKeys,      \* users whose event_invite dedupe key is taken
    call,           \* the calls in flight
    \* history, read by properties and bounds only
    begun,          \* calls begun
    crossed,        \* users who were let in and taken out by calls in flight together
    seatedByAdmin,  \* users an admin's approval has seated
    verdicts,       \* per user, guarded decisions since the request was last opened
    notices         \* per user, host notices since the request was last opened

rows == <<event, participants, members, attendance, request, hostKeys, guestKeys>>
history == <<crossed, seatedByAdmin, verdicts, notices>>
vars == <<rows, call, begun, history>>

People == Guests \cup {Host}

Presences == {"none", "not_checked_in", "checked_in", "left"}
Statuses == {"none", "pending", "approved", "rejected", "canceled"}

(* byHost: reviewedById is the host.  Of a pending row it says: an invite.   *)
Requests == [status : Statuses, byHost : BOOLEAN]
NoRequest == [status |-> "none", byHost |-> FALSE]
OwnRequest == [status |-> "pending", byHost |-> FALSE]
Invite == [status |-> "pending", byHost |-> TRUE]
Approved == [status |-> "approved", byHost |-> TRUE]
Rejected == [status |-> "rejected", byHost |-> TRUE]

Events == [capacity : Capacities, joinMode : {"open", "request"},
           dating : BOOLEAN, canceled : BOOLEAN, chat : BOOLEAN]

Nothing == [seat |-> {}, member |-> {}, attendance |-> {}, request |-> {},
            hostNotice |-> {}, guestNotice |-> {}, closed |-> {}]

Idle == [kind |-> "idle", user |-> Host, todo |-> <<>>, seats |-> {},
         status |-> "none", event |-> {}, wrote |-> Nothing,
         holdsEvent |-> FALSE]

CallKinds ==
    {"idle", "join", "leave", "deleteChat", "request", "cancel", "invite", "accept",
     "decline", "approve", "reject", "adminApprove", "adminReject", "adminRemove",
     "restore", "checkIn", "finish", "edit", "adminEdit"}

Statements ==
    {"findSeat", "checkRoom", "addSeat", "dropSeat", "removeSeat", "expect", "markLeft",
     "checkIn", "addMember", "dropMember", "readRequest", "openRequest", "tellHost",
     "cancelRow", "inviteRow", "tellGuest", "decide", "overrule", "closeDate",
     "setEvent", "settle"}

(* What a call has written, at most one new value per table.                *)
Writes ==
    [seat : SUBSET BOOLEAN, member : SUBSET BOOLEAN, attendance : SUBSET Presences,
     request : SUBSET Requests, hostNotice : SUBSET {TRUE}, guestNotice : SUBSET {TRUE},
     closed : SUBSET {TRUE}]

InFlight ==
    [kind : CallKinds, user : People, todo : Seq(Statements), seats : SUBSET People,
     status : Statuses, event : SUBSET Events, wrote : Writes, holdsEvent : BOOLEAN]

Entering == {"join", "approve", "adminApprove", "accept", "restore",
             "checkIn", "finish"}
Leaving == {"leave", "deleteChat", "adminRemove"}

-----------------------------------------------------------------------------
(* A guest's standing at the start: rows that finished calls have left.      *)
Seated == {"joined", "admitted"}

StartRequest(s) ==
    CASE s = "asked" -> OwnRequest
      [] s = "invited" -> Invite
      [] s \in {"admitted", "left"} -> Approved
      [] s \in {"refused", "declined"} -> Rejected
      [] OTHER -> NoRequest

Init ==
    /\ \E c \in Capacities, m \in {"open", "request"}, d \in BOOLEAN :
         event = [capacity |-> c, joinMode |-> m, dating |-> d,
                  canceled |-> FALSE, chat |-> TRUE]
    /\ \E start \in [Guests -> Starts] :
         LET at(S) == {g \in Guests : start[g] \in S} IN
         /\ participants = at(Seated) \cup {Host}
         /\ Cardinality(participants) <= event.capacity
         /\ event.dating =>
              /\ event.capacity = 2
              /\ at({"outside", "invited", "admitted", "left"}) = Guests
         /\ attendance = [u \in People |->
                IF u \in participants THEN "not_checked_in"
                ELSE IF u \in at({"left"}) THEN "left" ELSE "none"]
         /\ request = [g \in Guests |-> StartRequest(start[g])]
         /\ hostKeys = IF event.dating THEN {}
                       ELSE at({"asked", "admitted", "left", "refused"})
         /\ guestKeys = IF event.dating THEN Guests \ at({"outside"})
                        ELSE at({"invited", "declined"})
         /\ notices = [g \in Guests |-> IF start[g] = "asked" THEN 1 ELSE 0]
    /\ members = participants
    /\ call = [c \in Calls |-> Idle]
    /\ begun = 0
    /\ crossed = {}
    /\ seatedByAdmin = {}
    /\ verdicts = [g \in Guests |-> 0]

-----------------------------------------------------------------------------
(* The beginning of a call: its reads outside the transaction, with the      *)
(* early returns as guards, and the statements that will follow.             *)
Opposed(k, l) == (k \in Entering /\ l \in Leaving) \/ (k \in Leaving /\ l \in Entering)

Crosses(kind, u) ==
    LET others == {c \in Calls : Opposed(kind, call[c].kind)}
    IN  {u : c \in {d \in others : call[d].user = u \/ call[d].kind = "finish"}}
          \cup (IF kind = "finish" THEN {call[c].user : c \in others} ELSE {})

Begin(c, kind, u, statements, new) ==
    /\ call[c].kind = "idle"
    /\ kind \in Kinds
    /\ begun < MaxCalls
    /\ begun' = begun + 1
    /\ call' = [call EXCEPT ![c] =
         [Idle EXCEPT !.kind = kind, !.user = u, !.todo = statements,
            !.event = new,
            !.seats = IF kind \in {"request", "adminRemove", "finish"}
                      THEN participants ELSE {},
            !.status = IF kind = "invite" THEN request[u].status ELSE "none"]]
    /\ crossed' = crossed \cup Crosses(kind, u)
    /\ UNCHANGED <<rows, seatedByAdmin, verdicts, notices>>

(* The chat is entered if the meetup still had one when it was read.         *)
EnterChat == IF event.chat THEN <<"addMember">> ELSE <<>>
Enter == <<"addSeat", "expect">> \o EnterChat

JoinEvent(c, u) ==
    /\ event.chat
    /\ event.joinMode = "open"
    /\ Begin(c, "join", u, <<"findSeat", "checkRoom">> \o Enter, {})

\* Slip: leaving forgets the chat.
LeaveEventOnly(c, u) ==
    /\ event.chat
    /\ Begin(c, "leave", u, <<"dropSeat", "markLeft">>, {})

LeaveEvent(c, u) ==
    /\ event.chat
    /\ Begin(c, "leave", u, <<"dropSeat", "markLeft", "dropMember">>, {})

(* DELETE /chats: the host hides the chat only, a guest leaves the meetup.   *)
DeleteChat(c, u) ==
    /\ event.chat
    /\ u \in members
    /\ Begin(c, "deleteChat", u,
             IF u = Host THEN <<"dropMember">>
             ELSE <<"dropSeat", "markLeft", "dropMember">>, {})

CreateJoinRequest(c, u) ==
    /\ u # Host
    /\ event.joinMode = "request"
    /\ Begin(c, "request", u, <<"readRequest", "openRequest", "tellHost">>, {})

CancelJoinRequest(c, u) ==
    /\ u # Host
    /\ request[u].status = "pending"
    /\ Begin(c, "cancel", u, <<"cancelRow">>, {})

InviteUserToEvent(c, u) ==
    /\ u # Host
    /\ ~event.canceled
    /\ event.chat
    /\ u \notin participants
    /\ request[u].status \notin {"approved", "pending"}
    /\ Begin(c, "invite", u, <<"checkRoom", "inviteRow", "tellGuest">>, {})

AcceptInvite(c, u) ==
    /\ u # Host
    /\ request[u] = Invite
    /\ Begin(c, "accept", u, <<"checkRoom", "decide">> \o Enter, {})

DeclineInvite(c, u) ==
    /\ u # Host
    /\ request[u] = Invite
    /\ Begin(c, "decline", u,
             IF event.dating /\ event.capacity = 2
             THEN <<"decide", "closeDate">> ELSE <<"decide">>, {})

ApproveRequest(c, u) ==
    /\ u # Host
    /\ request[u].status = "pending"
    /\ Begin(c, "approve", u, <<"decide", "checkRoom">> \o Enter, {})

RejectRequest(c, u) ==
    /\ u # Host
    /\ request[u].status = "pending"
    /\ Begin(c, "reject", u, <<"decide">>, {})

(* The admin panel reviews a request in any state.                           *)
ReviewJoinRequest(c, u) ==
    /\ u # Host
    /\ request[u] # NoRequest
    /\ \/ Begin(c, "adminApprove", u, <<"overrule", "addSeat">> \o EnterChat, {})
       \/ Begin(c, "adminReject", u, <<"overrule">>, {})

RemoveParticipant(c, u) ==
    /\ u # Host
    /\ u \in participants
    /\ Begin(c, "adminRemove", u, <<"removeSeat", "dropMember">>, {})

(* The chat server lets a seat holder without a ChatMember row back in.      *)
RestoreMembership(c, u) ==
    /\ event.chat
    /\ u \notin members
    /\ u = Host \/ u \in participants
    /\ Begin(c, "restore", u, <<"addMember">>, {})

(* confirmCheckIn by the user and manualCheckIn by the host.                 *)
CheckIn(c, u) ==
    /\ u \in participants
    /\ Begin(c, "checkIn", u, <<"checkIn">>, {})

(* finishLive: everyone seated is either checked in or reset.                *)
FinishLive(c) == Begin(c, "finish", Host, <<"settle">>, {})

(* updateHostedEvent compares the capacity with the seats it read;           *)
(* the admin's updateMeetup does not.                                        *)
EditEvent(c) ==
    \E n \in Capacities, m \in {"open", "request"} :
        LET new == {[event EXCEPT !.capacity = n, !.joinMode = m]} IN
        \/ /\ n >= Cardinality(participants)
           /\ Begin(c, "edit", Host, <<"setEvent">>, new)
        \/ Begin(c, "adminEdit", Host, <<"setEvent">>, new)

Start(c) ==
    \/ \E u \in People :
         \/ JoinEvent(c, u)
         \/ LeaveEvent(c, u)
         \/ DeleteChat(c, u)
         \/ CreateJoinRequest(c, u)
         \/ CancelJoinRequest(c, u)
         \/ InviteUserToEvent(c, u)
         \/ AcceptInvite(c, u)
         \/ DeclineInvite(c, u)
         \/ ApproveRequest(c, u)
         \/ RejectRequest(c, u)
         \/ ReviewJoinRequest(c, u)
         \/ RemoveParticipant(c, u)
         \/ RestoreMembership(c, u)
         \/ CheckIn(c, u)
    \/ FinishLive(c)
    \/ EditEvent(c)

-----------------------------------------------------------------------------
(* One statement of call c at a time.                                        *)
At(c, s) == call[c].todo # <<>> /\ Head(call[c].todo) = s

Only(c) == UNCHANGED <<rows, begun, history>>

Skip(c) == call' = [call EXCEPT ![c].todo = Tail(@)] /\ Only(c)
Fail(c) == call' = [call EXCEPT ![c] = Idle] /\ Only(c)
Put(c, table, value) ==
    /\ call' = [call EXCEPT ![c].todo = Tail(@), ![c].wrote[table] = {value}]
    /\ Only(c)

(* Nobody else has an uncommitted write of the user's row in this table.     *)
RowFree(c, table) ==
    \A d \in Calls \ {c} :
        call[d].user = call[c].user => call[d].wrote[table] = {}

(* SELECT ... FOR UPDATE of the Event row, and the key-share lock that an    *)
(* insert of a row pointing to it takes, exclude each other.                 *)
EventFree(c) == \A d \in Calls \ {c} : ~call[d].holdsEvent

Inserts(d) ==
    \/ call[d].wrote.seat = {TRUE}
    \/ call[d].wrote.attendance # {} /\ attendance[call[d].user] = "none"
    \/ call[d].wrote.request # {} /\ request[call[d].user] = NoRequest

FindSeat(c) ==
    /\ At(c, "findSeat")
    /\ call' = [call EXCEPT ![c].todo = Tail(@), ![c].seats = participants]
    /\ Only(c)

(* A join that found its seat skips the check; the others always check.      *)
Exempt(c) == call[c].kind = "join" /\ call[c].user \in call[c].seats

\* Slip: the event row is read without FOR UPDATE, so nobody is waited for.
CheckRoomUnlocked(c) ==
    /\ At(c, "checkRoom")
    /\ IF Exempt(c) THEN Skip(c)
       ELSE IF Cardinality(participants) < event.capacity
       THEN /\ call' = [call EXCEPT ![c].todo = Tail(@), ![c].holdsEvent = TRUE]
            /\ Only(c)
       ELSE Fail(c)

CheckRoom(c) ==
    /\ At(c, "checkRoom")
    /\ \/ /\ Exempt(c)
          /\ Skip(c)
       \/ /\ ~Exempt(c)
          /\ EventFree(c)
          /\ \A d \in Calls \ {c} : ~Inserts(d)
          /\ IF Cardinality(participants) < event.capacity
             THEN /\ call' = [call EXCEPT ![c].todo = Tail(@), ![c].holdsEvent = TRUE]
                  /\ Only(c)
             ELSE Fail(c)

AddSeat(c) ==
    /\ At(c, "addSeat")
    /\ RowFree(c, "seat")
    /\ IF call[c].user \in participants
       THEN Skip(c)
       ELSE EventFree(c) /\ Put(c, "seat", TRUE)

(* deleteMany waits for a row it sees and does not see an uncommitted one.   *)
DropSeat(c) ==
    /\ At(c, "dropSeat")
    /\ IF call[c].user \in participants
       THEN RowFree(c, "seat") /\ Put(c, "seat", FALSE)
       ELSE Skip(c)

(* The admin deletes the row it read by its id; without it the call fails.   *)
RemoveSeat(c) ==
    /\ At(c, "removeSeat")
    /\ IF call[c].user \in call[c].seats
       THEN RowFree(c, "seat") /\ Put(c, "seat", FALSE)
       ELSE Fail(c)

\* Slip: the second and later arrivals keep their old attendance row.
MarkNewOnly(c, s, presence) ==
    /\ At(c, s)
    /\ IF attendance[call[c].user] = "none" THEN Put(c, "attendance", presence)
       ELSE Skip(c)

Mark(c, s, presence) ==
    /\ At(c, s)
    /\ RowFree(c, "attendance")
    /\ attendance[call[c].user] = "none" => EventFree(c)
    /\ Put(c, "attendance", presence)

AddMember(c) ==
    /\ At(c, "addMember")
    /\ RowFree(c, "member")
    /\ IF ~event.chat THEN Fail(c)
       ELSE IF call[c].user \in members THEN Skip(c)
       ELSE Put(c, "member", TRUE)

DropMember(c) ==
    /\ At(c, "dropMember")
    /\ IF call[c].user \in members
       THEN RowFree(c, "member") /\ Put(c, "member", FALSE)
       ELSE Skip(c)

-----------------------------------------------------------------------------
(* The statements on the user's EventJoinRequest row.                        *)
ReadRequest(c) ==
    /\ At(c, "readRequest")
    /\ LET u == call[c].user IN
       IF request[u].status = "approved" /\ u \in call[c].seats
       THEN Fail(c)
       ELSE /\ call' = [call EXCEPT ![c].todo = Tail(@),
                                    ![c].status = request[u].status]
            /\ Only(c)

(* The row is reopened, if it was closed when it was read.                   *)
Reopens(c) == call[c].status \in {"rejected", "canceled", "approved"}

OpenRequest(c) ==
    /\ At(c, "openRequest")
    /\ LET row == request[call[c].user] IN
       \/ /\ Reopens(c)
          /\ IF row.status = call[c].status
             THEN RowFree(c, "request") /\ Put(c, "request", OwnRequest)
             ELSE Fail(c)
       \/ /\ ~Reopens(c)
          /\ RowFree(c, "request")
          /\ \/ row = NoRequest /\ EventFree(c) /\ Put(c, "request", OwnRequest)
             \/ row.status = "pending" /\ Put(c, "request", row)
             \/ row.status \notin {"none", "pending"} /\ Fail(c)

\* Slip: every request call notifies the host.
TellHostAlways(c) == At(c, "tellHost") /\ Put(c, "hostNotice", TRUE)

TellHost(c) ==
    /\ At(c, "tellHost")
    /\ IF call[c].user \in hostKeys /\ ~Reopens(c)
       THEN Skip(c)
       ELSE Put(c, "hostNotice", TRUE)

CancelRow(c) ==
    /\ At(c, "cancelRow")
    /\ RowFree(c, "request")
    /\ Put(c, "request", [request[call[c].user] EXCEPT !.status = "canceled"])

(* The invite creates the row, or overwrites the one it read.                *)
InviteRow(c) ==
    /\ At(c, "inviteRow")
    /\ RowFree(c, "request")
    /\ IF call[c].status = "none" /\ request[call[c].user] # NoRequest
       THEN Fail(c)
       ELSE Put(c, "request", Invite)

(* A second invite meets the unique dedupe key of the first.                 *)
TellGuest(c) ==
    /\ At(c, "tellGuest")
    /\ IF call[c].user \in guestKeys THEN Fail(c) ELSE Put(c, "guestNotice", TRUE)

Outcome(kind) == IF kind \in {"approve", "accept", "adminApprove"} THEN Approved ELSE Rejected

\* Slip: the decision is written whatever has become of the row.
AnyState(c) == TRUE

(* updateMany ... WHERE status = 'pending': the user's own answers also      *)
(* require that the row is an invite.                                        *)
Decidable(c) ==
    LET row == request[call[c].user] IN
    /\ row.status = "pending"
    /\ call[c].kind \in {"accept", "decline"} => row.byHost

Decide(c) ==
    /\ At(c, "decide")
    /\ IF Decidable(c)
       THEN RowFree(c, "request") /\ Put(c, "request", Outcome(call[c].kind))
       ELSE Fail(c)

Overrule(c) ==
    /\ At(c, "overrule")
    /\ RowFree(c, "request")
    /\ Put(c, "request", Outcome(call[c].kind))

(* A declined date is canceled and its chat, with the members, deleted.      *)
CloseDate(c) ==
    /\ At(c, "closeDate")
    /\ EventFree(c)
    /\ IF event.chat THEN Put(c, "closed", TRUE) ELSE Fail(c)

SetEvent(c) ==
    /\ At(c, "setEvent")
    /\ EventFree(c)
    /\ event' = [event EXCEPT
         !.capacity = (CHOOSE e \in call[c].event : TRUE).capacity,
         !.joinMode = (CHOOSE e \in call[c].event : TRUE).joinMode]
    /\ call' = [call EXCEPT ![c] = Idle]
    /\ UNCHANGED <<participants, members, attendance, request, hostKeys,
                   guestKeys, begun, history>>

Settle(c) ==
    /\ At(c, "settle")
    /\ \A d \in Calls \ {c} : call[d].wrote.attendance = {}
    /\ EventFree(c)
    /\ \E attended \in SUBSET call[c].seats :
         attendance' = [u \in People |->
             IF u \in attended THEN "checked_in"
             ELSE IF u \in call[c].seats /\ attendance[u] # "none"
                  THEN "not_checked_in"
             ELSE attendance[u]]
    /\ call' = [call EXCEPT ![c] = Idle]
    /\ UNCHANGED <<event, participants, members, request, hostKeys, guestKeys,
                   begun, history>>

-----------------------------------------------------------------------------
(* The end of a call.                                                        *)
Added(set, u, new) ==
    IF TRUE \in new THEN set \cup {u} ELSE IF FALSE \in new THEN set \ {u} ELSE set
Updated(f, u, new) == [f EXCEPT ![u] = IF new = {} THEN @ ELSE CHOOSE v \in new : TRUE]

Opens(c) ==
    LET new == call[c].wrote.request IN
    /\ new \in {{OwnRequest}, {Invite}}
    /\ request[call[c].user].status # "pending"

Decides(c) == call[c].kind \in {"approve", "reject", "accept", "decline"}

Commit(c) ==
    LET u == call[c].user
        w == call[c].wrote
        closed == w.closed # {}
    IN
    /\ call[c].kind # "idle"
    /\ call[c].todo = <<>>
    /\ event' = [event EXCEPT !.canceled = @ \/ closed, !.chat = @ /\ ~closed]
    /\ participants' = Added(participants, u, w.seat)
    /\ members' = IF closed THEN {} ELSE Added(members, u, w.member)
    /\ attendance' = Updated(attendance, u, w.attendance)
    /\ request' = IF u \in Guests THEN Updated(request, u, w.request) ELSE request
    /\ hostKeys' = Added(hostKeys, u, w.hostNotice)
    /\ guestKeys' = Added(guestKeys, u, w.guestNotice)
    (* a seat read before it was deleted is not found again by its id *)
    /\ call' = [d \in Calls |->
         IF d = c THEN Idle
         ELSE IF call[d].kind = "adminRemove" /\ FALSE \in w.seat
              THEN [call[d] EXCEPT !.seats = @ \ {u}]
         ELSE call[d]]
    /\ seatedByAdmin' = IF call[c].kind = "adminApprove" THEN seatedByAdmin \cup {u}
                        ELSE seatedByAdmin
    /\ verdicts' = [g \in Guests |->
         IF g # u THEN verdicts[g]
         ELSE IF Opens(c) THEN 0
         ELSE IF Decides(c) THEN verdicts[g] + 1
         ELSE verdicts[g]]
    /\ notices' = [g \in Guests |->
         IF g # u THEN notices[g]
         ELSE (IF Opens(c) THEN 0 ELSE notices[g]) + Cardinality(w.hostNotice)]
    /\ UNCHANGED <<begun, crossed>>

(* The call ends without an effect: a refusal before its transaction, a      *)
(* deadlock's victim, the transaction's timeout, a lost connection.          *)
Abort(c) ==
    /\ call[c].kind # "idle"
    /\ Fail(c)

Statement(c) ==
    \/ FindSeat(c)
    \/ CheckRoom(c)
    \/ AddSeat(c)
    \/ DropSeat(c)
    \/ RemoveSeat(c)
    \/ Mark(c, "expect", "not_checked_in")
    \/ Mark(c, "markLeft", "left")
    \/ Mark(c, "checkIn", "checked_in")
    \/ AddMember(c)
    \/ DropMember(c)
    \/ ReadRequest(c)
    \/ OpenRequest(c)
    \/ TellHost(c)
    \/ CancelRow(c)
    \/ InviteRow(c)
    \/ TellGuest(c)
    \/ Decide(c)
    \/ Overrule(c)
    \/ CloseDate(c)
    \/ SetEvent(c)
    \/ Settle(c)

Next == \E c \in Calls : Start(c) \/ Statement(c) \/ Commit(c) \/ Abort(c)

Spec == Init /\ [][Next]_vars

-----------------------------------------------------------------------------
(* The rows and calls have the values their columns allow.                   *)
TypeOK ==
    /\ event \in Events
    /\ participants \subseteq People
    /\ members \subseteq People
    /\ attendance \in [People -> Presences]
    /\ request \in [Guests -> Requests]
    /\ hostKeys \subseteq Guests
    /\ guestKeys \subseteq Guests
    /\ call \in [Calls -> InFlight]
    /\ begun \in Nat
    /\ verdicts \in [Guests -> Nat]
    /\ notices \in [Guests -> Nat]

(* A call that checked the room under the event's lock never commits a seat  *)
(* beyond the capacity, whatever else is joining, approved by an admin or    *)
(* edited at the time.                                                       *)
CheckedSeat ==
    \A c \in Calls :
        call[c].holdsEvent /\ participants' # participants /\ call'[c] = Idle
            => Cardinality(participants') <= event'.capacity
CheckedSeatFits == [][CheckedSeat]_vars

(* A guest has a seat exactly when he is in the meetup's chat, unless a call *)
(* letting him in and one taking him out overlapped.                         *)
SeatIffMember ==
    event.chat => \A g \in Guests \ crossed : g \in participants <=> g \in members

(* With the same exception, and except for an admin's approval (which        *)
(* writes no attendance), a seat holder is never on record as having left.   *)
AttendanceFollowsSeat ==
    \A g \in participants \ (crossed \cup seatedByAdmin) :
        attendance[g] \in {"not_checked_in", "checked_in"}

(* A seat, the chat and the attendance agree on who takes part.             *)
SeatsAgree == SeatIffMember /\ AttendanceFollowsSeat

(* Between two openings of a request at most one of the host's and the       *)
(* guest's guarded decisions on it succeeds.                                 *)
OneVerdict == \A g \in Guests : verdicts[g] <= 1

(* The host is told of every open request exactly once per opening: a        *)
(* duplicate call adds no notice, a reopened request gets a fresh one.       *)
OneNotice == \A g \in Guests : request[g] = OwnRequest => notices[g] = 1

(* A request is decided once, and the host is told of it once.              *)
DecidedOnce == OneVerdict /\ OneNotice

(* A review that races a request call does not send an approved request of   *)
(* a seat holder back to pending.                                            *)
ReviewStands ==
    [][\A g \in Guests :
         request[g].status = "approved" /\ g \in participants /\ g \in participants'
           => request'[g].status # "pending"]_vars

(* Direct joins and leaves alone never seat more users than the capacity,    *)
(* because a join locks the event row and counts the seats.                  *)
JoinsKeepCapacity == Cardinality(participants) <= event.capacity
=============================================================================
