-------------------------- MODULE MembershipProofs --------------------------
(* Who belongs to a meetup, for any guests, calls, capacities and starts.    *)
EXTENDS MeetupMembership, FiniteSetTheorems, SequenceTheorems, TLAPS

(* What the constants are.  Kinds and Calls may be anything.                 *)
ConstantsFit ==
    /\ Host \notin Guests /\ IsFiniteSet(Guests)
    /\ Kinds \subseteq CallKinds
    /\ Starts \subseteq {"outside", "joined", "asked", "invited", "admitted", "left",
                         "refused", "declined"}
    /\ Capacities \subseteq Nat

-----------------------------------------------------------------------------
(* The calls.                                                                *)
SeatTakers == {"join", "approve", "accept", "adminApprove"}
Deciders == {"approve", "reject", "accept", "decline"}
Reviewers == Deciders \cup {"request", "cancel", "invite", "adminApprove", "adminReject"}

(* The kinds of call that run a statement.                                   *)
RunBy(s) ==
    CASE s = "findSeat" -> {"join"}
      [] s = "checkRoom" -> {"join", "approve", "accept", "invite"}
      [] s = "addSeat" -> SeatTakers
      [] s = "expect" -> {"join", "approve", "accept"}
      [] s = "addMember" -> SeatTakers \cup {"restore"}
      [] s \in {"dropSeat", "markLeft"} -> {"leave", "deleteChat"}
      [] s = "removeSeat" -> {"adminRemove"}
      [] s = "dropMember" -> Leaving
      [] s = "checkIn" -> {"checkIn"}
      [] s \in {"readRequest", "openRequest", "tellHost"} -> {"request"}
      [] s = "cancelRow" -> {"cancel"}
      [] s \in {"inviteRow", "tellGuest"} -> {"invite"}
      [] s = "decide" -> Deciders
      [] s = "overrule" -> {"adminApprove", "adminReject"}
      [] s = "closeDate" -> {"decline"}
      [] s = "setEvent" -> {"edit", "adminEdit"}
      [] s = "settle" -> {"finish"}

(* The statements a call has ahead of it.                                    *)
Ahead(c) == {call[c].todo[i] : i \in DOMAIN call[c].todo}

HidesChat(c) == call[c].kind = "deleteChat" /\ call[c].user = Host

(* A call runs the statements of its kind, on a guest's request if on any. *)
StatementsFit(c) ==
    /\ \A s \in Ahead(c) : call[c].kind \in RunBy(s)
    /\ HidesChat(c) => Ahead(c) \subseteq {"dropMember"}
    /\ "setEvent" \in Ahead(c) => call[c].event # {}
    /\ call[c].kind \in Reviewers => call[c].user \in Guests

(* It writes what they write.                                                *)
WritesFit(c) ==
    /\ call[c].wrote.seat \in {{}, {TRUE}, {FALSE}}
    /\ TRUE \in call[c].wrote.seat => call[c].kind \in SeatTakers
    /\ FALSE \in call[c].wrote.seat => call[c].kind \in Leaving
    /\ TRUE \in call[c].wrote.member => call[c].kind \in SeatTakers \cup {"restore"}
    /\ FALSE \in call[c].wrote.member => call[c].kind \in Leaving
    /\ \A p \in call[c].wrote.attendance :
         \/ p \in {"not_checked_in", "checked_in"}
         \/ p = "left" /\ call[c].kind \in {"leave", "deleteChat"} /\ ~HidesChat(c)
    /\ call[c].wrote.request # {} => call[c].kind \in Reviewers
    /\ call[c].kind = "cancel" => \A r \in call[c].wrote.request : r.status = "canceled"
    /\ call[c].kind = "invite" => call[c].wrote.request \subseteq {Invite}
    /\ call[c].kind \in {"adminApprove", "adminReject"} =>
         call[c].wrote.request \subseteq {Approved, Rejected}
    /\ call[c].wrote.hostNotice # {} => call[c].kind = "request"
    /\ call[c].wrote.guestNotice # {} => call[c].kind = "invite"

-----------------------------------------------------------------------------
(* Seats.                                                                    *)

(* The event's lock is held by one call, while there is room, and nobody     *)
(* else has a seat on the way.                                               *)
LockHolds ==
    \A c \in Calls : call[c].holdsEvent =>
        /\ Cardinality(participants) < event.capacity
        /\ \A d \in Calls \ {c} : TRUE \notin call[d].wrote.seat /\ ~call[d].holdsEvent

(* Who is let in and taken out by calls in flight together is crossed.       *)
CrossedIsKnown ==
    \A c, d \in Calls : Opposed(call[c].kind, call[d].kind) =>
        /\ call[c].user = call[d].user => call[c].user \in crossed
        /\ call[c].kind = "finish" => call[d].user \in crossed

(* What a call that lets its user in has done so far.                        *)
LetsIn(c) ==
    call[c].user \notin crossed =>
        /\ call[c].kind \in SeatTakers /\ "addSeat" \notin Ahead(c) =>
             TRUE \in call[c].wrote.seat \/ call[c].user \in participants
        /\ call[c].kind = "restore" =>
             call[c].user = Host \/ call[c].user \in participants
        /\ call[c].kind \in SeatTakers \cup {"restore"} /\ "addMember" \notin Ahead(c) /\ event.chat =>
             TRUE \in call[c].wrote.member \/ call[c].user \in members
        /\ call[c].kind \in SeatTakers \ {"adminApprove"} /\ "expect" \notin Ahead(c) =>
             call[c].wrote.attendance = {"not_checked_in"}

(* What a call that takes its user out has done so far.                      *)
TakesOut(c) ==
    call[c].kind \in Leaving /\ call[c].user \notin crossed =>
        /\ "dropMember" \notin Ahead(c) =>
             FALSE \in call[c].wrote.member \/ call[c].user \notin members
        /\ ~HidesChat(c) /\ "dropSeat" \notin Ahead(c) /\ "removeSeat" \notin Ahead(c) =>
             FALSE \in call[c].wrote.seat \/ call[c].user \notin participants

SeatsInv ==
    /\ LockHolds
    /\ CrossedIsKnown
    /\ \A c \in Calls : LetsIn(c) /\ TakesOut(c)
    /\ SeatsAgree

-----------------------------------------------------------------------------
(* Requests.                                                                 *)

(* A request's row is being written by one call at most.                     *)
RequestIsLocked ==
    \A c, d \in Calls : c # d /\ call[c].user = call[d].user =>
        call[c].wrote.request = {} \/ call[d].wrote.request = {}

(* A decision that is written was on a pending row.                          *)
DecidesPending(c) ==
    call[c].kind \in Deciders =>
        /\ "decide" \notin Ahead(c) => call[c].wrote.request = {Outcome(call[c].kind)}
        /\ call[c].wrote.request # {} =>
             /\ call[c].wrote.request = {Outcome(call[c].kind)}
             /\ request[call[c].user].status = "pending"

(* What a request call finds decides what it writes, and whether it tells.   *)
Opening(c) ==
    /\ Reopens(c)
    /\ call[c].wrote.request = {OwnRequest}
    /\ request[call[c].user].status = call[c].status

Creating(c) ==
    /\ ~Reopens(c)
    /\ call[c].wrote.request = {OwnRequest}
    /\ request[call[c].user] = NoRequest

Repeating(c) ==
    /\ ~Reopens(c)
    /\ request[call[c].user].status = "pending"
    /\ call[c].wrote.request = {request[call[c].user]}

Asks(c) ==
    call[c].kind = "request" =>
        \/ /\ call[c].todo \in {<<"readRequest", "openRequest", "tellHost">>,
                                <<"openRequest", "tellHost">>}
           /\ call[c].wrote.request = {} /\ call[c].wrote.hostNotice = {}
        \/ /\ call[c].todo = <<"tellHost">>
           /\ Opening(c) \/ Creating(c) \/ Repeating(c)
           /\ call[c].wrote.hostNotice = {}
        \/ /\ call[c].todo = <<>>
           /\ \/ (Opening(c) \/ Creating(c)) /\ call[c].wrote.hostNotice = {TRUE}
              \/ Repeating(c) /\ (request[call[c].user] = OwnRequest => call[c].wrote.hostNotice = {})

(* A pending request is undecided, and the dedupe key says who was told.     *)
RequestsFit ==
    \A g \in Guests :
        /\ verdicts[g] <= 1
        /\ request[g].status = "pending" => verdicts[g] = 0
        /\ request[g] = NoRequest => g \notin hostKeys
        /\ request[g] = OwnRequest => g \in hostKeys /\ notices[g] = 1

RequestsInv ==
    /\ RequestIsLocked
    /\ \A c \in Calls : DecidesPending(c) /\ Asks(c)
    /\ RequestsFit

IInv ==
    /\ TypeOK
    /\ \A c \in Calls : StatementsFit(c) /\ WritesFit(c)
    /\ SeatsInv
    /\ RequestsInv

(* Everything said of one call.                                              *)
CallInv(c) ==
    /\ StatementsFit(c) /\ WritesFit(c)
    /\ LetsIn(c) /\ TakesOut(c)
    /\ DecidesPending(c) /\ Asks(c)

LEMMA IInvParts ==
    IInv <=> /\ TypeOK /\ LockHolds /\ CrossedIsKnown /\ SeatsAgree
             /\ RequestIsLocked /\ RequestsFit
             /\ \A c \in Calls : CallInv(c)
BY DEF IInv, SeatsInv, RequestsInv, CallInv

-----------------------------------------------------------------------------
(* What the other calls of a step rely on.                                   *)
OthersStand ==
    /\ UNCHANGED <<participants, members, request, hostKeys>>
    /\ event'.chat = event.chat
    /\ crossed \subseteq crossed'

LEMMA OthersKept ==
    ASSUME OthersStand, NEW d, CallInv(d), call'[d] = call[d]
    PROVE  CallInv(d)'
<1>1. Ahead(d)' = Ahead(d) /\ HidesChat(d)' = HidesChat(d) /\ Reopens(d)' = Reopens(d)
  BY DEF Ahead, HidesChat, Reopens
<1>2. StatementsFit(d)' /\ WritesFit(d)'
  BY <1>1 DEF StatementsFit, WritesFit, CallInv
<1>3. call[d].user \notin crossed' => call[d].user \notin crossed
  BY DEF OthersStand
<1>4. LetsIn(d)' /\ TakesOut(d)'
  BY <1>1, <1>3 DEF LetsIn, TakesOut, CallInv, OthersStand
<1>5. DecidesPending(d)'
  BY <1>1 DEF DecidesPending, CallInv, OthersStand
<1>6. Asks(d)'
  BY <1>1 DEF Asks, Opening, Creating, Repeating, CallInv, OthersStand
<1> QED BY <1>2, <1>4, <1>5, <1>6 DEF CallInv

LEMMA IdleFits == Idle \in InFlight
<1>1. Nothing \in Writes
  BY DEF Nothing, Writes
<1>2. <<>> \in Seq(Statements)
  OBVIOUS
<1>3. Host \in People
  BY DEF People
<1> QED BY <1>1, <1>2, <1>3 DEF Idle, InFlight, CallKinds, Statuses

LEMMA IdleInv ==
    ASSUME NEW c, call'[c] = Idle
    PROVE  CallInv(c)'
<1>1. /\ call'[c].kind = "idle" /\ call'[c].user = Host /\ call'[c].todo = <<>>
      /\ call'[c].wrote.seat = {} /\ call'[c].wrote.member = {}
      /\ call'[c].wrote.attendance = {} /\ call'[c].wrote.request = {}
      /\ call'[c].wrote.hostNotice = {} /\ call'[c].wrote.guestNotice = {}
  BY DEF Idle, Nothing
<1>2. Ahead(c)' = {}
  BY <1>1 DEF Ahead
<1>3. StatementsFit(c)'
  BY <1>1, <1>2 DEF StatementsFit, HidesChat, Reviewers, Deciders
<1>4. WritesFit(c)'
  BY <1>1 DEF WritesFit
<1>5. LetsIn(c)' /\ TakesOut(c)' /\ DecidesPending(c)' /\ Asks(c)'
  BY <1>1 DEF LetsIn, TakesOut, DecidesPending, Asks, SeatTakers, Deciders, Leaving
<1> QED BY <1>3, <1>4, <1>5 DEF CallInv

LEMMA OpposedIsApart ==
    \A k, l : Opposed(k, l) => k # "idle" /\ l # "idle" /\ k # l /\ Opposed(l, k)
BY DEF Opposed, Entering, Leaving

LEMMA CrossedKept ==
    ASSUME CrossedIsKnown, NEW c \in Calls, crossed \subseteq crossed',
           \A d \in Calls \ {c} : call'[d].kind = call[d].kind /\ call'[d].user = call[d].user,
           \/ call'[c].kind = "idle"
           \/ call'[c].kind = call[c].kind /\ call'[c].user = call[c].user
    PROVE  CrossedIsKnown'
<1>1. ASSUME NEW d \in Calls, NEW e \in Calls, Opposed(call'[d].kind, call'[e].kind)
      PROVE  /\ call'[d].user = call'[e].user => call'[d].user \in crossed'
             /\ call'[d].kind = "finish" => call'[e].user \in crossed'
  <2>1. /\ call'[d].kind = call[d].kind /\ call'[d].user = call[d].user
        /\ call'[e].kind = call[e].kind /\ call'[e].user = call[e].user
    BY <1>1, OpposedIsApart
  <2> QED BY <1>1, <2>1 DEF CrossedIsKnown
<1>2. \A k, l : Opposed(k, l)' = Opposed(k, l)
  BY DEF Opposed
<1> QED BY <1>1, <1>2 DEF CrossedIsKnown

(* A call that ends without having changed what is said of users.            *)
LEMMA EndKeeps ==
    ASSUME ConstantsFit, IInv, NEW c \in Calls, call' = [call EXCEPT ![c] = Idle],
           OthersStand, UNCHANGED <<guestKeys, begun, history>>,
           event' \in Events, attendance' \in [People -> Presences],
           AttendanceFollowsSeat',
           event' = event \/ \A d \in Calls \ {c} : ~call[d].holdsEvent
    PROVE  IInv'
<1>1. /\ TypeOK /\ LockHolds /\ CrossedIsKnown /\ SeatsAgree
      /\ RequestIsLocked /\ RequestsFit
      /\ \A d \in Calls : CallInv(d)
  BY IInvParts
<1>2. call \in [Calls -> InFlight]
  BY <1>1 DEF TypeOK
<1>3. /\ call' \in [Calls -> InFlight] /\ call'[c] = Idle
      /\ \A d \in Calls \ {c} : call'[d] = call[d]
  BY <1>2, IdleFits
<1>4. /\ UNCHANGED <<participants, members, request, hostKeys>>
      /\ event'.chat = event.chat
      /\ UNCHANGED <<crossed, seatedByAdmin, verdicts, notices>>
  BY DEF OthersStand, history
<1>5. TypeOK'
  BY <1>1, <1>3, <1>4 DEF TypeOK
<1>6. /\ call'[c].kind = "idle" /\ call'[c].wrote.seat = {}
      /\ call'[c].wrote.request = {} /\ call'[c].holdsEvent = FALSE
  BY <1>3 DEF Idle, Nothing
<1>7. LockHolds'
  BY <1>1, <1>3, <1>4, <1>6 DEF LockHolds
<1>8. CrossedIsKnown'
  BY <1>1, <1>3, <1>4, <1>6, CrossedKept
<1>9. RequestIsLocked'
  BY <1>1, <1>3, <1>6 DEF RequestIsLocked
<1>10. SeatsAgree' /\ RequestsFit'
  BY <1>1, <1>4 DEF SeatsAgree, SeatIffMember, RequestsFit
<1>11. \A d \in Calls : CallInv(d)'
  BY <1>1, <1>3, IdleInv, OthersKept
<1> QED BY <1>5, <1>7, <1>8, <1>9, <1>10, <1>11 DEF IInv, SeatsInv, RequestsInv, CallInv

LEMMA FailKeeps ==
    ASSUME ConstantsFit, IInv, NEW c \in Calls, Fail(c)
    PROVE  IInv'
<1>1. /\ call' = [call EXCEPT ![c] = Idle]
      /\ UNCHANGED <<event, participants, members, attendance, request, hostKeys, guestKeys>>
      /\ UNCHANGED <<begun, history>> /\ crossed' = crossed /\ seatedByAdmin' = seatedByAdmin
  BY DEF Fail, Only, rows, history
<1>2. event' \in Events /\ attendance' \in [People -> Presences]
  BY <1>1 DEF IInv, TypeOK
<1>3. AttendanceFollowsSeat'
  BY <1>1 DEF IInv, SeatsInv, SeatsAgree, AttendanceFollowsSeat
<1> QED BY <1>1, <1>2, <1>3, EndKeeps DEF OthersStand

LEMMA SetEventKeeps ==
    ASSUME ConstantsFit, IInv, NEW c \in Calls, SetEvent(c)
    PROVE  IInv'
<1> DEFINE new == CHOOSE e \in call[c].event : TRUE
<1>1. /\ event' = [event EXCEPT !.capacity = new.capacity, !.joinMode = new.joinMode]
      /\ call' = [call EXCEPT ![c] = Idle]
      /\ UNCHANGED <<participants, members, attendance, request, hostKeys, guestKeys>>
      /\ UNCHANGED <<begun, history>> /\ crossed' = crossed /\ seatedByAdmin' = seatedByAdmin
      /\ At(c, "setEvent") /\ EventFree(c)
  BY DEF SetEvent, history
<1>2. call[c] \in InFlight /\ event \in Events /\ StatementsFit(c)
  BY DEF IInv, TypeOK
<1>3. call[c].todo \in Seq(Statements) /\ call[c].event \subseteq Events
  BY <1>2 DEF InFlight
<1>4. "setEvent" \in Ahead(c)
  <2>1. call[c].todo # <<>> /\ Head(call[c].todo) = "setEvent"
    BY <1>1 DEF At
  <2>2. 1 \in DOMAIN call[c].todo /\ call[c].todo[1] = "setEvent"
    BY <2>1, <1>3, HeadTailProperties
  <2> QED BY <2>2 DEF Ahead
<1>5. new \in Events
  BY <1>2, <1>3, <1>4 DEF StatementsFit
<1> HIDE DEF new
<1>6. event' \in Events /\ event'.chat = event.chat
  BY <1>1, <1>2, <1>5 DEF Events
<1>7. attendance' \in [People -> Presences]
  BY <1>1 DEF IInv, TypeOK
<1>8. AttendanceFollowsSeat'
  BY <1>1 DEF IInv, SeatsInv, SeatsAgree, AttendanceFollowsSeat
<1>9. \A d \in Calls \ {c} : ~call[d].holdsEvent
  BY <1>1 DEF EventFree
<1>10. OthersStand
  BY <1>1, <1>6 DEF OthersStand
<1> QED BY <1>1, <1>6, <1>7, <1>8, <1>9, <1>10, EndKeeps

LEMMA SettleKeeps ==
    ASSUME ConstantsFit, IInv, NEW c \in Calls, Settle(c)
    PROVE  IInv'
<1>1. PICK attended \in SUBSET call[c].seats :
         attendance' = [u \in People |->
             IF u \in attended THEN "checked_in"
             ELSE IF u \in call[c].seats /\ attendance[u] # "none"
                  THEN "not_checked_in"
             ELSE attendance[u]]
  BY DEF Settle
<1>2. /\ call' = [call EXCEPT ![c] = Idle]
      /\ UNCHANGED <<event, participants, members, request, hostKeys, guestKeys>>
      /\ UNCHANGED <<begun, history>> /\ crossed' = crossed /\ seatedByAdmin' = seatedByAdmin
  BY DEF Settle, history
<1>3. /\ attendance \in [People -> Presences] /\ event \in Events /\ participants \subseteq People
      /\ AttendanceFollowsSeat
  BY DEF IInv, TypeOK, SeatsInv, SeatsAgree
<1>4. attendance' \in [People -> Presences]
  BY <1>1, <1>3 DEF Presences
<1>5. AttendanceFollowsSeat'
  BY <1>1, <1>2, <1>3 DEF AttendanceFollowsSeat
<1>6. OthersStand
  BY <1>2 DEF OthersStand
<1> QED BY <1>2, <1>3, <1>4, <1>5, <1>6, EndKeeps

-----------------------------------------------------------------------------
(* A statement that goes on: the call has one statement less ahead of it,    *)
(* and nothing but the call changes.                                         *)
Goes(c, s) ==
    /\ At(c, s)
    /\ call' \in [Calls -> InFlight]
    /\ call'[c].todo = Tail(call[c].todo)
    /\ call'[c].kind = call[c].kind /\ call'[c].user = call[c].user
    /\ call'[c].event = call[c].event
    /\ \A d \in Calls \ {c} : call'[d] = call[d]
    /\ UNCHANGED <<rows, begun, history>>

LEMMA TailIsShorter ==
    ASSUME NEW q \in Seq(Statements), q # <<>>
    PROVE  {q[i] : i \in DOMAIN q}
                = {Head(q)} \cup {Tail(q)[i] : i \in DOMAIN Tail(q)}
<1>1. /\ Len(q) \in Nat /\ Len(q) > 0 /\ DOMAIN q = 1 .. Len(q)
      /\ Head(q) = q[1]
      /\ DOMAIN Tail(q) = 1 .. Len(q) - 1
      /\ \A i \in 1 .. Len(q) - 1 : Tail(q)[i] = q[i + 1]
  BY HeadTailProperties
<1>2. \A i \in 1 .. Len(q) : i = 1 \/ (i - 1 \in 1 .. Len(q) - 1 /\ q[i] = Tail(q)[i - 1])
  BY <1>1
<1>3. \A i \in 1 .. Len(q) - 1 : i + 1 \in 1 .. Len(q) /\ Tail(q)[i] = q[i + 1]
  BY <1>1
<1>4. 1 \in 1 .. Len(q)
  BY <1>1
<1> DEFINE T == {Tail(q)[i] : i \in 1 .. Len(q) - 1}
<1>5. \A i \in 1 .. Len(q) : q[i] \in {q[1]} \cup T
  BY <1>2
<1>6. {q[1]} \cup T \subseteq {q[i] : i \in 1 .. Len(q)}
  BY <1>3, <1>4
<1>7. {q[i] : i \in 1 .. Len(q)} = {q[1]} \cup T
  BY <1>5, <1>6
<1> QED BY <1>1, <1>7

LEMMA AheadShrinks ==
    ASSUME TypeOK, NEW c \in Calls, NEW s, Goes(c, s)
    PROVE  Ahead(c) = {s} \cup Ahead(c)'
<1>1. call[c].todo \in Seq(Statements)
  BY DEF TypeOK, InFlight
<1> QED BY <1>1, TailIsShorter DEF Ahead, Goes, At

(* Such a step is examined in what it changes: the call's own invariant, the *)
(* event's lock, and the lock of the request's row.                          *)
LEMMA StepKeeps ==
    ASSUME IInv, NEW c \in Calls, NEW s, Goes(c, s),
           LockHolds', RequestIsLocked',
           WritesFit(c)', LetsIn(c)', TakesOut(c)', DecidesPending(c)', Asks(c)'
    PROVE  IInv'
<1>1. /\ TypeOK /\ LockHolds /\ CrossedIsKnown /\ SeatsAgree
      /\ RequestIsLocked /\ RequestsFit
      /\ \A d \in Calls : CallInv(d)
  BY IInvParts
<1>2. /\ UNCHANGED <<event, participants, members, attendance, request, hostKeys, guestKeys>>
      /\ UNCHANGED <<begun, crossed, seatedByAdmin, verdicts, notices>>
      /\ call' \in [Calls -> InFlight]
      /\ call'[c].kind = call[c].kind /\ call'[c].user = call[c].user
      /\ call'[c].event = call[c].event
      /\ \A d \in Calls \ {c} : call'[d] = call[d]
  BY DEF Goes, rows, history
<1>3. TypeOK'
  BY <1>1, <1>2 DEF TypeOK
<1>4. Ahead(c)' \subseteq Ahead(c)
  BY <1>1, AheadShrinks
<1>5. StatementsFit(c)'
  <2>1. StatementsFit(c) /\ HidesChat(c)' = HidesChat(c)
    BY <1>1, <1>2 DEF CallInv, HidesChat
  <2> QED BY <1>2, <1>4, <2>1 DEF StatementsFit, RunBy
<1>6. CrossedIsKnown'
  BY <1>1, <1>2, CrossedKept
<1>7. SeatsAgree' /\ RequestsFit'
  BY <1>1, <1>2 DEF SeatsAgree, SeatIffMember, AttendanceFollowsSeat, RequestsFit
<1>8. \A d \in Calls \ {c} : CallInv(d)'
  BY <1>1, <1>2, OthersKept DEF OthersStand
<1>9. CallInv(c)'
  BY <1>5 DEF CallInv
<1> QED BY <1>3, <1>6, <1>7, <1>8, <1>9 DEF IInv, SeatsInv, RequestsInv, CallInv

(* What a step leaves alone stays true.                                      *)
KeepsSeats(c) ==
    /\ call'[c].wrote.seat = call[c].wrote.seat
    /\ call'[c].wrote.member = call[c].wrote.member

KeepsRequests(c) ==
    /\ call'[c].wrote.request = call[c].wrote.request
    /\ call'[c].wrote.hostNotice = call[c].wrote.hostNotice
    /\ call'[c].status = call[c].status

LEMMA LockKept ==
    ASSUME IInv, NEW c \in Calls, NEW s, Goes(c, s),
           call'[c].holdsEvent = call[c].holdsEvent,
           TRUE \in call'[c].wrote.seat => TRUE \in call[c].wrote.seat \/ EventFree(c)
    PROVE  LockHolds'
<1>1. UNCHANGED <<event, participants>> /\ \A d \in Calls \ {c} : call'[d] = call[d]
  BY DEF Goes, rows
<1> QED BY <1>1 DEF IInv, SeatsInv, LockHolds, EventFree

LEMMA SeatsStepKept ==
    ASSUME IInv, NEW c \in Calls, NEW s, Goes(c, s), KeepsSeats(c),
           s \notin {"addSeat", "addMember", "expect", "dropSeat", "removeSeat", "dropMember"},
           call'[c].wrote.attendance = call[c].wrote.attendance \/ s \in {"checkIn", "markLeft"}
    PROVE  LetsIn(c)' /\ TakesOut(c)'
<1>1. LetsIn(c) /\ TakesOut(c) /\ StatementsFit(c) /\ TypeOK
  BY DEF IInv, SeatsInv
<1>2. Ahead(c) = {s} \cup Ahead(c)'
  BY <1>1, AheadShrinks
<1>3. /\ UNCHANGED <<participants, members>> /\ event'.chat = event.chat /\ crossed' = crossed
      /\ call'[c].kind = call[c].kind /\ call'[c].user = call[c].user
  BY DEF Goes, rows, history
<1>4. s \in {"checkIn", "markLeft"} => call[c].kind \notin SeatTakers
  BY <1>1, <1>2 DEF StatementsFit, RunBy, SeatTakers
<1>5. LetsIn(c)'
  BY <1>1, <1>2, <1>3, <1>4 DEF LetsIn, KeepsSeats
<1>6. TakesOut(c)'
  BY <1>1, <1>2, <1>3 DEF TakesOut, KeepsSeats, HidesChat
<1> QED BY <1>5, <1>6

LEMMA RequestsStepKept ==
    ASSUME IInv, NEW c \in Calls, NEW s, Goes(c, s), KeepsRequests(c),
           s \notin {"decide", "readRequest", "openRequest", "tellHost"}
    PROVE  RequestIsLocked' /\ DecidesPending(c)' /\ Asks(c)'
<1>1. DecidesPending(c) /\ StatementsFit(c) /\ TypeOK /\ RequestIsLocked
  BY DEF IInv, RequestsInv
<1>2. Ahead(c) = {s} \cup Ahead(c)'
  BY <1>1, AheadShrinks
<1>3. /\ request' = request
      /\ call'[c].kind = call[c].kind /\ call'[c].user = call[c].user
      /\ \A d \in Calls \ {c} : call'[d] = call[d]
  BY DEF Goes, rows
<1>4. RequestIsLocked'
  BY <1>1, <1>3 DEF RequestIsLocked, KeepsRequests
<1>5. DecidesPending(c)'
  BY <1>1, <1>2, <1>3 DEF DecidesPending, KeepsRequests, Outcome
<1>6. call[c].kind # "request"
  <2>1. call[c].todo # <<>> /\ Head(call[c].todo) = s
    BY DEF Goes, At
  <2>2. ASSUME call[c].kind = "request"
        PROVE  FALSE
    <3>1. Asks(c)
      BY DEF IInv, RequestsInv
    <3>2. call[c].todo \in {<<"readRequest", "openRequest", "tellHost">>,
                            <<"openRequest", "tellHost">>, <<"tellHost">>, <<>>}
      BY <2>2, <3>1 DEF Asks
    <3> QED BY <2>1, <3>2
  <2> QED BY <2>2
<1>7. Asks(c)'
  BY <1>3, <1>6 DEF Asks
<1> QED BY <1>4, <1>5, <1>7

LEMMA WritesKept ==
    ASSUME IInv, NEW c \in Calls, NEW s, Goes(c, s), call'[c].wrote = call[c].wrote
    PROVE  WritesFit(c)'
<1>1. WritesFit(c) /\ call'[c].kind = call[c].kind /\ call'[c].user = call[c].user
  BY DEF IInv, Goes
<1> QED BY <1>1 DEF WritesFit, HidesChat

-----------------------------------------------------------------------------
(* The forms of a statement.                                                 *)
LEMMA SkipGoes ==
    ASSUME IInv, NEW c \in Calls, NEW s, At(c, s), Skip(c)
    PROVE  /\ Goes(c, s) /\ KeepsSeats(c) /\ KeepsRequests(c)
           /\ call'[c].wrote = call[c].wrote
           /\ call'[c].holdsEvent = call[c].holdsEvent
<1>1. /\ call' = [call EXCEPT ![c].todo = Tail(@)]
      /\ UNCHANGED <<rows, begun, history>>
  BY DEF Skip, Only
<1>2. call \in [Calls -> InFlight] /\ call[c] \in InFlight
  BY DEF IInv, TypeOK
<1>3. Tail(call[c].todo) \in Seq(Statements)
  BY <1>2, HeadTailProperties DEF InFlight, At
<1>4. /\ call'[c] = [call[c] EXCEPT !.todo = Tail(call[c].todo)]
      /\ \A d \in Calls \ {c} : call'[d] = call[d]
  BY <1>1, <1>2
<1>5. call'[c] \in InFlight
  BY <1>2, <1>3, <1>4 DEF InFlight
<1>6. call' \in [Calls -> InFlight]
  BY <1>1, <1>2, <1>4, <1>5
<1>7. /\ call'[c].todo = Tail(call[c].todo)
      /\ call'[c].kind = call[c].kind /\ call'[c].user = call[c].user
      /\ call'[c].event = call[c].event /\ call'[c].status = call[c].status
      /\ call'[c].wrote = call[c].wrote /\ call'[c].holdsEvent = call[c].holdsEvent
  BY <1>2, <1>4 DEF InFlight
<1> QED BY <1>1, <1>4, <1>6, <1>7 DEF Goes, KeepsSeats, KeepsRequests

Tables == {"seat", "member", "attendance", "request", "hostNotice", "guestNotice", "closed"}

LEMMA PutGoes ==
    ASSUME IInv, NEW c \in Calls, NEW s, At(c, s), NEW t \in Tables, NEW v,
           [call[c].wrote EXCEPT ![t] = {v}] \in Writes, Put(c, t, v)
    PROVE  /\ Goes(c, s)
           /\ call'[c].wrote = [call[c].wrote EXCEPT ![t] = {v}]
           /\ call'[c].status = call[c].status
           /\ call'[c].holdsEvent = call[c].holdsEvent
<1>1. /\ call' = [call EXCEPT ![c].todo = Tail(@), ![c].wrote[t] = {v}]
      /\ UNCHANGED <<rows, begun, history>>
  BY DEF Put, Only
<1>2. call \in [Calls -> InFlight] /\ call[c] \in InFlight
  BY DEF IInv, TypeOK
<1>3. Tail(call[c].todo) \in Seq(Statements)
  BY <1>2, HeadTailProperties DEF InFlight, At
<1> DEFINE w == [call[c].wrote EXCEPT ![t] = {v}]
<1>4. /\ call'[c] = [call[c] EXCEPT !.todo = Tail(call[c].todo), !.wrote = w]
      /\ \A d \in Calls \ {c} : call'[d] = call[d]
  BY <1>1, <1>2 DEF InFlight
<1>5. w \in Writes
  OBVIOUS
<1> HIDE DEF w
<1>6. call'[c] \in InFlight
  BY <1>2, <1>3, <1>4, <1>5 DEF InFlight
<1>7. call' \in [Calls -> InFlight]
  BY <1>1, <1>2, <1>4, <1>6
<1>8. /\ call'[c].todo = Tail(call[c].todo)
      /\ call'[c].kind = call[c].kind /\ call'[c].user = call[c].user
      /\ call'[c].event = call[c].event /\ call'[c].status = call[c].status
      /\ call'[c].wrote = w /\ call'[c].holdsEvent = call[c].holdsEvent
  BY <1>2, <1>4 DEF InFlight
<1>9. Goes(c, s)
  BY <1>1, <1>4, <1>7, <1>8 DEF Goes
<1> QED BY <1>8, <1>9 DEF w

LEMMA PutSeat ==
    ASSUME IInv, NEW c \in Calls, NEW s, At(c, s), NEW v \in BOOLEAN, Put(c, "seat", v)
    PROVE  /\ Goes(c, s) /\ call'[c].wrote.seat = {v}
           /\ call'[c].wrote.member = call[c].wrote.member
           /\ call'[c].wrote.attendance = call[c].wrote.attendance
           /\ call'[c].wrote.request = call[c].wrote.request
           /\ call'[c].wrote.hostNotice = call[c].wrote.hostNotice
           /\ call'[c].wrote.guestNotice = call[c].wrote.guestNotice
           /\ call'[c].status = call[c].status /\ call'[c].holdsEvent = call[c].holdsEvent
<1>1. call[c].wrote \in Writes
  BY DEF IInv, TypeOK, InFlight
<1>2. [call[c].wrote EXCEPT !["seat"] = {v}] \in Writes
  BY <1>1 DEF Writes
<1>3. /\ Goes(c, s) /\ call'[c].wrote = [call[c].wrote EXCEPT !["seat"] = {v}]
      /\ call'[c].status = call[c].status /\ call'[c].holdsEvent = call[c].holdsEvent
  BY <1>2, PutGoes DEF Tables
<1> QED BY <1>1, <1>3 DEF Writes

LEMMA PutMember ==
    ASSUME IInv, NEW c \in Calls, NEW s, At(c, s), NEW v \in BOOLEAN, Put(c, "member", v)
    PROVE  /\ Goes(c, s) /\ call'[c].wrote.member = {v}
           /\ call'[c].wrote.seat = call[c].wrote.seat
           /\ call'[c].wrote.attendance = call[c].wrote.attendance
           /\ call'[c].wrote.request = call[c].wrote.request
           /\ call'[c].wrote.hostNotice = call[c].wrote.hostNotice
           /\ call'[c].wrote.guestNotice = call[c].wrote.guestNotice
           /\ call'[c].status = call[c].status /\ call'[c].holdsEvent = call[c].holdsEvent
<1>1. call[c].wrote \in Writes
  BY DEF IInv, TypeOK, InFlight
<1>2. [call[c].wrote EXCEPT !["member"] = {v}] \in Writes
  BY <1>1 DEF Writes
<1>3. /\ Goes(c, s) /\ call'[c].wrote = [call[c].wrote EXCEPT !["member"] = {v}]
      /\ call'[c].status = call[c].status /\ call'[c].holdsEvent = call[c].holdsEvent
  BY <1>2, PutGoes DEF Tables
<1> QED BY <1>1, <1>3 DEF Writes

LEMMA PutAttendance ==
    ASSUME IInv, NEW c \in Calls, NEW s, At(c, s), NEW v \in Presences, Put(c, "attendance", v)
    PROVE  /\ Goes(c, s) /\ call'[c].wrote.attendance = {v}
           /\ call'[c].wrote.seat = call[c].wrote.seat
           /\ call'[c].wrote.member = call[c].wrote.member
           /\ call'[c].wrote.request = call[c].wrote.request
           /\ call'[c].wrote.hostNotice = call[c].wrote.hostNotice
           /\ call'[c].wrote.guestNotice = call[c].wrote.guestNotice
           /\ call'[c].status = call[c].status /\ call'[c].holdsEvent = call[c].holdsEvent
<1>1. call[c].wrote \in Writes
  BY DEF IInv, TypeOK, InFlight
<1>2. [call[c].wrote EXCEPT !["attendance"] = {v}] \in Writes
  BY <1>1 DEF Writes
<1>3. /\ Goes(c, s) /\ call'[c].wrote = [call[c].wrote EXCEPT !["attendance"] = {v}]
      /\ call'[c].status = call[c].status /\ call'[c].holdsEvent = call[c].holdsEvent
  BY <1>2, PutGoes DEF Tables
<1> QED BY <1>1, <1>3 DEF Writes

LEMMA PutRequest ==
    ASSUME IInv, NEW c \in Calls, NEW s, At(c, s), NEW v \in Requests, Put(c, "request", v)
    PROVE  /\ Goes(c, s) /\ call'[c].wrote.request = {v}
           /\ call'[c].wrote.seat = call[c].wrote.seat
           /\ call'[c].wrote.member = call[c].wrote.member
           /\ call'[c].wrote.attendance = call[c].wrote.attendance
           /\ call'[c].wrote.hostNotice = call[c].wrote.hostNotice
           /\ call'[c].wrote.guestNotice = call[c].wrote.guestNotice
           /\ call'[c].status = call[c].status /\ call'[c].holdsEvent = call[c].holdsEvent
<1>1. call[c].wrote \in Writes
  BY DEF IInv, TypeOK, InFlight
<1>2. [call[c].wrote EXCEPT !["request"] = {v}] \in Writes
  BY <1>1 DEF Writes
<1>3. /\ Goes(c, s) /\ call'[c].wrote = [call[c].wrote EXCEPT !["request"] = {v}]
      /\ call'[c].status = call[c].status /\ call'[c].holdsEvent = call[c].holdsEvent
  BY <1>2, PutGoes DEF Tables
<1> QED BY <1>1, <1>3 DEF Writes

LEMMA PutHostNotice ==
    ASSUME IInv, NEW c \in Calls, NEW s, At(c, s), NEW v \in {TRUE}, Put(c, "hostNotice", v)
    PROVE  /\ Goes(c, s) /\ call'[c].wrote.hostNotice = {v}
           /\ call'[c].wrote.seat = call[c].wrote.seat
           /\ call'[c].wrote.member = call[c].wrote.member
           /\ call'[c].wrote.attendance = call[c].wrote.attendance
           /\ call'[c].wrote.request = call[c].wrote.request
           /\ call'[c].wrote.guestNotice = call[c].wrote.guestNotice
           /\ call'[c].status = call[c].status /\ call'[c].holdsEvent = call[c].holdsEvent
<1>1. call[c].wrote \in Writes
  BY DEF IInv, TypeOK, InFlight
<1>2. [call[c].wrote EXCEPT !["hostNotice"] = {v}] \in Writes
  BY <1>1 DEF Writes
<1>3. /\ Goes(c, s) /\ call'[c].wrote = [call[c].wrote EXCEPT !["hostNotice"] = {v}]
      /\ call'[c].status = call[c].status /\ call'[c].holdsEvent = call[c].holdsEvent
  <2>1. "hostNotice" \in Tables
    BY DEF Tables
  <2> QED BY <1>2, <2>1, PutGoes
<1> QED BY <1>1, <1>3 DEF Writes

LEMMA PutGuestNotice ==
    ASSUME IInv, NEW c \in Calls, NEW s, At(c, s), NEW v \in {TRUE}, Put(c, "guestNotice", v)
    PROVE  /\ Goes(c, s) /\ call'[c].wrote.guestNotice = {v}
           /\ call'[c].wrote.seat = call[c].wrote.seat
           /\ call'[c].wrote.member = call[c].wrote.member
           /\ call'[c].wrote.attendance = call[c].wrote.attendance
           /\ call'[c].wrote.request = call[c].wrote.request
           /\ call'[c].wrote.hostNotice = call[c].wrote.hostNotice
           /\ call'[c].status = call[c].status /\ call'[c].holdsEvent = call[c].holdsEvent
<1>1. call[c].wrote \in Writes
  BY DEF IInv, TypeOK, InFlight
<1>2. [call[c].wrote EXCEPT !["guestNotice"] = {v}] \in Writes
  BY <1>1 DEF Writes
<1>3. /\ Goes(c, s) /\ call'[c].wrote = [call[c].wrote EXCEPT !["guestNotice"] = {v}]
      /\ call'[c].status = call[c].status /\ call'[c].holdsEvent = call[c].holdsEvent
  <2>1. "guestNotice" \in Tables
    BY DEF Tables
  <2> QED BY <1>2, <2>1, PutGoes
<1> QED BY <1>1, <1>3 DEF Writes

-----------------------------------------------------------------------------
(* The statements.                                                           *)

(* What holds of a call before its statement s.                              *)
LEMMA Before ==
    ASSUME IInv, NEW c \in Calls, NEW s, At(c, s)
    PROVE  /\ s \in Ahead(c) /\ call[c].kind \in RunBy(s)
           /\ StatementsFit(c) /\ WritesFit(c) /\ LetsIn(c) /\ TakesOut(c)
           /\ DecidesPending(c) /\ Asks(c)
           /\ call[c] \in InFlight /\ call[c].user \in People
<1>1. /\ StatementsFit(c) /\ WritesFit(c) /\ LetsIn(c) /\ TakesOut(c)
      /\ DecidesPending(c) /\ Asks(c)
      /\ call[c] \in InFlight /\ call[c].user \in People
  BY DEF IInv, TypeOK, SeatsInv, RequestsInv, InFlight
<1>2. call[c].todo \in Seq(Statements)
  BY <1>1 DEF InFlight
<1>3. call[c].todo # <<>> /\ Head(call[c].todo) = s
  BY DEF At
<1>4. 1 \in DOMAIN call[c].todo /\ call[c].todo[1] = s
  BY <1>2, <1>3, HeadTailProperties
<1>5. s \in Ahead(c)
  BY <1>4 DEF Ahead
<1> QED BY <1>1, <1>5 DEF StatementsFit

(* A step that writes nothing of a table.                                    *)
LEMMA QuietStep ==
    ASSUME IInv, NEW c \in Calls, NEW s, Goes(c, s), KeepsSeats(c), KeepsRequests(c),
           call'[c].wrote = call[c].wrote, LockHolds',
           s \notin {"addSeat", "addMember", "expect", "dropSeat", "removeSeat", "dropMember",
                     "decide", "readRequest", "openRequest", "tellHost"}
    PROVE  IInv'
<1>1. LetsIn(c)' /\ TakesOut(c)'
  BY SeatsStepKept
<1>2. RequestIsLocked' /\ DecidesPending(c)' /\ Asks(c)'
  BY RequestsStepKept
<1>3. WritesFit(c)'
  BY WritesKept
<1> QED BY <1>1, <1>2, <1>3, StepKeeps

LEMMA FindSeatKeeps ==
    ASSUME ConstantsFit, IInv, NEW c \in Calls, FindSeat(c)
    PROVE  IInv'
<1>1. /\ At(c, "findSeat")
      /\ call' = [call EXCEPT ![c].todo = Tail(@), ![c].seats = participants]
      /\ UNCHANGED <<rows, begun, history>>
  BY DEF FindSeat, Only
<1>2. call \in [Calls -> InFlight] /\ call[c] \in InFlight /\ participants \in SUBSET People
  BY DEF IInv, TypeOK
<1>3. Tail(call[c].todo) \in Seq(Statements)
  BY <1>1, <1>2, HeadTailProperties DEF InFlight, At
<1>4. /\ call'[c] = [call[c] EXCEPT !.todo = Tail(call[c].todo), !.seats = participants]
      /\ \A d \in Calls \ {c} : call'[d] = call[d]
  BY <1>1, <1>2 DEF InFlight
<1>5. call'[c] \in InFlight
  BY <1>2, <1>3, <1>4 DEF InFlight
<1>6. call' \in [Calls -> InFlight]
  BY <1>1, <1>2, <1>4, <1>5
<1>7. /\ call'[c].todo = Tail(call[c].todo)
      /\ call'[c].kind = call[c].kind /\ call'[c].user = call[c].user
      /\ call'[c].event = call[c].event /\ call'[c].status = call[c].status
      /\ call'[c].wrote = call[c].wrote /\ call'[c].holdsEvent = call[c].holdsEvent
  BY <1>2, <1>4 DEF InFlight
<1>8. Goes(c, "findSeat") /\ KeepsSeats(c) /\ KeepsRequests(c)
  BY <1>1, <1>4, <1>6, <1>7 DEF Goes, KeepsSeats, KeepsRequests
<1>9. LockHolds'
  BY <1>7, <1>8, LockKept
<1> QED BY <1>7, <1>8, <1>9, QuietStep

LEMMA CheckRoomKeeps ==
    ASSUME ConstantsFit, IInv, NEW c \in Calls, CheckRoom(c)
    PROVE  IInv'
<1>1. ASSUME Skip(c)
      PROVE  IInv'
  <2>1. At(c, "checkRoom")
    BY DEF CheckRoom
  <2>2. /\ Goes(c, "checkRoom") /\ KeepsSeats(c) /\ KeepsRequests(c)
        /\ call'[c].wrote = call[c].wrote /\ call'[c].holdsEvent = call[c].holdsEvent
    BY <1>1, <2>1, SkipGoes
  <2>3. LockHolds'
    BY <2>2, LockKept
  <2> QED BY <2>2, <2>3, QuietStep
<1>2. ASSUME Fail(c)
      PROVE  IInv'
  BY <1>2, FailKeeps
<1>3. ASSUME Cardinality(participants) < event.capacity, EventFree(c),
             \A d \in Calls \ {c} : ~Inserts(d),
             call' = [call EXCEPT ![c].todo = Tail(@), ![c].holdsEvent = TRUE], Only(c)
      PROVE  IInv'
  <2>1. At(c, "checkRoom") /\ UNCHANGED <<rows, begun, history>>
    BY <1>3 DEF CheckRoom, Only
  <2>2. call \in [Calls -> InFlight] /\ call[c] \in InFlight
    BY DEF IInv, TypeOK
  <2>3. Tail(call[c].todo) \in Seq(Statements)
    BY <2>1, <2>2, HeadTailProperties DEF InFlight, At
  <2>4. /\ call'[c] = [call[c] EXCEPT !.todo = Tail(call[c].todo), !.holdsEvent = TRUE]
        /\ \A d \in Calls \ {c} : call'[d] = call[d]
    BY <1>3, <2>2 DEF InFlight
  <2>5. call'[c] \in InFlight
    BY <2>2, <2>3, <2>4 DEF InFlight
  <2>6. call' \in [Calls -> InFlight]
    BY <1>3, <2>2, <2>4, <2>5
  <2>7. /\ call'[c].todo = Tail(call[c].todo)
        /\ call'[c].kind = call[c].kind /\ call'[c].user = call[c].user
        /\ call'[c].event = call[c].event /\ call'[c].status = call[c].status
        /\ call'[c].wrote = call[c].wrote
    BY <2>2, <2>4 DEF InFlight
  <2>8. Goes(c, "checkRoom") /\ KeepsSeats(c) /\ KeepsRequests(c)
    BY <2>1, <2>4, <2>6, <2>7 DEF Goes, KeepsSeats, KeepsRequests
  <2>9. \A d \in Calls \ {c} : TRUE \notin call[d].wrote.seat /\ ~call[d].holdsEvent
    <3>1. \A d \in Calls : call[d].wrote.seat \in {{}, {TRUE}, {FALSE}}
      BY DEF IInv, WritesFit
    <3>2. \A d \in Calls \ {c} : call[d].wrote.seat # {TRUE}
      BY <1>3 DEF Inserts
    <3> QED BY <1>3, <3>1, <3>2 DEF EventFree
  <2>10. UNCHANGED <<participants, event>>
    BY <2>1 DEF rows
  <2>11. LockHolds'
    BY <1>3, <2>4, <2>9, <2>10 DEF LockHolds
  <2> QED BY <2>7, <2>8, <2>11, QuietStep
<1> QED BY <1>1, <1>2, <1>3 DEF CheckRoom

LEMMA TellGuestKeeps ==
    ASSUME ConstantsFit, IInv, NEW c \in Calls, TellGuest(c)
    PROVE  IInv'
<1>1. ASSUME Fail(c)
      PROVE  IInv'
  BY <1>1, FailKeeps
<1>2. ASSUME Put(c, "guestNotice", TRUE)
      PROVE  IInv'
  <2>1. At(c, "tellGuest")
    BY DEF TellGuest
  <2>2. /\ Goes(c, "tellGuest") /\ call'[c].wrote.guestNotice = {TRUE}
        /\ call'[c].wrote.seat = call[c].wrote.seat /\ call'[c].wrote.member = call[c].wrote.member
        /\ call'[c].wrote.attendance = call[c].wrote.attendance
        /\ call'[c].wrote.request = call[c].wrote.request
        /\ call'[c].wrote.hostNotice = call[c].wrote.hostNotice
        /\ call'[c].status = call[c].status /\ call'[c].holdsEvent = call[c].holdsEvent
    BY <1>2, <2>1, PutGuestNotice
  <2>3. KeepsSeats(c) /\ KeepsRequests(c)
    BY <2>2 DEF KeepsSeats, KeepsRequests
  <2>4. LockHolds'
    BY <2>2, LockKept
  <2>5. LetsIn(c)' /\ TakesOut(c)'
    BY <2>2, <2>3, SeatsStepKept
  <2>6. RequestIsLocked' /\ DecidesPending(c)' /\ Asks(c)'
    BY <2>2, <2>3, RequestsStepKept
  <2>7. call[c].kind \in {"invite"} /\ WritesFit(c)
    BY <2>1, Before DEF RunBy
  <2>8. call'[c].kind = call[c].kind /\ HidesChat(c)' = HidesChat(c)
    BY <2>2 DEF Goes, HidesChat
  <2>9. WritesFit(c)'
    BY <2>2, <2>7, <2>8 DEF WritesFit
  <2> QED BY <2>2, <2>4, <2>5, <2>6, <2>9, StepKeeps
<1> QED BY <1>1, <1>2 DEF TellGuest

LEMMA CloseDateKeeps ==
    ASSUME ConstantsFit, IInv, NEW c \in Calls, CloseDate(c)
    PROVE  IInv'
<1>1. ASSUME Fail(c)
      PROVE  IInv'
  BY <1>1, FailKeeps
<1>2. ASSUME Put(c, "closed", TRUE)
      PROVE  IInv'
  <2>1. At(c, "closeDate") /\ WritesFit(c)
    BY Before DEF CloseDate
  <2>2. call[c].wrote \in Writes
    BY DEF IInv, TypeOK, InFlight
  <2>3. [call[c].wrote EXCEPT !["closed"] = {TRUE}] \in Writes
    BY <2>2 DEF Writes
  <2>4. /\ Goes(c, "closeDate")
        /\ call'[c].wrote = [call[c].wrote EXCEPT !["closed"] = {TRUE}]
        /\ call'[c].status = call[c].status /\ call'[c].holdsEvent = call[c].holdsEvent
    BY <1>2, <2>1, <2>3, PutGoes DEF Tables
  <2>5. /\ call'[c].wrote.seat = call[c].wrote.seat /\ call'[c].wrote.member = call[c].wrote.member
        /\ call'[c].wrote.attendance = call[c].wrote.attendance
        /\ call'[c].wrote.request = call[c].wrote.request
        /\ call'[c].wrote.hostNotice = call[c].wrote.hostNotice
        /\ call'[c].wrote.guestNotice = call[c].wrote.guestNotice
    BY <2>2, <2>4 DEF Writes
  <2>6. KeepsSeats(c) /\ KeepsRequests(c)
    BY <2>4, <2>5 DEF KeepsSeats, KeepsRequests
  <2>7. LockHolds'
    BY <2>4, <2>5, LockKept
  <2>8. LetsIn(c)' /\ TakesOut(c)'
    BY <2>4, <2>5, <2>6, SeatsStepKept
  <2>9. RequestIsLocked' /\ DecidesPending(c)' /\ Asks(c)'
    BY <2>4, <2>6, RequestsStepKept
  <2>10. call'[c].kind = call[c].kind /\ HidesChat(c)' = HidesChat(c)
    BY <2>4 DEF Goes, HidesChat
  <2>11. WritesFit(c)'
    BY <2>1, <2>5, <2>10 DEF WritesFit
  <2> QED BY <2>4, <2>7, <2>8, <2>9, <2>11, StepKeeps
<1> QED BY <1>1, <1>2 DEF CloseDate

-----------------------------------------------------------------------------
(* The statements on seats, chat members and attendance.                     *)

(* What such a step leaves alone.                                            *)
LEMMA SeatStep ==
    ASSUME IInv, NEW c \in Calls, NEW s, Goes(c, s), KeepsRequests(c),
           s \notin {"decide", "readRequest", "openRequest", "tellHost"},
           LockHolds', WritesFit(c)', LetsIn(c)', TakesOut(c)'
    PROVE  IInv'
<1>1. RequestIsLocked' /\ DecidesPending(c)' /\ Asks(c)'
  BY RequestsStepKept
<1> QED BY <1>1, StepKeeps

LEMMA SeatFrame ==
    ASSUME IInv, NEW c \in Calls, NEW s, Goes(c, s)
    PROVE  /\ \A x \in {"addSeat", "addMember", "expect", "dropSeat", "removeSeat", "dropMember"} :
                x # s => (x \in Ahead(c)' <=> x \in Ahead(c))
           /\ UNCHANGED <<participants, members>> /\ event'.chat = event.chat
           /\ crossed' = crossed
           /\ call'[c].kind = call[c].kind /\ call'[c].user = call[c].user
           /\ HidesChat(c)' = HidesChat(c)
<1>1. TypeOK
  BY DEF IInv
<1> QED BY <1>1, AheadShrinks DEF Goes, rows, history, HidesChat

LEMMA AddSeatKeeps ==
    ASSUME ConstantsFit, IInv, NEW c \in Calls, AddSeat(c)
    PROVE  IInv'
<1>1. /\ At(c, "addSeat") /\ call[c].kind \in SeatTakers
      /\ WritesFit(c) /\ LetsIn(c) /\ TakesOut(c)
  BY Before DEF AddSeat, RunBy
<1>2. call[c].kind \notin Leaving /\ call[c].kind # "restore"
  BY <1>1 DEF SeatTakers, Leaving
<1>3. ASSUME Goes(c, "addSeat"),
             TRUE \in call'[c].wrote.seat \/ call[c].user \in participants,
             call'[c].wrote.member = call[c].wrote.member,
             call'[c].wrote.attendance = call[c].wrote.attendance
      PROVE  LetsIn(c)' /\ TakesOut(c)'
  <2>0. /\ \A x \in {"addSeat", "addMember", "expect", "dropSeat", "removeSeat", "dropMember"} :
             x # "addSeat" => (x \in Ahead(c)' <=> x \in Ahead(c))
        /\ UNCHANGED <<participants, members>> /\ event'.chat = event.chat
        /\ crossed' = crossed
        /\ call'[c].kind = call[c].kind /\ call'[c].user = call[c].user
        /\ HidesChat(c)' = HidesChat(c)
    BY <1>3, SeatFrame
  <2>1. TakesOut(c)'
    BY <1>2, <1>3, <2>0 DEF TakesOut
  <2>2. LetsIn(c)'
    BY <1>1, <1>2, <1>3, <2>0 DEF LetsIn
  <2> QED BY <2>1, <2>2
<1>4. ASSUME call[c].user \in participants, Skip(c)
      PROVE  IInv'
  <2>1. /\ Goes(c, "addSeat") /\ KeepsSeats(c) /\ KeepsRequests(c)
        /\ call'[c].wrote = call[c].wrote
        /\ call'[c].holdsEvent = call[c].holdsEvent
    BY <1>1, <1>4, SkipGoes
  <2>2. LetsIn(c)' /\ TakesOut(c)'
    BY <1>3, <1>4, <2>1
  <2>3. LockHolds' /\ WritesFit(c)'
    BY <2>1, LockKept, WritesKept
  <2> QED BY <2>1, <2>2, <2>3, SeatStep
<1>5. ASSUME EventFree(c), Put(c, "seat", TRUE)
      PROVE  IInv'
  <2>1. /\ Goes(c, "addSeat") /\ call'[c].wrote.seat = {TRUE}
        /\ call'[c].wrote.member = call[c].wrote.member
        /\ call'[c].wrote.attendance = call[c].wrote.attendance
        /\ call'[c].wrote.request = call[c].wrote.request
        /\ call'[c].wrote.hostNotice = call[c].wrote.hostNotice
        /\ call'[c].wrote.guestNotice = call[c].wrote.guestNotice
        /\ call'[c].status = call[c].status /\ call'[c].holdsEvent = call[c].holdsEvent
    BY <1>1, <1>5, PutSeat
  <2>2. KeepsRequests(c)
    BY <2>1 DEF KeepsRequests
  <2>3. LetsIn(c)' /\ TakesOut(c)'
    BY <1>3, <2>1
  <2>4. LockHolds'
    BY <1>5, <2>1, LockKept
  <2>5. WritesFit(c)'
    BY <1>1, <2>1, SeatFrame DEF WritesFit
  <2> QED BY <2>1, <2>2, <2>3, <2>4, <2>5, SeatStep
<1> QED BY <1>4, <1>5 DEF AddSeat

LEMMA DropSeatKeeps ==
    ASSUME ConstantsFit, IInv, NEW c \in Calls, DropSeat(c) \/ RemoveSeat(c)
    PROVE  IInv'
<1> DEFINE Drops(s) == s \in {"dropSeat", "removeSeat"}
<1>1. PICK s : /\ Drops(s) /\ At(c, s)
               /\ \/ call[c].user \notin participants /\ Skip(c)
                  \/ Put(c, "seat", FALSE)
                  \/ Fail(c)
  BY DEF DropSeat, RemoveSeat
<1>2. /\ call[c].kind \in Leaving
      /\ WritesFit(c) /\ LetsIn(c) /\ TakesOut(c)
  BY <1>1, Before DEF RunBy, Leaving
<1>3. call[c].kind \notin SeatTakers \cup {"restore"}
  BY <1>2 DEF SeatTakers, Leaving
<1>4. ASSUME Goes(c, s),
             FALSE \in call'[c].wrote.seat \/ call[c].user \notin participants,
             call'[c].wrote.member = call[c].wrote.member
      PROVE  LetsIn(c)' /\ TakesOut(c)'
  <2>0. /\ \A x \in {"addSeat", "addMember", "expect", "dropSeat", "removeSeat", "dropMember"} :
             x # s => (x \in Ahead(c)' <=> x \in Ahead(c))
        /\ UNCHANGED <<participants, members>> /\ event'.chat = event.chat
        /\ crossed' = crossed
        /\ call'[c].kind = call[c].kind /\ call'[c].user = call[c].user
        /\ HidesChat(c)' = HidesChat(c)
    BY <1>4, SeatFrame
  <2>1. LetsIn(c)'
    BY <1>3, <1>4, <2>0 DEF LetsIn
  <2>2. TakesOut(c)'
    BY <1>1, <1>2, <1>4, <2>0 DEF TakesOut
  <2> QED BY <2>1, <2>2
<1>5. ASSUME call[c].user \notin participants, Skip(c)
      PROVE  IInv'
  <2>1. /\ Goes(c, s) /\ KeepsSeats(c) /\ KeepsRequests(c)
        /\ call'[c].wrote = call[c].wrote
        /\ call'[c].holdsEvent = call[c].holdsEvent
    BY <1>1, <1>5, SkipGoes
  <2>2. LetsIn(c)' /\ TakesOut(c)'
    BY <1>4, <1>5, <2>1
  <2>3. LockHolds' /\ WritesFit(c)'
    BY <2>1, LockKept, WritesKept
  <2> QED BY <1>1, <2>1, <2>2, <2>3, SeatStep
<1>6. ASSUME Put(c, "seat", FALSE)
      PROVE  IInv'
  <2>1. /\ Goes(c, s) /\ call'[c].wrote.seat = {FALSE}
        /\ call'[c].wrote.member = call[c].wrote.member
        /\ call'[c].wrote.attendance = call[c].wrote.attendance
        /\ call'[c].wrote.request = call[c].wrote.request
        /\ call'[c].wrote.hostNotice = call[c].wrote.hostNotice
        /\ call'[c].wrote.guestNotice = call[c].wrote.guestNotice
        /\ call'[c].status = call[c].status /\ call'[c].holdsEvent = call[c].holdsEvent
    BY <1>1, <1>6, PutSeat
  <2>2. KeepsRequests(c)
    BY <2>1 DEF KeepsRequests
  <2>3. LetsIn(c)' /\ TakesOut(c)'
    BY <1>4, <2>1
  <2>4. LockHolds'
    BY <2>1, LockKept
  <2>5. WritesFit(c)'
    BY <1>2, <2>1, SeatFrame DEF WritesFit
  <2> QED BY <1>1, <2>1, <2>2, <2>3, <2>4, <2>5, SeatStep
<1> QED BY <1>1, <1>5, <1>6, FailKeeps

LEMMA MarkKeeps ==
    ASSUME ConstantsFit, IInv, NEW c \in Calls, NEW s, NEW p, Mark(c, s, p),
           <<s, p>> \in {<<"expect", "not_checked_in">>, <<"markLeft", "left">>,
                         <<"checkIn", "checked_in">>}
    PROVE  IInv'
<1>1. /\ At(c, s) /\ s \in Ahead(c) /\ call[c].kind \in RunBy(s)
      /\ StatementsFit(c) /\ WritesFit(c) /\ LetsIn(c) /\ TakesOut(c)
  BY Before DEF Mark
<1>2. /\ Goes(c, s) /\ call'[c].wrote.attendance = {p}
      /\ call'[c].wrote.seat = call[c].wrote.seat
      /\ call'[c].wrote.member = call[c].wrote.member
      /\ call'[c].wrote.request = call[c].wrote.request
      /\ call'[c].wrote.hostNotice = call[c].wrote.hostNotice
      /\ call'[c].wrote.guestNotice = call[c].wrote.guestNotice
      /\ call'[c].status = call[c].status /\ call'[c].holdsEvent = call[c].holdsEvent
  <2>1. p \in Presences
    BY DEF Presences
  <2> QED BY <1>1, <2>1, PutAttendance DEF Mark
<1>3. KeepsSeats(c) /\ KeepsRequests(c)
  BY <1>2 DEF KeepsSeats, KeepsRequests
<1>4. LockHolds'
  BY <1>2, LockKept
<1>5. WritesFit(c)'
  <2>1. \/ p \in {"not_checked_in", "checked_in"}
        \/ p = "left" /\ call[c].kind \in {"leave", "deleteChat"} /\ ~HidesChat(c)
    BY <1>1 DEF StatementsFit, RunBy
  <2> QED BY <1>1, <1>2, <2>1, SeatFrame DEF WritesFit
<1>6. LetsIn(c)' /\ TakesOut(c)'
  <2>1. CASE s = "expect"
    <3>0. /\ \A x \in {"addSeat", "addMember", "expect", "dropSeat", "removeSeat", "dropMember"} :
               x # s => (x \in Ahead(c)' <=> x \in Ahead(c))
          /\ UNCHANGED <<participants, members>> /\ event'.chat = event.chat
          /\ crossed' = crossed
          /\ call'[c].kind = call[c].kind /\ call'[c].user = call[c].user
          /\ HidesChat(c)' = HidesChat(c)
      BY <1>2, SeatFrame
    <3>1. call[c].kind \in SeatTakers \ {"adminApprove"} /\ p = "not_checked_in"
      BY <1>1, <2>1 DEF RunBy, SeatTakers
    <3>2. TakesOut(c)'
      BY <1>2, <3>0, <3>1 DEF TakesOut, SeatTakers, Leaving
    <3>3. LetsIn(c)'
      BY <1>1, <1>2, <2>1, <3>0, <3>1 DEF LetsIn
    <3> QED BY <3>2, <3>3
  <2>2. CASE s \in {"checkIn", "markLeft"}
    BY <1>2, <1>3, <2>2, SeatsStepKept
  <2> QED BY <2>1, <2>2
<1>7. s \notin {"decide", "readRequest", "openRequest", "tellHost"}
  OBVIOUS
<1> QED BY <1>2, <1>3, <1>4, <1>5, <1>6, <1>7, SeatStep

LEMMA AddMemberKeeps ==
    ASSUME ConstantsFit, IInv, NEW c \in Calls, AddMember(c)
    PROVE  IInv'
<1>1. /\ At(c, "addMember") /\ call[c].kind \in SeatTakers \cup {"restore"}
      /\ WritesFit(c) /\ LetsIn(c) /\ TakesOut(c)
  BY Before DEF AddMember, RunBy
<1>2. call[c].kind \notin Leaving
  BY <1>1 DEF SeatTakers, Leaving
<1>3. ASSUME Goes(c, "addMember"),
             TRUE \in call'[c].wrote.member \/ call[c].user \in members,
             call'[c].wrote.seat = call[c].wrote.seat,
             call'[c].wrote.attendance = call[c].wrote.attendance
      PROVE  LetsIn(c)' /\ TakesOut(c)'
  <2>0. /\ \A x \in {"addSeat", "addMember", "expect", "dropSeat", "removeSeat", "dropMember"} :
             x # "addMember" => (x \in Ahead(c)' <=> x \in Ahead(c))
        /\ UNCHANGED <<participants, members>> /\ event'.chat = event.chat
        /\ crossed' = crossed
        /\ call'[c].kind = call[c].kind /\ call'[c].user = call[c].user
        /\ HidesChat(c)' = HidesChat(c)
    BY <1>3, SeatFrame
  <2>1. TakesOut(c)'
    BY <1>2, <1>3, <2>0 DEF TakesOut
  <2>2. LetsIn(c)'
    BY <1>1, <1>2, <1>3, <2>0 DEF LetsIn
  <2> QED BY <2>1, <2>2
<1>4. ASSUME call[c].user \in members, Skip(c)
      PROVE  IInv'
  <2>1. /\ Goes(c, "addMember") /\ KeepsSeats(c) /\ KeepsRequests(c)
        /\ call'[c].wrote = call[c].wrote
        /\ call'[c].holdsEvent = call[c].holdsEvent
    BY <1>1, <1>4, SkipGoes
  <2>2. LetsIn(c)' /\ TakesOut(c)'
    BY <1>3, <1>4, <2>1
  <2>3. LockHolds' /\ WritesFit(c)'
    BY <2>1, LockKept, WritesKept
  <2> QED BY <2>1, <2>2, <2>3, SeatStep
<1>5. ASSUME Put(c, "member", TRUE)
      PROVE  IInv'
  <2>1. /\ Goes(c, "addMember") /\ call'[c].wrote.member = {TRUE}
        /\ call'[c].wrote.seat = call[c].wrote.seat
        /\ call'[c].wrote.attendance = call[c].wrote.attendance
        /\ call'[c].wrote.request = call[c].wrote.request
        /\ call'[c].wrote.hostNotice = call[c].wrote.hostNotice
        /\ call'[c].wrote.guestNotice = call[c].wrote.guestNotice
        /\ call'[c].status = call[c].status /\ call'[c].holdsEvent = call[c].holdsEvent
    BY <1>1, <1>5, PutMember
  <2>2. KeepsRequests(c)
    BY <2>1 DEF KeepsRequests
  <2>3. LetsIn(c)' /\ TakesOut(c)'
    BY <1>3, <2>1
  <2>4. LockHolds'
    BY <2>1, LockKept
  <2>5. WritesFit(c)'
    BY <1>1, <2>1, SeatFrame DEF WritesFit
  <2> QED BY <2>1, <2>2, <2>3, <2>4, <2>5, SeatStep
<1> QED BY <1>4, <1>5, FailKeeps DEF AddMember

LEMMA DropMemberKeeps ==
    ASSUME ConstantsFit, IInv, NEW c \in Calls, DropMember(c)
    PROVE  IInv'
<1>1. /\ At(c, "dropMember") /\ call[c].kind \in Leaving
      /\ WritesFit(c) /\ LetsIn(c) /\ TakesOut(c)
  BY Before DEF DropMember, RunBy
<1>2. call[c].kind \notin SeatTakers \cup {"restore"}
  BY <1>1 DEF SeatTakers, Leaving
<1>3. ASSUME Goes(c, "dropMember"),
             FALSE \in call'[c].wrote.member \/ call[c].user \notin members,
             call'[c].wrote.seat = call[c].wrote.seat
      PROVE  LetsIn(c)' /\ TakesOut(c)'
  <2>0. /\ \A x \in {"addSeat", "addMember", "expect", "dropSeat", "removeSeat", "dropMember"} :
             x # "dropMember" => (x \in Ahead(c)' <=> x \in Ahead(c))
        /\ UNCHANGED <<participants, members>> /\ event'.chat = event.chat
        /\ crossed' = crossed
        /\ call'[c].kind = call[c].kind /\ call'[c].user = call[c].user
        /\ HidesChat(c)' = HidesChat(c)
    BY <1>3, SeatFrame
  <2>1. LetsIn(c)'
    BY <1>2, <1>3, <2>0 DEF LetsIn
  <2>2. TakesOut(c)'
    BY <1>1, <1>3, <2>0 DEF TakesOut
  <2> QED BY <2>1, <2>2
<1>4. ASSUME call[c].user \notin members, Skip(c)
      PROVE  IInv'
  <2>1. /\ Goes(c, "dropMember") /\ KeepsSeats(c) /\ KeepsRequests(c)
        /\ call'[c].wrote = call[c].wrote
        /\ call'[c].holdsEvent = call[c].holdsEvent
    BY <1>1, <1>4, SkipGoes
  <2>2. LetsIn(c)' /\ TakesOut(c)'
    BY <1>3, <1>4, <2>1
  <2>3. LockHolds' /\ WritesFit(c)'
    BY <2>1, LockKept, WritesKept
  <2> QED BY <2>1, <2>2, <2>3, SeatStep
<1>5. ASSUME Put(c, "member", FALSE)
      PROVE  IInv'
  <2>1. /\ Goes(c, "dropMember") /\ call'[c].wrote.member = {FALSE}
        /\ call'[c].wrote.seat = call[c].wrote.seat
        /\ call'[c].wrote.attendance = call[c].wrote.attendance
        /\ call'[c].wrote.request = call[c].wrote.request
        /\ call'[c].wrote.hostNotice = call[c].wrote.hostNotice
        /\ call'[c].wrote.guestNotice = call[c].wrote.guestNotice
        /\ call'[c].status = call[c].status /\ call'[c].holdsEvent = call[c].holdsEvent
    BY <1>1, <1>5, PutMember
  <2>2. KeepsRequests(c)
    BY <2>1 DEF KeepsRequests
  <2>3. LetsIn(c)' /\ TakesOut(c)'
    BY <1>3, <2>1
  <2>4. LockHolds'
    BY <2>1, LockKept
  <2>5. WritesFit(c)'
    BY <1>1, <2>1, SeatFrame DEF WritesFit
  <2> QED BY <2>1, <2>2, <2>3, <2>4, <2>5, SeatStep
<1> QED BY <1>4, <1>5 DEF DropMember

-----------------------------------------------------------------------------
(* The statements on requests.                                               *)
LEMMA RequestStep ==
    ASSUME IInv, NEW c \in Calls, NEW s, Goes(c, s), KeepsSeats(c),
           call'[c].wrote.attendance = call[c].wrote.attendance,
           call'[c].holdsEvent = call[c].holdsEvent,
           call'[c].wrote.request = call[c].wrote.request \/ RowFree(c, "request"),
           s \notin {"addSeat", "addMember", "expect", "dropSeat", "removeSeat", "dropMember"},
           WritesFit(c)', DecidesPending(c)', Asks(c)'
    PROVE  IInv'
<1>1. LetsIn(c)' /\ TakesOut(c)'
  BY SeatsStepKept
<1>2. LockHolds'
  BY LockKept DEF KeepsSeats
<1>3. RequestIsLocked'
  <2>1. RequestIsLocked /\ call'[c].user = call[c].user
        /\ \A d \in Calls \ {c} : call'[d] = call[d]
    BY DEF IInv, RequestsInv, Goes
  <2>2. CASE call'[c].wrote.request = call[c].wrote.request
    BY <2>1, <2>2 DEF RequestIsLocked
  <2>3. CASE RowFree(c, "request")
    <3>1. \A d \in Calls \ {c} : call[d].user = call[c].user => call[d].wrote.request = {}
      BY <2>3 DEF RowFree
    <3> QED BY <2>1, <3>1 DEF RequestIsLocked
  <2> QED BY <2>2, <2>3
<1> QED BY <1>1, <1>2, <1>3, StepKeeps

(* A row written by a call that neither decides nor asks.                    *)
LEMMA RowPutKeeps ==
    ASSUME IInv, NEW c \in Calls, NEW s \in {"cancelRow", "inviteRow", "overrule"},
           At(c, s), NEW v \in Requests, RowFree(c, "request"), Put(c, "request", v),
           s = "cancelRow" => v.status = "canceled",
           s = "inviteRow" => v = Invite,
           s = "overrule" => v \in {Approved, Rejected}
    PROVE  IInv'
<1>1. /\ Goes(c, s) /\ call'[c].wrote.request = {v}
      /\ call'[c].wrote.seat = call[c].wrote.seat
      /\ call'[c].wrote.member = call[c].wrote.member
      /\ call'[c].wrote.attendance = call[c].wrote.attendance
      /\ call'[c].wrote.hostNotice = call[c].wrote.hostNotice
      /\ call'[c].wrote.guestNotice = call[c].wrote.guestNotice
      /\ call'[c].holdsEvent = call[c].holdsEvent
  BY PutRequest
<1>2. call[c].kind \in RunBy(s) /\ WritesFit(c)
  BY Before
<1>3. call[c].kind \in {"cancel", "invite", "adminApprove", "adminReject"}
  BY <1>2 DEF RunBy
<1>4. /\ s = "cancelRow" <=> call[c].kind = "cancel"
      /\ s = "inviteRow" <=> call[c].kind = "invite"
      /\ s = "overrule" <=> call[c].kind \in {"adminApprove", "adminReject"}
  BY <1>2 DEF RunBy
<1>5. call'[c].kind = call[c].kind /\ HidesChat(c)' = HidesChat(c)
  BY <1>1 DEF Goes, HidesChat
<1>6. WritesFit(c)'
  BY <1>1, <1>2, <1>3, <1>4, <1>5 DEF WritesFit, Reviewers, Deciders
<1>7. DecidesPending(c)' /\ Asks(c)'
  BY <1>3, <1>5 DEF DecidesPending, Asks, Deciders
<1>8. KeepsSeats(c)
  BY <1>1 DEF KeepsSeats
<1> QED BY <1>1, <1>6, <1>7, <1>8, RequestStep

LEMMA RowsAreTyped ==
    ASSUME IInv, NEW c \in Calls, call[c].user \in Guests
    PROVE  request[call[c].user] \in Requests
BY DEF IInv, TypeOK

LEMMA OutcomeTyped ==
    /\ \A kind : Outcome(kind) \in {Approved, Rejected}
    /\ {Approved, Rejected, Invite, OwnRequest, NoRequest} \subseteq Requests
BY DEF Outcome, Approved, Rejected, Invite, OwnRequest, NoRequest, Requests, Statuses

LEMMA RowWrittenKeeps ==
    ASSUME ConstantsFit, IInv, NEW c \in Calls, CancelRow(c) \/ InviteRow(c) \/ Overrule(c)
    PROVE  IInv'
<1>1. CASE CancelRow(c)
  <2>1. At(c, "cancelRow") /\ RowFree(c, "request")
    BY <1>1 DEF CancelRow
  <2>2. call[c].user \in Guests
    BY <2>1, Before DEF StatementsFit, RunBy, Reviewers
  <2>3. [request[call[c].user] EXCEPT !.status = "canceled"] \in Requests
    BY <2>2, RowsAreTyped DEF Requests, Statuses
  <2>4. [request[call[c].user] EXCEPT !.status = "canceled"].status = "canceled"
    BY <2>2, RowsAreTyped DEF Requests
  <2>5. Put(c, "request", [request[call[c].user] EXCEPT !.status = "canceled"])
    BY <1>1 DEF CancelRow
  <2> DEFINE v == [request[call[c].user] EXCEPT !.status = "canceled"]
  <2>6. v \in Requests /\ v.status = "canceled" /\ Put(c, "request", v)
    BY <2>3, <2>4, <2>5
  <2> HIDE DEF v
  <2> QED BY <2>1, <2>6, RowPutKeeps
<1>2. CASE InviteRow(c)
  <2>1. At(c, "inviteRow") /\ RowFree(c, "request") /\ (Fail(c) \/ Put(c, "request", Invite))
    BY <1>2 DEF InviteRow
  <2>2. Invite \in Requests
    BY OutcomeTyped
  <2>3. ASSUME Put(c, "request", Invite)
        PROVE  IInv'
    BY <2>1, <2>2, <2>3, RowPutKeeps
  <2> QED BY <2>1, <2>3, FailKeeps
<1>3. CASE Overrule(c)
  <2> DEFINE v == Outcome(call[c].kind)
  <2>1. At(c, "overrule") /\ RowFree(c, "request") /\ Put(c, "request", v)
    BY <1>3 DEF Overrule
  <2>2. v \in {Approved, Rejected} /\ v \in Requests
    BY OutcomeTyped
  <2> HIDE DEF v
  <2> QED BY <2>1, <2>2, RowPutKeeps
<1> QED BY <1>1, <1>2, <1>3

LEMMA DecideKeeps ==
    ASSUME ConstantsFit, IInv, NEW c \in Calls, Decide(c)
    PROVE  IInv'
<1> DEFINE v == Outcome(call[c].kind)
<1>1. ASSUME Decidable(c), RowFree(c, "request"), Put(c, "request", v)
      PROVE  IInv'
  <2>1. At(c, "decide")
    BY DEF Decide
  <2>2. v \in {Approved, Rejected} /\ v \in Requests
    BY OutcomeTyped
  <2>3. call[c].kind \in Deciders /\ WritesFit(c)
    BY <2>1, Before DEF RunBy
  <2>4. Outcome(call[c].kind) = v
    OBVIOUS
  <2> HIDE DEF v
  <2>5. /\ Goes(c, "decide") /\ call'[c].wrote.request = {v}
        /\ call'[c].wrote.seat = call[c].wrote.seat
        /\ call'[c].wrote.member = call[c].wrote.member
        /\ call'[c].wrote.attendance = call[c].wrote.attendance
        /\ call'[c].wrote.hostNotice = call[c].wrote.hostNotice
        /\ call'[c].wrote.guestNotice = call[c].wrote.guestNotice
        /\ call'[c].holdsEvent = call[c].holdsEvent
    BY <1>1, <2>1, <2>2, PutRequest
  <2>6. /\ call'[c].kind = call[c].kind /\ call'[c].user = call[c].user
        /\ HidesChat(c)' = HidesChat(c) /\ request' = request
    BY <2>5 DEF Goes, HidesChat, rows
  <2>7. call[c].kind \notin {"request", "cancel", "invite", "adminApprove", "adminReject"}
    BY <2>3 DEF Deciders
  <2>8. WritesFit(c)'
    BY <2>3, <2>5, <2>6, <2>7 DEF WritesFit, Reviewers
  <2>9. request[call[c].user].status = "pending"
    BY <1>1 DEF Decidable
  <2>10. DecidesPending(c)'
    BY <2>4, <2>5, <2>6, <2>9 DEF DecidesPending, Outcome
  <2>11. Asks(c)'
    BY <2>6, <2>7 DEF Asks
  <2>12. KeepsSeats(c)
    BY <2>5 DEF KeepsSeats
  <2> QED BY <1>1, <2>5, <2>8, <2>10, <2>11, <2>12, RequestStep
<1> QED BY <1>1, FailKeeps DEF Decide

LEMMA RequestTodo ==
    /\ Head(<<"readRequest", "openRequest", "tellHost">>) = "readRequest"
    /\ Tail(<<"readRequest", "openRequest", "tellHost">>) = <<"openRequest", "tellHost">>
    /\ Head(<<"openRequest", "tellHost">>) = "openRequest"
    /\ Tail(<<"openRequest", "tellHost">>) = <<"tellHost">>
    /\ Head(<<"tellHost">>) = "tellHost"
    /\ Tail(<<"tellHost">>) = <<>>
OBVIOUS

LEMMA ReadRequestKeeps ==
    ASSUME ConstantsFit, IInv, NEW c \in Calls, ReadRequest(c)
    PROVE  IInv'
<1>1. ASSUME Fail(c)
      PROVE  IInv'
  BY <1>1, FailKeeps
<1>2. ASSUME call' = [call EXCEPT ![c].todo = Tail(@),
                                  ![c].status = request[call[c].user].status],
             Only(c)
      PROVE  IInv'
  <2>1. /\ At(c, "readRequest") /\ UNCHANGED <<rows, begun, history>>
        /\ request' = request
    BY <1>2 DEF ReadRequest, Only, rows
  <2>2. /\ call[c].kind = "request" /\ call[c].user \in Guests
        /\ WritesFit(c) /\ Asks(c)
    BY <2>1, Before DEF StatementsFit, RunBy, Reviewers
  <2>3. call \in [Calls -> InFlight] /\ call[c] \in InFlight
    BY DEF IInv, TypeOK
  <2> DEFINE n == request[call[c].user].status
  <2>4. n \in Statuses
    BY <2>2, RowsAreTyped DEF Requests
  <2>5. call' = [call EXCEPT ![c].todo = Tail(@), ![c].status = n]
    BY <1>2
  <2> HIDE DEF n
  <2>6. Tail(call[c].todo) \in Seq(Statements)
    BY <2>1, <2>3, HeadTailProperties DEF InFlight, At
  <2>7. /\ call'[c] = [call[c] EXCEPT !.todo = Tail(call[c].todo), !.status = n]
        /\ \A d \in Calls \ {c} : call'[d] = call[d]
    BY <2>3, <2>5 DEF InFlight
  <2>8. call'[c] \in InFlight
    BY <2>3, <2>4, <2>6, <2>7 DEF InFlight
  <2>9. call' \in [Calls -> InFlight]
    BY <2>3, <2>5, <2>7, <2>8
  <2>10. /\ call'[c].todo = Tail(call[c].todo)
         /\ call'[c].kind = call[c].kind /\ call'[c].user = call[c].user
         /\ call'[c].event = call[c].event
         /\ call'[c].wrote = call[c].wrote /\ call'[c].holdsEvent = call[c].holdsEvent
    BY <2>3, <2>7 DEF InFlight
  <2>11. Goes(c, "readRequest") /\ KeepsSeats(c)
    BY <2>1, <2>7, <2>9, <2>10 DEF Goes, KeepsSeats
  <2>12. WritesFit(c)'
    BY <2>10, <2>11, WritesKept
  <2>13. DecidesPending(c)'
    BY <2>2, <2>10 DEF DecidesPending, Deciders
  <2>14. /\ call[c].todo = <<"readRequest", "openRequest", "tellHost">>
         /\ call[c].wrote.request = {} /\ call[c].wrote.hostNotice = {}
    <3>1. call[c].todo # <<>> /\ Head(call[c].todo) = "readRequest"
      BY <2>1 DEF At
    <3>2. call[c].todo # <<"tellHost">> /\ call[c].todo # <<"openRequest", "tellHost">>
      BY <3>1, RequestTodo
    <3> QED BY <2>2, <3>1, <3>2 DEF Asks
  <2>15. call'[c].todo = <<"openRequest", "tellHost">>
    BY <2>10, <2>14, RequestTodo
  <2>16. Asks(c)'
    BY <2>10, <2>14, <2>15 DEF Asks
  <2> QED BY <2>10, <2>11, <2>12, <2>13, <2>16, RequestStep
<1> QED BY <1>1, <1>2 DEF ReadRequest

LEMMA OpenRequestKeeps ==
    ASSUME ConstantsFit, IInv, NEW c \in Calls, OpenRequest(c)
    PROVE  IInv'
<1> DEFINE row == request[call[c].user]
<1>1. At(c, "openRequest")
  BY DEF OpenRequest
<1>2. /\ call[c].kind = "request" /\ call[c].user \in Guests
      /\ WritesFit(c) /\ Asks(c)
  BY <1>1, Before DEF StatementsFit, RunBy, Reviewers
<1>3. call[c].todo = <<"openRequest", "tellHost">> /\ call[c].wrote.hostNotice = {}
  <2>1. call[c].todo # <<>> /\ Head(call[c].todo) = "openRequest"
    BY <1>1 DEF At
  <2>2. call[c].todo # <<"tellHost">>
        /\ call[c].todo # <<"readRequest", "openRequest", "tellHost">>
    BY <2>1, RequestTodo
  <2> QED BY <1>2, <2>1, <2>2 DEF Asks
<1>4. ASSUME NEW v, Put(c, "request", v), RowFree(c, "request"),
             \/ v = OwnRequest /\ Reopens(c) /\ row.status = call[c].status
             \/ v = OwnRequest /\ ~Reopens(c) /\ row = NoRequest
             \/ v = row /\ ~Reopens(c) /\ row.status = "pending"
      PROVE  IInv'
  <2>1. v \in Requests
    BY <1>2, <1>4, OutcomeTyped, RowsAreTyped
  <2>2. /\ Goes(c, "openRequest") /\ call'[c].wrote.request = {v}
        /\ call'[c].wrote.seat = call[c].wrote.seat
        /\ call'[c].wrote.member = call[c].wrote.member
        /\ call'[c].wrote.attendance = call[c].wrote.attendance
        /\ call'[c].wrote.hostNotice = call[c].wrote.hostNotice
        /\ call'[c].wrote.guestNotice = call[c].wrote.guestNotice
        /\ call'[c].status = call[c].status /\ call'[c].holdsEvent = call[c].holdsEvent
    BY <1>1, <1>4, <2>1, PutRequest
  <2>3. /\ call'[c].kind = call[c].kind /\ call'[c].user = call[c].user
        /\ HidesChat(c)' = HidesChat(c) /\ request' = request
        /\ Reopens(c)' = Reopens(c)
        /\ call'[c].todo = <<"tellHost">>
    BY <1>3, <2>2, RequestTodo DEF Goes, HidesChat, Reopens, rows
  <2>4. WritesFit(c)'
    BY <1>2, <2>2, <2>3 DEF WritesFit, Reviewers
  <2>5. DecidesPending(c)'
    BY <1>2, <2>3 DEF DecidesPending, Deciders
  <2>6. Opening(c)' \/ Creating(c)' \/ Repeating(c)'
    BY <1>4, <2>2, <2>3 DEF Opening, Creating, Repeating
  <2>7. Asks(c)'
    BY <1>3, <2>2, <2>3, <2>6 DEF Asks
  <2>8. KeepsSeats(c)
    BY <2>2 DEF KeepsSeats
  <2> QED BY <1>4, <2>2, <2>4, <2>5, <2>7, <2>8, RequestStep
<1>5. \/ Fail(c)
      \/ /\ RowFree(c, "request") /\ Put(c, "request", OwnRequest)
         /\ \/ Reopens(c) /\ row.status = call[c].status
            \/ ~Reopens(c) /\ row = NoRequest
      \/ /\ RowFree(c, "request") /\ Put(c, "request", row)
         /\ ~Reopens(c) /\ row.status = "pending"
  BY DEF OpenRequest
<1> HIDE DEF row
<1> QED BY <1>4, <1>5, FailKeeps

LEMMA TellHostKeeps ==
    ASSUME ConstantsFit, IInv, NEW c \in Calls, TellHost(c)
    PROVE  IInv'
<1>1. At(c, "tellHost")
  BY DEF TellHost
<1>2. /\ call[c].kind = "request" /\ call[c].user \in Guests
      /\ WritesFit(c) /\ Asks(c)
  BY <1>1, Before DEF StatementsFit, RunBy, Reviewers
<1>3. /\ call[c].todo = <<"tellHost">>
      /\ Opening(c) \/ Creating(c) \/ Repeating(c)
      /\ call[c].wrote.hostNotice = {}
  <2>1. call[c].todo # <<>> /\ Head(call[c].todo) = "tellHost"
    BY <1>1 DEF At
  <2>2. call[c].todo # <<"openRequest", "tellHost">>
        /\ call[c].todo # <<"readRequest", "openRequest", "tellHost">>
    BY <2>1, RequestTodo
  <2> QED BY <1>2, <2>1, <2>2 DEF Asks
<1>4. /\ request[call[c].user] = NoRequest => call[c].user \notin hostKeys
      /\ request[call[c].user] = OwnRequest => call[c].user \in hostKeys
  BY <1>2 DEF IInv, RequestsInv, RequestsFit
<1>5. ASSUME call[c].user \in hostKeys, ~Reopens(c), Skip(c)
      PROVE  IInv'
  <2>1. Repeating(c)
    BY <1>3, <1>4, <1>5 DEF Opening, Creating
  <2>2. /\ Goes(c, "tellHost") /\ KeepsSeats(c) /\ KeepsRequests(c)
        /\ call'[c].wrote = call[c].wrote /\ call'[c].holdsEvent = call[c].holdsEvent
    BY <1>1, <1>5, SkipGoes
  <2>3. /\ call'[c].kind = call[c].kind /\ call'[c].user = call[c].user
        /\ request' = request /\ Reopens(c)' = Reopens(c)
        /\ call'[c].todo = <<>>
    BY <1>3, <2>2, RequestTodo DEF Goes, KeepsRequests, Reopens, rows
  <2>4. Repeating(c)'
    BY <2>1, <2>2, <2>3 DEF Repeating
  <2>5. Asks(c)'
    BY <1>3, <2>2, <2>3, <2>4 DEF Asks
  <2>6. DecidesPending(c)'
    BY <1>2, <2>3 DEF DecidesPending, Deciders
  <2>7. WritesFit(c)'
    BY <2>2, WritesKept
  <2> QED BY <2>2, <2>5, <2>6, <2>7, RequestStep
<1>6. ASSUME ~(call[c].user \in hostKeys /\ ~Reopens(c)), Put(c, "hostNotice", TRUE)
      PROVE  IInv'
  <2>1. /\ Goes(c, "tellHost") /\ call'[c].wrote.hostNotice = {TRUE}
        /\ call'[c].wrote.seat = call[c].wrote.seat
        /\ call'[c].wrote.member = call[c].wrote.member
        /\ call'[c].wrote.attendance = call[c].wrote.attendance
        /\ call'[c].wrote.request = call[c].wrote.request
        /\ call'[c].wrote.guestNotice = call[c].wrote.guestNotice
        /\ call'[c].status = call[c].status /\ call'[c].holdsEvent = call[c].holdsEvent
    BY <1>1, <1>6, PutHostNotice
  <2>2. /\ call'[c].kind = call[c].kind /\ call'[c].user = call[c].user
        /\ HidesChat(c)' = HidesChat(c) /\ request' = request
        /\ Reopens(c)' = Reopens(c)
        /\ call'[c].todo = <<>>
    BY <1>3, <2>1, RequestTodo DEF Goes, HidesChat, Reopens, rows
  <2>3. \/ Opening(c)' \/ Creating(c)'
        \/ Repeating(c)' /\ request'[call'[c].user] # OwnRequest
    BY <1>3, <1>4, <1>6, <2>1, <2>2 DEF Opening, Creating, Repeating
  <2>4. Asks(c)'
    BY <1>3, <2>1, <2>2, <2>3 DEF Asks
  <2>5. DecidesPending(c)'
    BY <1>2, <2>2 DEF DecidesPending, Deciders
  <2>6. WritesFit(c)'
    BY <1>2, <2>1, <2>2 DEF WritesFit
  <2>7. KeepsSeats(c)
    BY <2>1 DEF KeepsSeats
  <2> QED BY <2>1, <2>4, <2>5, <2>6, <2>7, RequestStep
<1> QED BY <1>5, <1>6 DEF TellHost

LEMMA StatementKeeps ==
    ASSUME ConstantsFit, IInv, NEW c \in Calls, Statement(c)
    PROVE  IInv'
<1>1. CASE FindSeat(c) \/ CheckRoom(c) \/ TellGuest(c) \/ CloseDate(c)
  BY <1>1, FindSeatKeeps, CheckRoomKeeps, TellGuestKeeps, CloseDateKeeps
<1>2. CASE AddSeat(c) \/ DropSeat(c) \/ RemoveSeat(c) \/ AddMember(c) \/ DropMember(c)
  BY <1>2, AddSeatKeeps, DropSeatKeeps, AddMemberKeeps, DropMemberKeeps
<1>3. CASE Mark(c, "expect", "not_checked_in")
  BY <1>3, MarkKeeps
<1>4. CASE Mark(c, "markLeft", "left")
  BY <1>4, MarkKeeps
<1>5. CASE Mark(c, "checkIn", "checked_in")
  BY <1>5, MarkKeeps
<1>6. CASE ReadRequest(c) \/ OpenRequest(c) \/ TellHost(c) \/ CancelRow(c) \/ InviteRow(c)
           \/ Overrule(c) \/ Decide(c)
  BY <1>6, ReadRequestKeeps, OpenRequestKeeps, TellHostKeeps, RowWrittenKeeps, DecideKeeps
<1>7. CASE SetEvent(c) \/ Settle(c)
  BY <1>7, SetEventKeeps, SettleKeeps
<1> QED BY <1>1, <1>2, <1>3, <1>4, <1>5, <1>6, <1>7 DEF Statement

-----------------------------------------------------------------------------
(* The beginning of a call.                                                  *)
Entries(q) == {q[i] : i \in DOMAIN q}

(* The statements a call sets out with, q, are those of its kind.            *)
NewFits(kind, u, q, new) ==
    LET hides == kind = "deleteChat" /\ u = Host IN
    /\ q \in Seq(Statements) /\ new \subseteq Events
    /\ \A s \in Entries(q) : kind \in RunBy(s)
    /\ hides => Entries(q) \subseteq {"dropMember"}
    /\ "setEvent" \in Entries(q) => new # {}
    /\ kind \in Reviewers => u \in Guests
    /\ kind \in SeatTakers => "addSeat" \in Entries(q)
    /\ kind = "restore" => u = Host \/ u \in participants
    /\ kind \in SeatTakers \cup {"restore"} => (event.chat => "addMember" \in Entries(q))
    /\ kind \in SeatTakers \ {"adminApprove"} => "expect" \in Entries(q)
    /\ kind \in Leaving => "dropMember" \in Entries(q)
    /\ kind \in Leaving /\ ~hides => "dropSeat" \in Entries(q) \/ "removeSeat" \in Entries(q)
    /\ kind \in Deciders => "decide" \in Entries(q)
    /\ kind = "request" => q = <<"readRequest", "openRequest", "tellHost">>

LEMMA CrossesMarks ==
    ASSUME NEW c \in Calls, NEW kind, NEW u, NEW d \in Calls
    PROVE  Opposed(kind, call[d].kind) =>
             /\ call[d].user = u => u \in Crosses(kind, u)
             /\ call[d].kind = "finish" => u \in Crosses(kind, u)
             /\ kind = "finish" => call[d].user \in Crosses(kind, u)
BY DEF Crosses

LEMMA BeginKeeps ==
    ASSUME ConstantsFit, IInv, NEW c \in Calls, NEW kind, NEW u \in People, NEW q, NEW new,
           NewFits(kind, u, q, new), Begin(c, kind, u, q, new)
    PROVE  IInv'
<1> DEFINE seats == IF kind \in {"request", "adminRemove", "finish"} THEN participants ELSE {}
           status == IF kind = "invite" THEN request[u].status ELSE "none"
<1>1. /\ TypeOK /\ LockHolds /\ CrossedIsKnown /\ SeatsAgree
      /\ RequestIsLocked /\ RequestsFit
      /\ \A d \in Calls : CallInv(d)
  BY IInvParts
<1>2. /\ call' = [call EXCEPT ![c] =
             [Idle EXCEPT !.kind = kind, !.user = u, !.todo = q, !.event = new,
                !.seats = seats, !.status = status]]
      /\ UNCHANGED <<event, participants, members, attendance, request, hostKeys, guestKeys>>
      /\ UNCHANGED <<seatedByAdmin, verdicts, notices>>
      /\ crossed' = crossed \cup Crosses(kind, u)
      /\ begun' = begun + 1 /\ kind \in Kinds
  BY DEF Begin, rows
<1>3. q \in Seq(Statements) /\ new \subseteq Events
  BY DEF NewFits
<1>4. seats \subseteq People /\ status \in Statuses
  <2>1. participants \subseteq People
    BY <1>1 DEF TypeOK
  <2>2. kind = "invite" => u \in Guests
    BY DEF NewFits, Reviewers
  <2>3. u \in Guests => request[u].status \in Statuses
    BY <1>1 DEF TypeOK, Requests
  <2>4. "none" \in Statuses
    BY DEF Statuses
  <2> QED BY <2>1, <2>2, <2>3, <2>4
<1>5. kind \in CallKinds
  BY <1>2 DEF ConstantsFit
<1> HIDE DEF seats, status
<1>6. call \in [Calls -> InFlight]
  BY <1>1 DEF TypeOK
<1>7. /\ call'[c] = [Idle EXCEPT !.kind = kind, !.user = u, !.todo = q, !.event = new,
                       !.seats = seats, !.status = status]
      /\ \A d \in Calls \ {c} : call'[d] = call[d]
  BY <1>2, <1>6
<1>8. call'[c] \in InFlight
  BY <1>3, <1>4, <1>5, <1>7, IdleFits DEF InFlight
<1>9. call' \in [Calls -> InFlight]
  BY <1>2, <1>6, <1>7, <1>8
<1>10. /\ call'[c].kind = kind /\ call'[c].user = u /\ call'[c].todo = q
       /\ call'[c].event = new /\ call'[c].holdsEvent = FALSE
       /\ call'[c].wrote.seat = {} /\ call'[c].wrote.member = {}
       /\ call'[c].wrote.attendance = {} /\ call'[c].wrote.request = {}
       /\ call'[c].wrote.hostNotice = {} /\ call'[c].wrote.guestNotice = {}
  BY <1>7 DEF Idle, Nothing
<1>11. TypeOK'
  BY <1>1, <1>2, <1>9 DEF TypeOK
<1>12. LockHolds'
  BY <1>1, <1>2, <1>7, <1>10 DEF LockHolds
<1>13. CrossedIsKnown'
  <2>1. ASSUME NEW d \in Calls, NEW e \in Calls, Opposed(call'[d].kind, call'[e].kind)
        PROVE  /\ call'[d].user = call'[e].user => call'[d].user \in crossed'
               /\ call'[d].kind = "finish" => call'[e].user \in crossed'
    <3>1. CASE d # c /\ e # c
      BY <1>1, <1>2, <1>7, <2>1, <3>1 DEF CrossedIsKnown
    <3>2. CASE d = c /\ e # c
      BY <1>2, <1>7, <1>10, <2>1, <3>2, CrossesMarks
    <3>3. CASE d # c /\ e = c
      <4>1. Opposed(kind, call[d].kind)
        BY <1>7, <1>10, <2>1, <3>3, OpposedIsApart
      <4> QED BY <1>2, <1>7, <1>10, <3>3, <4>1, CrossesMarks
    <3>4. CASE d = c /\ e = c
      BY <2>1, <3>4, OpposedIsApart
    <3> QED BY <3>1, <3>2, <3>3, <3>4
  <2>2. \A k, l : Opposed(k, l)' = Opposed(k, l)
    BY DEF Opposed
  <2> QED BY <2>1, <2>2 DEF CrossedIsKnown
<1>14. SeatsAgree' /\ RequestsFit'
  BY <1>1, <1>2 DEF SeatsAgree, SeatIffMember, AttendanceFollowsSeat, RequestsFit
<1>15. RequestIsLocked'
  <2> SUFFICES ASSUME NEW d \in Calls, NEW e \in Calls, d # e, call'[d].user = call'[e].user
               PROVE  call'[d].wrote.request = {} \/ call'[e].wrote.request = {}
    BY DEF RequestIsLocked
  <2>1. CASE d = c \/ e = c
    BY <1>10, <2>1
  <2>2. CASE d # c /\ e # c
    <3>1. call'[d] = call[d] /\ call'[e] = call[e]
      BY <1>7, <2>2
    <3> QED BY <1>1, <3>1 DEF RequestIsLocked
  <2> QED BY <2>1, <2>2
<1>16. \A d \in Calls \ {c} : CallInv(d)'
  BY <1>1, <1>2, <1>7, OthersKept DEF OthersStand
<1>17. CallInv(c)'
  <2>1. Ahead(c)' = Entries(q)
    BY <1>10 DEF Ahead, Entries
  <2>2. HidesChat(c)' = (kind = "deleteChat" /\ u = Host)
    BY <1>10 DEF HidesChat
  <2>3. StatementsFit(c)'
    <3>1. \A s : RunBy(s)' = RunBy(s)
      BY DEF RunBy
    <3>2. /\ \A s \in Entries(q) : kind \in RunBy(s)
          /\ kind = "deleteChat" /\ u = Host => Entries(q) \subseteq {"dropMember"}
          /\ "setEvent" \in Entries(q) => new # {}
          /\ kind \in Reviewers => u \in Guests
      BY DEF NewFits
    <3> QED BY <1>10, <2>1, <2>2, <3>1, <3>2 DEF StatementsFit
  <2>4. WritesFit(c)'
    BY <1>10 DEF WritesFit
  <2>5. LetsIn(c)'
    <3>1. /\ kind \in SeatTakers => "addSeat" \in Entries(q)
          /\ kind = "restore" => u = Host \/ u \in participants
          /\ kind \in SeatTakers \cup {"restore"} => (event.chat => "addMember" \in Entries(q))
          /\ kind \in SeatTakers \ {"adminApprove"} => "expect" \in Entries(q)
      BY DEF NewFits
    <3>2. participants' = participants /\ event'.chat = event.chat
      BY <1>2
    <3> QED BY <1>10, <2>1, <3>1, <3>2 DEF LetsIn
  <2>6. TakesOut(c)'
    BY <1>10, <2>1, <2>2 DEF TakesOut, NewFits
  <2>7. DecidesPending(c)'
    BY <1>10, <2>1 DEF DecidesPending, NewFits
  <2>8. Asks(c)'
    BY <1>10 DEF Asks, NewFits
  <2> QED BY <2>3, <2>4, <2>5, <2>6, <2>7, <2>8 DEF CallInv
<1> QED BY <1>11, <1>12, <1>13, <1>14, <1>15, <1>16, <1>17
        DEF IInv, SeatsInv, RequestsInv, CallInv

LEMMA EntriesOf ==
    /\ Entries(<<>>) = {}
    /\ \A a : Entries(<<a>>) = {a}
    /\ \A a, b : Entries(<<a, b>>) = {a, b}
    /\ \A a, b, d : Entries(<<a, b, d>>) = {a, b, d}
<1>1. Entries(<<>>) = {}
  BY DEF Entries
<1>2. ASSUME NEW a
      PROVE  Entries(<<a>>) = {a}
  <2>1. DOMAIN <<a>> = {1} /\ <<a>>[1] = a
    OBVIOUS
  <2> QED BY <2>1 DEF Entries
<1>3. ASSUME NEW a, NEW b
      PROVE  Entries(<<a, b>>) = {a, b}
  <2>1. DOMAIN <<a, b>> = {1, 2} /\ <<a, b>>[1] = a /\ <<a, b>>[2] = b
    OBVIOUS
  <2> QED BY <2>1 DEF Entries
<1>4. ASSUME NEW a, NEW b, NEW d
      PROVE  Entries(<<a, b, d>>) = {a, b, d}
  <2>1. /\ DOMAIN <<a, b, d>> = {1, 2, 3}
        /\ <<a, b, d>>[1] = a /\ <<a, b, d>>[2] = b /\ <<a, b, d>>[3] = d
    OBVIOUS
  <2> QED BY <2>1 DEF Entries
<1> QED BY <1>1, <1>2, <1>3, <1>4

LEMMA EntriesJoined ==
    ASSUME NEW p \in Seq(Statements), NEW q \in Seq(Statements)
    PROVE  p \o q \in Seq(Statements) /\ Entries(p \o q) = Entries(p) \cup Entries(q)
<1>1. /\ p \o q \in Seq(Statements) /\ Len(p \o q) = Len(p) + Len(q)
      /\ Len(p) \in Nat /\ Len(q) \in Nat
      /\ DOMAIN p = 1 .. Len(p) /\ DOMAIN q = 1 .. Len(q)
      /\ DOMAIN (p \o q) = 1 .. Len(p) + Len(q)
      /\ \A i \in 1 .. Len(p) + Len(q) :
           (p \o q)[i] = IF i <= Len(p) THEN p[i] ELSE q[i - Len(p)]
  BY ConcatProperties
<1> DEFINE r == p \o q
<1> HIDE DEF r
<1>2. /\ DOMAIN r = 1 .. Len(p) + Len(q)
      /\ \A i \in 1 .. Len(p) : i \in DOMAIN r /\ r[i] = p[i]
      /\ \A i \in 1 .. Len(q) : i + Len(p) \in DOMAIN r /\ r[i + Len(p)] = q[i]
      /\ \A i \in DOMAIN r : \/ i \in 1 .. Len(p) /\ r[i] = p[i]
                             \/ i - Len(p) \in 1 .. Len(q) /\ r[i] = q[i - Len(p)]
  BY <1>1 DEF r
<1>3. Entries(p) \cup Entries(q) \subseteq Entries(r)
  <2>1. \A i \in 1 .. Len(p) : p[i] \in {r[j] : j \in DOMAIN r}
    BY <1>2
  <2>2. \A i \in 1 .. Len(q) : q[i] \in {r[j] : j \in DOMAIN r}
    BY <1>2
  <2> QED BY <1>1, <2>1, <2>2 DEF Entries
<1>4. Entries(r) \subseteq Entries(p) \cup Entries(q)
  BY <1>1, <1>2 DEF Entries
<1> QED BY <1>1, <1>3, <1>4 DEF r

(* The statements of the calls that let somebody in.                         *)
LEMMA EnterEntries ==
    /\ EnterChat \in Seq(Statements) /\ Enter \in Seq(Statements)
    /\ Entries(EnterChat) = IF event.chat THEN {"addMember"} ELSE {}
    /\ Entries(Enter) = {"addSeat", "expect"} \cup Entries(EnterChat)
<1>1. EnterChat \in Seq(Statements)
  <2>1. "addMember" \in Statements
    BY DEF Statements
  <2>2. <<"addMember">> \in Seq(Statements) /\ <<>> \in Seq(Statements)
    BY <2>1
  <2> QED BY <2>2 DEF EnterChat
<1>2. Entries(EnterChat) = IF event.chat THEN {"addMember"} ELSE {}
  BY EntriesOf DEF EnterChat
<1>3. <<"addSeat", "expect">> \in Seq(Statements)
  BY DEF Statements
<1>4. Entries(<<"addSeat", "expect">>) = {"addSeat", "expect"}
  BY EntriesOf
<1> QED BY <1>1, <1>2, <1>3, <1>4, EntriesJoined DEF Enter

(* Every operation of the API sets out with statements of its kind.          *)
LEMMA UserKinds ==
    ASSUME NEW u \in People, u # Host
    PROVE  u \in Guests
BY DEF People

LEMMA JoinEventKeeps ==
    ASSUME ConstantsFit, IInv, NEW c \in Calls, NEW u \in People, JoinEvent(c, u)
    PROVE  IInv'
<1> DEFINE q == <<"findSeat", "checkRoom">> \o Enter
<1>1. Begin(c, "join", u, q, {})
  BY DEF JoinEvent
<1>2. <<"findSeat", "checkRoom">> \in Seq(Statements)
  BY DEF Statements
<1>3. Entries(<<"findSeat", "checkRoom">>) = {"findSeat", "checkRoom"}
  BY EntriesOf
<1>4. /\ q \in Seq(Statements)
      /\ Entries(q) = {"findSeat", "checkRoom", "addSeat", "expect"} \cup Entries(EnterChat)
  <2>1. Enter \in Seq(Statements)
        /\ Entries(Enter) = {"addSeat", "expect"} \cup Entries(EnterChat)
    BY EnterEntries
  <2>2. /\ q \in Seq(Statements)
        /\ Entries(q) = Entries(<<"findSeat", "checkRoom">>) \cup Entries(Enter)
    BY <1>2, <2>1, EntriesJoined
  <2> HIDE DEF q
  <2> QED BY <1>3, <2>1, <2>2
<1>5. Entries(EnterChat) = IF event.chat THEN {"addMember"} ELSE {}
  BY EnterEntries
<1> HIDE DEF q
<1>6. NewFits("join", u, q, {})
  BY <1>1, <1>4, <1>5 DEF NewFits, RunBy, SeatTakers, Deciders, Reviewers, Leaving
<1> QED BY <1>1, <1>6, BeginKeeps

LEMMA LeaveEventKeeps ==
    ASSUME ConstantsFit, IInv, NEW c \in Calls, NEW u \in People, LeaveEvent(c, u)
    PROVE  IInv'
<1> DEFINE q == <<"dropSeat", "markLeft", "dropMember">>
<1>1. Begin(c, "leave", u, q, {})
  BY DEF LeaveEvent
<1>2. q \in Seq(Statements)
  BY DEF Statements
<1>3. Entries(q) = {"dropSeat", "markLeft", "dropMember"}
  BY EntriesOf
<1> HIDE DEF q
<1>4. NewFits("leave", u, q, {})
  BY <1>1, <1>2, <1>3 DEF NewFits, RunBy, SeatTakers, Deciders, Reviewers, Leaving
<1> QED BY <1>1, <1>4, BeginKeeps

LEMMA CreateJoinRequestKeeps ==
    ASSUME ConstantsFit, IInv, NEW c \in Calls, NEW u \in People, CreateJoinRequest(c, u)
    PROVE  IInv'
<1> DEFINE q == <<"readRequest", "openRequest", "tellHost">>
<1>1. Begin(c, "request", u, q, {}) /\ u \in Guests
  BY UserKinds DEF CreateJoinRequest
<1>2. q \in Seq(Statements)
  BY DEF Statements
<1>3. Entries(q) = {"readRequest", "openRequest", "tellHost"}
  BY EntriesOf
<1>4. NewFits("request", u, q, {})
  BY <1>1, <1>2, <1>3 DEF NewFits, RunBy, SeatTakers, Deciders, Reviewers, Leaving
<1> QED BY <1>1, <1>4, BeginKeeps

LEMMA CancelJoinRequestKeeps ==
    ASSUME ConstantsFit, IInv, NEW c \in Calls, NEW u \in People, CancelJoinRequest(c, u)
    PROVE  IInv'
<1> DEFINE q == <<"cancelRow">>
<1>1. Begin(c, "cancel", u, q, {}) /\ u \in Guests
  BY UserKinds DEF CancelJoinRequest
<1>2. q \in Seq(Statements)
  BY DEF Statements
<1>3. Entries(q) = {"cancelRow"}
  BY EntriesOf
<1> HIDE DEF q
<1>4. NewFits("cancel", u, q, {})
  BY <1>1, <1>2, <1>3 DEF NewFits, RunBy, SeatTakers, Deciders, Reviewers, Leaving
<1> QED BY <1>1, <1>4, BeginKeeps

LEMMA InviteUserToEventKeeps ==
    ASSUME ConstantsFit, IInv, NEW c \in Calls, NEW u \in People, InviteUserToEvent(c, u)
    PROVE  IInv'
<1> DEFINE q == <<"checkRoom", "inviteRow", "tellGuest">>
<1>1. Begin(c, "invite", u, q, {}) /\ u \in Guests
  BY UserKinds DEF InviteUserToEvent
<1>2. q \in Seq(Statements)
  BY DEF Statements
<1>3. Entries(q) = {"checkRoom", "inviteRow", "tellGuest"}
  BY EntriesOf
<1> HIDE DEF q
<1>4. NewFits("invite", u, q, {})
  BY <1>1, <1>2, <1>3 DEF NewFits, RunBy, SeatTakers, Deciders, Reviewers, Leaving
<1> QED BY <1>1, <1>4, BeginKeeps

LEMMA AcceptInviteKeeps ==
    ASSUME ConstantsFit, IInv, NEW c \in Calls, NEW u \in People, AcceptInvite(c, u)
    PROVE  IInv'
<1> DEFINE q == <<"checkRoom", "decide">> \o Enter
<1>1. Begin(c, "accept", u, q, {}) /\ u \in Guests
  BY UserKinds DEF AcceptInvite
<1>2. <<"checkRoom", "decide">> \in Seq(Statements)
  BY DEF Statements
<1>3. Entries(<<"checkRoom", "decide">>) = {"checkRoom", "decide"}
  BY EntriesOf
<1>4. /\ q \in Seq(Statements)
      /\ Entries(q) = {"checkRoom", "decide", "addSeat", "expect"} \cup Entries(EnterChat)
  <2>1. Enter \in Seq(Statements)
        /\ Entries(Enter) = {"addSeat", "expect"} \cup Entries(EnterChat)
    BY EnterEntries
  <2>2. /\ q \in Seq(Statements)
        /\ Entries(q) = Entries(<<"checkRoom", "decide">>) \cup Entries(Enter)
    BY <1>2, <2>1, EntriesJoined
  <2> HIDE DEF q
  <2> QED BY <1>3, <2>1, <2>2
<1>5. Entries(EnterChat) = IF event.chat THEN {"addMember"} ELSE {}
  BY EnterEntries
<1> HIDE DEF q
<1>6. NewFits("accept", u, q, {})
  BY <1>1, <1>4, <1>5 DEF NewFits, RunBy, SeatTakers, Deciders, Reviewers, Leaving
<1> QED BY <1>1, <1>6, BeginKeeps

LEMMA ApproveRequestKeeps ==
    ASSUME ConstantsFit, IInv, NEW c \in Calls, NEW u \in People, ApproveRequest(c, u)
    PROVE  IInv'
<1> DEFINE q == <<"decide", "checkRoom">> \o Enter
<1>1. Begin(c, "approve", u, q, {}) /\ u \in Guests
  BY UserKinds DEF ApproveRequest
<1>2. <<"decide", "checkRoom">> \in Seq(Statements)
  BY DEF Statements
<1>3. Entries(<<"decide", "checkRoom">>) = {"decide", "checkRoom"}
  BY EntriesOf
<1>4. /\ q \in Seq(Statements)
      /\ Entries(q) = {"decide", "checkRoom", "addSeat", "expect"} \cup Entries(EnterChat)
  <2>1. Enter \in Seq(Statements)
        /\ Entries(Enter) = {"addSeat", "expect"} \cup Entries(EnterChat)
    BY EnterEntries
  <2>2. /\ q \in Seq(Statements)
        /\ Entries(q) = Entries(<<"decide", "checkRoom">>) \cup Entries(Enter)
    BY <1>2, <2>1, EntriesJoined
  <2> HIDE DEF q
  <2> QED BY <1>3, <2>1, <2>2
<1>5. Entries(EnterChat) = IF event.chat THEN {"addMember"} ELSE {}
  BY EnterEntries
<1> HIDE DEF q
<1>6. NewFits("approve", u, q, {})
  BY <1>1, <1>4, <1>5 DEF NewFits, RunBy, SeatTakers, Deciders, Reviewers, Leaving
<1> QED BY <1>1, <1>6, BeginKeeps

LEMMA RejectRequestKeeps ==
    ASSUME ConstantsFit, IInv, NEW c \in Calls, NEW u \in People, RejectRequest(c, u)
    PROVE  IInv'
<1> DEFINE q == <<"decide">>
<1>1. Begin(c, "reject", u, q, {}) /\ u \in Guests
  BY UserKinds DEF RejectRequest
<1>2. q \in Seq(Statements)
  BY DEF Statements
<1>3. Entries(q) = {"decide"}
  BY EntriesOf
<1> HIDE DEF q
<1>4. NewFits("reject", u, q, {})
  BY <1>1, <1>2, <1>3 DEF NewFits, RunBy, SeatTakers, Deciders, Reviewers, Leaving
<1> QED BY <1>1, <1>4, BeginKeeps

LEMMA RemoveParticipantKeeps ==
    ASSUME ConstantsFit, IInv, NEW c \in Calls, NEW u \in People, RemoveParticipant(c, u)
    PROVE  IInv'
<1> DEFINE q == <<"removeSeat", "dropMember">>
<1>1. Begin(c, "adminRemove", u, q, {}) /\ u \in Guests
  BY UserKinds DEF RemoveParticipant
<1>2. q \in Seq(Statements)
  BY DEF Statements
<1>3. Entries(q) = {"removeSeat", "dropMember"}
  BY EntriesOf
<1> HIDE DEF q
<1>4. NewFits("adminRemove", u, q, {})
  BY <1>1, <1>2, <1>3 DEF NewFits, RunBy, SeatTakers, Deciders, Reviewers, Leaving
<1> QED BY <1>1, <1>4, BeginKeeps

LEMMA CheckInKeeps ==
    ASSUME ConstantsFit, IInv, NEW c \in Calls, NEW u \in People, CheckIn(c, u)
    PROVE  IInv'
<1> DEFINE q == <<"checkIn">>
<1>1. Begin(c, "checkIn", u, q, {})
  BY DEF CheckIn
<1>2. q \in Seq(Statements)
  BY DEF Statements
<1>3. Entries(q) = {"checkIn"}
  BY EntriesOf
<1> HIDE DEF q
<1>4. NewFits("checkIn", u, q, {})
  BY <1>1, <1>2, <1>3 DEF NewFits, RunBy, SeatTakers, Deciders, Reviewers, Leaving
<1> QED BY <1>1, <1>4, BeginKeeps

LEMMA DeleteChatKeeps ==
    ASSUME ConstantsFit, IInv, NEW c \in Calls, NEW u \in People, DeleteChat(c, u)
    PROVE  IInv'
<1>1. CASE u = Host
  <2> DEFINE q == <<"dropMember">>
  <2>1. Begin(c, "deleteChat", u, q, {})
    BY <1>1 DEF DeleteChat
  <2>2. q \in Seq(Statements)
    BY DEF Statements
  <2>3. Entries(q) = {"dropMember"}
    BY EntriesOf
  <2> HIDE DEF q
  <2>4. NewFits("deleteChat", u, q, {})
    BY <1>1, <2>2, <2>3 DEF NewFits, RunBy, SeatTakers, Deciders, Reviewers, Leaving
  <2> QED BY <2>1, <2>4, BeginKeeps
<1>2. CASE u # Host
  <2> DEFINE q == <<"dropSeat", "markLeft", "dropMember">>
  <2>1. Begin(c, "deleteChat", u, q, {})
    BY <1>2 DEF DeleteChat
  <2>2. q \in Seq(Statements)
    BY DEF Statements
  <2>3. Entries(q) = {"dropSeat", "markLeft", "dropMember"}
    BY EntriesOf
  <2> HIDE DEF q
  <2>4. NewFits("deleteChat", u, q, {})
    BY <1>2, <2>2, <2>3 DEF NewFits, RunBy, SeatTakers, Deciders, Reviewers, Leaving
  <2> QED BY <2>1, <2>4, BeginKeeps
<1> QED BY <1>1, <1>2

LEMMA DeclineInviteKeeps ==
    ASSUME ConstantsFit, IInv, NEW c \in Calls, NEW u \in People, DeclineInvite(c, u)
    PROVE  IInv'
<1>1. PICK q \in {<<"decide", "closeDate">>, <<"decide">>} : Begin(c, "decline", u, q, {})
  BY DEF DeclineInvite
<1>2. u \in Guests
  BY UserKinds DEF DeclineInvite
<1>3. q \in Seq(Statements)
  <2>1. "decide" \in Statements /\ "closeDate" \in Statements
    BY DEF Statements
  <2>2. <<"decide", "closeDate">> \in Seq(Statements) /\ <<"decide">> \in Seq(Statements)
    BY <2>1
  <2> QED BY <1>1, <2>2
<1>4. "decide" \in Entries(q) /\ Entries(q) \subseteq {"decide", "closeDate"}
  BY <1>1, EntriesOf
<1>5. NewFits("decline", u, q, {})
  BY <1>2, <1>3, <1>4 DEF NewFits, RunBy, SeatTakers, Deciders, Reviewers, Leaving
<1> QED BY <1>1, <1>5, BeginKeeps

LEMMA ReviewKeeps ==
    ASSUME ConstantsFit, IInv, NEW c \in Calls, NEW u \in People, ReviewJoinRequest(c, u)
    PROVE  IInv'
<1>1. u \in Guests
  BY UserKinds DEF ReviewJoinRequest
<1>2. CASE Begin(c, "adminApprove", u, <<"overrule", "addSeat">> \o EnterChat, {})
  <2> DEFINE q == <<"overrule", "addSeat">> \o EnterChat
  <2>1. Begin(c, "adminApprove", u, q, {})
    BY <1>2
  <2>2. <<"overrule", "addSeat">> \in Seq(Statements)
    BY DEF Statements
  <2>3. Entries(<<"overrule", "addSeat">>) = {"overrule", "addSeat"}
    BY EntriesOf
  <2>4. EnterChat \in Seq(Statements)
        /\ Entries(EnterChat) = IF event.chat THEN {"addMember"} ELSE {}
    BY EnterEntries
  <2>5. /\ q \in Seq(Statements)
        /\ Entries(q) = Entries(<<"overrule", "addSeat">>) \cup Entries(EnterChat)
    BY <2>2, <2>4, EntriesJoined
  <2> HIDE DEF q
  <2>6. Entries(q) = {"overrule", "addSeat"} \cup Entries(EnterChat)
    BY <2>3, <2>5
  <2>7. NewFits("adminApprove", u, q, {})
    BY <1>1, <2>4, <2>5, <2>6 DEF NewFits, RunBy, SeatTakers, Deciders, Reviewers, Leaving
  <2> QED BY <2>1, <2>7, BeginKeeps
<1>3. CASE Begin(c, "adminReject", u, <<"overrule">>, {})
  <2> DEFINE q == <<"overrule">>
  <2>1. Begin(c, "adminReject", u, q, {})
    BY <1>3
  <2>2. q \in Seq(Statements)
    BY DEF Statements
  <2>3. Entries(q) = {"overrule"}
    BY EntriesOf
  <2> HIDE DEF q
  <2>4. NewFits("adminReject", u, q, {})
    BY <1>1, <2>2, <2>3 DEF NewFits, RunBy, SeatTakers, Deciders, Reviewers, Leaving
  <2> QED BY <2>1, <2>4, BeginKeeps
<1> QED BY <1>2, <1>3 DEF ReviewJoinRequest

LEMMA RestoreKeeps ==
    ASSUME ConstantsFit, IInv, NEW c \in Calls, NEW u \in People, RestoreMembership(c, u)
    PROVE  IInv'
<1> DEFINE q == <<"addMember">>
<1>1. Begin(c, "restore", u, q, {}) /\ (u = Host \/ u \in participants)
  BY DEF RestoreMembership
<1>2. q \in Seq(Statements)
  BY DEF Statements
<1>3. Entries(q) = {"addMember"}
  BY EntriesOf
<1> HIDE DEF q
<1>4. NewFits("restore", u, q, {})
  BY <1>1, <1>2, <1>3 DEF NewFits, RunBy, SeatTakers, Deciders, Reviewers, Leaving
<1> QED BY <1>1, <1>4, BeginKeeps

LEMMA HostStartsKeep ==
    ASSUME ConstantsFit, IInv, NEW c \in Calls, FinishLive(c) \/ EditEvent(c)
    PROVE  IInv'
<1>1. Host \in People
  BY DEF People
<1>2. CASE FinishLive(c)
  <2> DEFINE q == <<"settle">>
  <2>1. Begin(c, "finish", Host, q, {})
    BY <1>2 DEF FinishLive
  <2>2. q \in Seq(Statements)
    BY DEF Statements
  <2>3. Entries(q) = {"settle"}
    BY EntriesOf
  <2> HIDE DEF q
  <2>4. NewFits("finish", Host, q, {})
    BY <2>2, <2>3 DEF NewFits, RunBy, SeatTakers, Deciders, Reviewers, Leaving
  <2> QED BY <1>1, <2>1, <2>4, BeginKeeps
<1>3. CASE EditEvent(c)
  <2> DEFINE q == <<"setEvent">>
  <2>1. PICK n \in Capacities, m \in {"open", "request"} :
          \/ Begin(c, "edit", Host, q, {[event EXCEPT !.capacity = n, !.joinMode = m]})
          \/ Begin(c, "adminEdit", Host, q, {[event EXCEPT !.capacity = n, !.joinMode = m]})
    BY <1>3 DEF EditEvent
  <2> DEFINE new == {[event EXCEPT !.capacity = n, !.joinMode = m]}
  <2>2. PICK kind \in {"edit", "adminEdit"} : Begin(c, kind, Host, q, new)
    BY <2>1
  <2>3. new \subseteq Events /\ new # {}
    <3>1. event \in Events
      BY DEF IInv, TypeOK
    <3> QED BY <3>1 DEF Events
  <2>4. q \in Seq(Statements)
    BY DEF Statements
  <2>5. Entries(q) = {"setEvent"}
    BY EntriesOf
  <2> HIDE DEF q, new
  <2>6. NewFits(kind, Host, q, new)
    BY <2>2, <2>3, <2>4, <2>5 DEF NewFits, RunBy, SeatTakers, Deciders, Reviewers, Leaving
  <2> QED BY <1>1, <2>2, <2>6, BeginKeeps
<1> QED BY <1>2, <1>3

LEMMA StartKeeps ==
    ASSUME ConstantsFit, IInv, NEW c \in Calls, Start(c)
    PROVE  IInv'
<1>1. ASSUME NEW u \in People,
             \/ JoinEvent(c, u)
             \/ LeaveEvent(c, u)
             \/ DeleteChat(c, u)
             \/ CreateJoinRequest(c, u)
             \/ CancelJoinRequest(c, u)
             \/ InviteUserToEvent(c, u)
             \/ AcceptInvite(c, u)
             \/ DeclineInvite(c, u)
             \/ ApproveRequest(c, u)
             \/ RejectRequest(c, u)
             \/ ReviewJoinRequest(c, u)
             \/ RemoveParticipant(c, u)
             \/ RestoreMembership(c, u)
             \/ CheckIn(c, u)
      PROVE  IInv'
  BY <1>1, JoinEventKeeps, LeaveEventKeeps, DeleteChatKeeps, CreateJoinRequestKeeps,
     CancelJoinRequestKeeps, InviteUserToEventKeeps, AcceptInviteKeeps, DeclineInviteKeeps,
     ApproveRequestKeeps, RejectRequestKeeps, ReviewKeeps, RemoveParticipantKeeps,
     RestoreKeeps, CheckInKeeps
<1> QED BY <1>1, HostStartsKeep DEF Start

-----------------------------------------------------------------------------
(* The end of a call.                                                        *)
LEMMA UpdatedRow ==
    ASSUME NEW U, NEW R, NEW f \in [U -> R], NEW u \in U, NEW new \in SUBSET R
    PROVE  /\ Updated(f, u, new) \in [U -> R]
           /\ \A g \in U \ {u} : Updated(f, u, new)[g] = f[g]
           /\ new = {} => Updated(f, u, new)[u] = f[u]
           /\ new # {} => Updated(f, u, new)[u] \in new
BY DEF Updated

(* What a call that commits changes.                                         *)
LEMMA CommitRows ==
    ASSUME ConstantsFit, IInv, NEW c \in Calls, Commit(c)
    PROVE  LET u == call[c].user
               w == call[c].wrote
           IN
           /\ u \in People /\ w \in Writes
           /\ call[c].kind # "idle" /\ Ahead(c) = {}
           /\ event' \in Events /\ event'.capacity = event.capacity
           /\ event'.chat = (event.chat /\ w.closed = {})
           /\ participants' = Added(participants, u, w.seat)
           /\ members' = IF w.closed # {} THEN {} ELSE Added(members, u, w.member)
           /\ attendance' = Updated(attendance, u, w.attendance)
           /\ request' = IF u \in Guests THEN Updated(request, u, w.request) ELSE request
           /\ hostKeys' = Added(hostKeys, u, w.hostNotice)
           /\ guestKeys' = Added(guestKeys, u, w.guestNotice)
           /\ begun' = begun /\ crossed' = crossed
<1>1. call[c] \in InFlight /\ event \in Events
  BY DEF IInv, TypeOK
<1>2. call[c].user \in People /\ call[c].wrote \in Writes
  BY <1>1 DEF InFlight
<1>3. call[c].todo = <<>>
  BY DEF Commit
<1>4. Ahead(c) = {}
  BY <1>3 DEF Ahead
<1> DEFINE closed == call[c].wrote.closed # {}
<1>5. event' = [event EXCEPT !.canceled = @ \/ closed, !.chat = @ /\ ~closed]
  BY DEF Commit
<1>6. closed \in BOOLEAN /\ (~closed <=> call[c].wrote.closed = {})
  OBVIOUS
<1> HIDE DEF closed
<1>7. event' \in Events /\ event'.capacity = event.capacity
      /\ event'.chat = (event.chat /\ ~closed)
  <2>1. (event.canceled \/ closed) \in BOOLEAN /\ (event.chat /\ ~closed) \in BOOLEAN
    BY <1>1, <1>6
  <2> QED BY <1>1, <1>5, <2>1, Zenon DEF Events
<1> QED BY <1>2, <1>4, <1>6, <1>7 DEF Commit

LEMMA CommitCalls ==
    ASSUME ConstantsFit, IInv, NEW c \in Calls, Commit(c)
    PROVE  /\ call' \in [Calls -> InFlight] /\ call'[c] = Idle
           /\ \A d \in Calls \ {c} :
                /\ call'[d].kind = call[d].kind /\ call'[d].user = call[d].user
                /\ call'[d].todo = call[d].todo /\ call'[d].status = call[d].status
                /\ call'[d].event = call[d].event /\ call'[d].wrote = call[d].wrote
                /\ call'[d].holdsEvent = call[d].holdsEvent
<1>1. call \in [Calls -> InFlight]
  BY DEF IInv, TypeOK
<1> DEFINE u == call[c].user
           hit(d) == call[d].kind = "adminRemove" /\ FALSE \in call[c].wrote.seat
<1>2. call' = [d \in Calls |->
         IF d = c THEN Idle
         ELSE IF hit(d) THEN [call[d] EXCEPT !.seats = @ \ {u}]
         ELSE call[d]]
  BY DEF Commit
<1> HIDE DEF u, hit
<1>3. ASSUME NEW d \in Calls \ {c}
      PROVE  /\ call'[d] \in InFlight
             /\ call'[d].kind = call[d].kind /\ call'[d].user = call[d].user
             /\ call'[d].todo = call[d].todo /\ call'[d].status = call[d].status
             /\ call'[d].event = call[d].event /\ call'[d].wrote = call[d].wrote
             /\ call'[d].holdsEvent = call[d].holdsEvent
  <2>1. CASE hit(d)
    <3>1. call'[d] = [call[d] EXCEPT !.seats = call[d].seats \ {u}] /\ call[d] \in InFlight
      BY <1>1, <1>2, <2>1
    <3> QED BY <3>1 DEF InFlight
  <2>2. CASE ~hit(d)
    BY <1>1, <1>2, <2>2
  <2> QED BY <2>1, <2>2
<1>4. call'[c] = Idle
  BY <1>2
<1>5. call' \in [Calls -> InFlight]
  BY <1>2, <1>3, <1>4, IdleFits
<1> QED BY <1>3, <1>4, <1>5

(* No call lets a user in while another takes him out, unless he is crossed. *)
LEMMA CommitWrites ==
    ASSUME IInv, NEW c \in Calls
    PROVE  /\ ~(TRUE \in call[c].wrote.seat /\ FALSE \in call[c].wrote.seat)
           /\ ~(TRUE \in call[c].wrote.member /\ FALSE \in call[c].wrote.member)
           /\ FALSE \notin call[c].wrote.hostNotice /\ FALSE \notin call[c].wrote.guestNotice
           /\ TRUE \in call[c].wrote.seat \/ TRUE \in call[c].wrote.member
                => call[c].kind \in SeatTakers \cup {"restore"}
           /\ FALSE \in call[c].wrote.seat \/ FALSE \in call[c].wrote.member
                => call[c].kind \in Leaving
<1>1. WritesFit(c) /\ call[c].wrote \in Writes
  BY DEF IInv, TypeOK, InFlight
<1>2. (SeatTakers \cup {"restore"}) \cap Leaving = {}
  BY DEF SeatTakers, Leaving
<1>3. FALSE \notin call[c].wrote.hostNotice /\ FALSE \notin call[c].wrote.guestNotice
  BY <1>1 DEF Writes
<1>4. call[c].wrote.seat \in {{}, {TRUE}, {FALSE}}
  BY <1>1 DEF WritesFit
<1>5. ~(TRUE \in call[c].wrote.seat /\ FALSE \in call[c].wrote.seat)
  BY <1>4
<1>6. /\ TRUE \in call[c].wrote.seat => call[c].kind \in SeatTakers
      /\ FALSE \in call[c].wrote.seat => call[c].kind \in Leaving
      /\ TRUE \in call[c].wrote.member => call[c].kind \in SeatTakers \cup {"restore"}
      /\ FALSE \in call[c].wrote.member => call[c].kind \in Leaving
  BY <1>1 DEF WritesFit
<1> QED BY <1>2, <1>3, <1>5, <1>6

LEMMA CommitTypes ==
    ASSUME ConstantsFit, IInv, NEW c \in Calls, Commit(c)
    PROVE  TypeOK'
<1> DEFINE u == call[c].user
           w == call[c].wrote
<1>1. /\ participants \subseteq People /\ members \subseteq People
      /\ attendance \in [People -> Presences] /\ request \in [Guests -> Requests]
      /\ hostKeys \subseteq Guests /\ guestKeys \subseteq Guests
      /\ begun \in Nat /\ verdicts \in [Guests -> Nat] /\ notices \in [Guests -> Nat]
  BY DEF IInv, TypeOK
<1>2. /\ u \in People /\ w \in Writes /\ event' \in Events
      /\ participants' = Added(participants, u, w.seat)
      /\ members' = IF w.closed # {} THEN {} ELSE Added(members, u, w.member)
      /\ attendance' = Updated(attendance, u, w.attendance)
      /\ request' = IF u \in Guests THEN Updated(request, u, w.request) ELSE request
      /\ hostKeys' = Added(hostKeys, u, w.hostNotice)
      /\ guestKeys' = Added(guestKeys, u, w.guestNotice)
      /\ begun' = begun
  BY CommitRows
<1>3. /\ w.attendance \in SUBSET Presences /\ w.request \in SUBSET Requests
      /\ w.hostNotice \in SUBSET {TRUE} /\ w.guestNotice \in SUBSET {TRUE}
  BY <1>2 DEF Writes
<1>4. /\ w.hostNotice # {} => u \in Guests
      /\ w.guestNotice # {} => u \in Guests
  BY DEF IInv, WritesFit, StatementsFit, Reviewers
<1>5. /\ ~(TRUE \in w.seat /\ FALSE \in w.seat) /\ ~(TRUE \in w.member /\ FALSE \in w.member)
      /\ FALSE \notin w.hostNotice /\ FALSE \notin w.guestNotice
  BY CommitWrites
<1>6. Cardinality(w.hostNotice) \in Nat
  <2>1. IsFiniteSet({TRUE})
    BY FS_Singleton
  <2> QED BY <1>3, <2>1, FS_Subset, FS_CardinalityType
<1>7. /\ verdicts' = [g \in Guests |->
           IF g # u THEN verdicts[g]
           ELSE IF Opens(c) THEN 0
           ELSE IF Decides(c) THEN verdicts[g] + 1
           ELSE verdicts[g]]
      /\ notices' = [g \in Guests |->
           IF g # u THEN notices[g]
           ELSE (IF Opens(c) THEN 0 ELSE notices[g]) + Cardinality(w.hostNotice)]
  BY DEF Commit
<1> HIDE DEF u, w
<1>8. participants' \subseteq People /\ members' \subseteq People
  BY <1>1, <1>2 DEF Added
<1>9. attendance' \in [People -> Presences]
  BY <1>1, <1>2, <1>3, UpdatedRow
<1>10. request' \in [Guests -> Requests]
  BY <1>1, <1>2, <1>3, UpdatedRow
<1>11. hostKeys' \subseteq Guests /\ guestKeys' \subseteq Guests
  <2>1. w.hostNotice = {} => hostKeys' = hostKeys
    BY <1>2, <1>5 DEF Added
  <2>2. w.guestNotice = {} => guestKeys' = guestKeys
    BY <1>2, <1>5 DEF Added
  <2>3. hostKeys' \subseteq hostKeys \cup {u} /\ guestKeys' \subseteq guestKeys \cup {u}
    BY <1>2, <1>5 DEF Added
  <2> QED BY <1>1, <1>4, <2>1, <2>2, <2>3
<1>12. verdicts' \in [Guests -> Nat] /\ notices' \in [Guests -> Nat]
  BY <1>1, <1>6, <1>7
<1>13. call' \in [Calls -> InFlight] /\ begun' \in Nat
  BY <1>1, <1>2, CommitCalls
<1> QED BY <1>2, <1>8, <1>9, <1>10, <1>11, <1>12, <1>13 DEF TypeOK

LEMMA CommitOthers ==
    ASSUME ConstantsFit, IInv, NEW c \in Calls, Commit(c), NEW d \in Calls \ {c}
    PROVE  CallInv(d)'
<1> DEFINE u == call[c].user
           w == call[c].wrote
<1>1. CallInv(d) /\ CrossedIsKnown /\ RequestIsLocked /\ request \in [Guests -> Requests]
  BY IInvParts DEF TypeOK
<1>2. /\ call'[d].kind = call[d].kind /\ call'[d].user = call[d].user
      /\ call'[d].todo = call[d].todo /\ call'[d].status = call[d].status
      /\ call'[d].event = call[d].event /\ call'[d].wrote = call[d].wrote
  BY CommitCalls
<1>3. Ahead(d)' = Ahead(d) /\ HidesChat(d)' = HidesChat(d) /\ Reopens(d)' = Reopens(d)
  BY <1>2 DEF Ahead, HidesChat, Reopens
<1>4. StatementsFit(d)'
  <2>1. \A s : RunBy(s)' = RunBy(s)
    BY DEF RunBy
  <2> QED BY <1>1, <1>2, <1>3, <2>1 DEF StatementsFit, CallInv
<1>5. WritesFit(d)'
  BY <1>1, <1>2, <1>3 DEF WritesFit, CallInv
<1>6. /\ u \in People /\ w \in Writes
      /\ event'.chat = (event.chat /\ w.closed = {})
      /\ participants' = Added(participants, u, w.seat)
      /\ members' = IF w.closed # {} THEN {} ELSE Added(members, u, w.member)
      /\ request' = IF u \in Guests THEN Updated(request, u, w.request) ELSE request
      /\ crossed' = crossed
  BY CommitRows
<1>7. /\ ~(TRUE \in w.seat /\ FALSE \in w.seat) /\ ~(TRUE \in w.member /\ FALSE \in w.member)
      /\ TRUE \in w.seat \/ TRUE \in w.member => call[c].kind \in Entering
      /\ FALSE \in w.seat \/ FALSE \in w.member => call[c].kind \in Leaving
  <2>1. SeatTakers \cup {"restore"} \subseteq Entering
    BY DEF SeatTakers, Entering
  <2> QED BY <2>1, CommitWrites
<1>8. ASSUME call[d].user = u, u \notin crossed
      PROVE  /\ call[d].kind \in Entering => FALSE \notin w.seat /\ FALSE \notin w.member
             /\ call[d].kind \in Leaving => TRUE \notin w.seat /\ TRUE \notin w.member
  <2>1. ~Opposed(call[c].kind, call[d].kind)
    BY <1>1, <1>8 DEF CrossedIsKnown
  <2> QED BY <1>7, <2>1 DEF Opposed
<1> DEFINE x == call[d].user
<1>9. ASSUME x \notin crossed, call[d].kind \in Entering
      PROVE  /\ x \in participants => x \in participants'
             /\ x \in members /\ event'.chat => x \in members'
  <2>1. FALSE \notin w.seat \/ x # u
    BY <1>8, <1>9
  <2>2. FALSE \notin w.member \/ x # u
    BY <1>8, <1>9
  <2>3. w.closed = {} \/ ~event'.chat
    BY <1>6
  <2> QED BY <1>6, <2>1, <2>2, <2>3 DEF Added
<1>10. ASSUME x \notin crossed, call[d].kind \in Leaving
       PROVE  /\ x \notin participants => x \notin participants'
              /\ x \notin members => x \notin members'
  <2>1. TRUE \notin w.seat \/ x # u
    BY <1>8, <1>10
  <2>2. TRUE \notin w.member \/ x # u
    BY <1>8, <1>10
  <2> QED BY <1>6, <2>1, <2>2 DEF Added
<1>11. LetsIn(d)'
  <2>1. SeatTakers \cup {"restore"} \subseteq Entering
    BY DEF SeatTakers, Entering
  <2>2. event'.chat => event.chat
    BY <1>6
  <2>3. LetsIn(d)
    BY <1>1 DEF CallInv
  <2> QED BY <1>2, <1>3, <1>6, <1>9, <2>1, <2>2, <2>3 DEF LetsIn
<1>12. TakesOut(d)'
  BY <1>1, <1>2, <1>3, <1>6, <1>10 DEF TakesOut, CallInv
<1>13. ASSUME call[d].wrote.request # {}
       PROVE  x \in Guests => request'[x] = request[x]
  <2>1. x = u => w.request = {}
    BY <1>1, <1>13 DEF RequestIsLocked
  <2>2. request' = [request EXCEPT ![u] = IF w.request = {} THEN @ ELSE CHOOSE v \in w.request : TRUE]
        \/ request' = request
    BY <1>6 DEF Updated
  <2> QED BY <1>1, <2>1, <2>2
<1>14. call[d].kind \in Reviewers => x \in Guests
  BY <1>1 DEF CallInv, StatementsFit
<1>15. DecidesPending(d)'
  <2>1. DecidesPending(d) /\ (call[d].kind \in Deciders => x \in Guests)
    BY <1>1, <1>14 DEF CallInv, Reviewers
  <2> QED BY <1>2, <1>3, <1>13, <2>1 DEF DecidesPending, Outcome
<1>16. Asks(d)'
  <2>1. Asks(d) /\ (call[d].kind = "request" => x \in Guests)
    BY <1>1, <1>14 DEF CallInv, Reviewers
  <2>2. CASE call[d].kind = "request" /\ call[d].wrote.request # {}
    <3>1. request'[x] = request[x]
      BY <1>13, <2>1, <2>2
    <3>2. Opening(d)' = Opening(d) /\ Creating(d)' = Creating(d) /\ Repeating(d)' = Repeating(d)
      BY <1>2, <1>3, <3>1 DEF Opening, Creating, Repeating
    <3> QED BY <1>2, <2>1, <3>1, <3>2 DEF Asks
  <2>3. CASE call[d].kind = "request" /\ call[d].wrote.request = {}
    BY <1>2, <2>1, <2>3 DEF Asks, Opening, Creating, Repeating
  <2>4. CASE call[d].kind # "request"
    BY <1>2, <2>4 DEF Asks
  <2> QED BY <2>2, <2>3, <2>4
<1> QED BY <1>4, <1>5, <1>11, <1>12, <1>15, <1>16 DEF CallInv

LEMMA CommitLock ==
    ASSUME ConstantsFit, IInv, NEW c \in Calls, Commit(c)
    PROVE  LockHolds' /\ CrossedIsKnown' /\ RequestIsLocked'
<1> DEFINE w == call[c].wrote
<1>1. LockHolds /\ CrossedIsKnown /\ RequestIsLocked /\ TypeOK
  BY IInvParts
<1>2. /\ call'[c] = Idle
      /\ \A d \in Calls \ {c} :
           /\ call'[d].kind = call[d].kind /\ call'[d].user = call[d].user
           /\ call'[d].wrote = call[d].wrote /\ call'[d].holdsEvent = call[d].holdsEvent
  BY CommitCalls
<1>3. /\ call'[c].kind = "idle" /\ call'[c].wrote.seat = {}
      /\ call'[c].wrote.request = {} /\ call'[c].holdsEvent = FALSE
  BY <1>2 DEF Idle, Nothing
<1>4. /\ event'.capacity = event.capacity /\ event \in Events
      /\ participants' = Added(participants, call[c].user, w.seat)
      /\ crossed' = crossed
  BY <1>1, CommitRows DEF TypeOK
<1>5. LockHolds'
  <2> SUFFICES ASSUME NEW d \in Calls, call'[d].holdsEvent
               PROVE  /\ Cardinality(participants') < event'.capacity
                      /\ \A e \in Calls \ {d} :
                           TRUE \notin call'[e].wrote.seat /\ ~call'[e].holdsEvent
    BY DEF LockHolds
  <2>1. d # c
    BY <1>3
  <2>2. /\ call[d].holdsEvent /\ Cardinality(participants) < event.capacity
        /\ \A e \in Calls \ {d} : TRUE \notin call[e].wrote.seat /\ ~call[e].holdsEvent
    BY <1>1, <1>2, <2>1 DEF LockHolds
  <2>3. participants' \subseteq participants
    <3>1. TRUE \notin w.seat
      BY <2>1, <2>2
    <3> QED BY <1>4, <3>1 DEF Added
  <2>4. Cardinality(participants') <= Cardinality(participants)
        /\ Cardinality(participants') \in Nat /\ Cardinality(participants) \in Nat
    <3>1. IsFiniteSet(People)
      BY FS_AddElement DEF ConstantsFit, People
    <3>2. IsFiniteSet(participants)
      BY <1>1, <3>1, FS_Subset DEF TypeOK
    <3>3. IsFiniteSet(participants') /\ Cardinality(participants') <= Cardinality(participants)
      BY <2>3, <3>2, FS_Subset
    <3> QED BY <3>2, <3>3, FS_CardinalityType
  <2>5. event.capacity \in Nat
    BY <1>4 DEF Events, ConstantsFit
  <2>6. Cardinality(participants') < event'.capacity
    BY <1>4, <2>2, <2>4, <2>5
  <2>7. \A e \in Calls \ {d} : TRUE \notin call'[e].wrote.seat /\ ~call'[e].holdsEvent
    BY <1>2, <1>3, <2>2
  <2> QED BY <2>6, <2>7
<1>6. CrossedIsKnown'
  BY <1>1, <1>2, <1>3, <1>4, CrossedKept
<1>7. RequestIsLocked'
  BY <1>1, <1>2, <1>3 DEF RequestIsLocked
<1> QED BY <1>5, <1>6, <1>7

LEMMA CommitSeats ==
    ASSUME ConstantsFit, IInv, NEW c \in Calls, Commit(c)
    PROVE  SeatsAgree'
<1> DEFINE u == call[c].user
           w == call[c].wrote
           k == call[c].kind
<1>1. /\ SeatIffMember /\ AttendanceFollowsSeat /\ LetsIn(c) /\ TakesOut(c) /\ WritesFit(c)
      /\ participants \subseteq People /\ attendance \in [People -> Presences]
  BY DEF IInv, SeatsInv, SeatsAgree, TypeOK
<1>2. /\ u \in People /\ w \in Writes /\ Ahead(c) = {}
      /\ event'.chat = (event.chat /\ w.closed = {})
      /\ participants' = Added(participants, u, w.seat)
      /\ members' = IF w.closed # {} THEN {} ELSE Added(members, u, w.member)
      /\ attendance' = Updated(attendance, u, w.attendance)
      /\ crossed' = crossed
  BY CommitRows
<1>3. seatedByAdmin' = IF k = "adminApprove" THEN seatedByAdmin \cup {u} ELSE seatedByAdmin
  BY DEF Commit
<1>4. /\ ~(TRUE \in w.seat /\ FALSE \in w.seat)
      /\ ~(TRUE \in w.member /\ FALSE \in w.member)
      /\ TRUE \in w.seat \/ TRUE \in w.member => k \in SeatTakers \cup {"restore"}
      /\ FALSE \in w.seat \/ FALSE \in w.member => k \in Leaving
  BY CommitWrites
<1>5. (SeatTakers \cup {"restore"}) \cap Leaving = {}
  BY DEF SeatTakers, Leaving
(* The user himself. *)
<1>6. ASSUME u \notin crossed, k \in SeatTakers
      PROVE  /\ TRUE \in w.seat \/ u \in participants
             /\ event.chat => TRUE \in w.member \/ u \in members
             /\ k # "adminApprove" => w.attendance = {"not_checked_in"}
  BY <1>1, <1>2, <1>6 DEF LetsIn
<1>7. ASSUME u \notin crossed, k = "restore"
      PROVE  /\ u = Host \/ u \in participants
             /\ event.chat => TRUE \in w.member \/ u \in members
  BY <1>1, <1>2, <1>7 DEF LetsIn
<1>8. ASSUME u \notin crossed, k \in Leaving
      PROVE  /\ FALSE \in w.member \/ u \notin members
             /\ ~HidesChat(c) => FALSE \in w.seat \/ u \notin participants
  BY <1>1, <1>2, <1>8 DEF TakesOut
<1>9. u \in Guests => ~HidesChat(c)
  BY DEF HidesChat, ConstantsFit
<1>10. SeatIffMember'
  <2> SUFFICES ASSUME event'.chat, NEW g \in Guests \ crossed'
               PROVE  g \in participants' <=> g \in members'
    BY DEF SeatIffMember
  <2>1. event.chat /\ w.closed = {} /\ members' = Added(members, u, w.member) /\ g \notin crossed
    BY <1>2
  <2>2. g \in participants <=> g \in members
    BY <1>1, <2>1 DEF SeatIffMember
  <2>3. CASE g # u
    BY <1>2, <2>1, <2>2, <2>3 DEF Added
  <2>4. CASE g = u /\ k \in SeatTakers
    <3>1. FALSE \notin w.seat /\ FALSE \notin w.member
      BY <1>4, <1>5, <2>4
    <3>2. TRUE \in w.seat \/ u \in participants
      BY <1>6, <2>1, <2>4
    <3>3. TRUE \in w.member \/ u \in members
      BY <1>6, <2>1, <2>4
    <3> QED BY <1>2, <2>1, <2>4, <3>1, <3>2, <3>3 DEF Added
  <2>5. CASE g = u /\ k = "restore"
    <3>1. FALSE \notin w.seat /\ FALSE \notin w.member
      BY <1>4, <1>5, <2>5
    <3>2. u \in participants
      BY <1>7, <2>1, <2>5 DEF ConstantsFit
    <3>3. TRUE \in w.member \/ u \in members
      BY <1>7, <2>1, <2>5
    <3> QED BY <1>2, <2>1, <2>5, <3>1, <3>2, <3>3 DEF Added
  <2>6. CASE g = u /\ k \in Leaving
    <3>1. TRUE \notin w.seat /\ TRUE \notin w.member
      BY <1>4, <1>5, <2>6
    <3>2. FALSE \in w.member \/ u \notin members
      BY <1>8, <2>1, <2>6
    <3>3. FALSE \in w.seat \/ u \notin participants
      BY <1>8, <1>9, <2>1, <2>6
    <3> QED BY <1>2, <2>1, <2>6, <3>1, <3>2, <3>3 DEF Added
  <2>7. CASE k \notin SeatTakers \cup {"restore"} \cup Leaving
    BY <1>2, <1>4, <2>1, <2>2, <2>7 DEF Added
  <2> QED BY <2>3, <2>4, <2>5, <2>6, <2>7
<1>11. AttendanceFollowsSeat'
  <2> SUFFICES ASSUME NEW g \in participants' \ (crossed' \cup seatedByAdmin')
               PROVE  attendance'[g] \in {"not_checked_in", "checked_in"}
    BY DEF AttendanceFollowsSeat
  <2>1. g \notin crossed /\ g \notin seatedByAdmin
    BY <1>2, <1>3
  <2>2. g \in participants => attendance[g] \in {"not_checked_in", "checked_in"}
    BY <1>1, <2>1 DEF AttendanceFollowsSeat
  <2>3. CASE g # u
    <3>1. g \in participants
      BY <1>2, <2>3 DEF Added
    <3>2. attendance'[g] = attendance[g]
      BY <1>1, <1>2, <2>3, <3>1 DEF Updated
    <3> QED BY <2>2, <3>1, <3>2
  <2>4. CASE g = u /\ k \in SeatTakers
    <3>1. k # "adminApprove"
      BY <1>3, <2>4
    <3>2. w.attendance = {"not_checked_in"}
      BY <1>6, <2>1, <2>4, <3>1
    <3>3. attendance'[u] = CHOOSE v \in w.attendance : TRUE
      BY <1>1, <1>2, <3>2 DEF Updated
    <3>4. (CHOOSE v \in w.attendance : TRUE) \in w.attendance
      BY <3>2
    <3> QED BY <2>4, <3>2, <3>3, <3>4
  <2>5. CASE g = u /\ k \notin SeatTakers
    <3>1. TRUE \notin w.seat
      BY <1>1, <2>5 DEF WritesFit
    <3>2. u \in participants /\ FALSE \notin w.seat
      BY <1>2, <2>5, <3>1 DEF Added
    <3>3. \A p \in w.attendance : p \in {"not_checked_in", "checked_in"}
      <4> SUFFICES ASSUME NEW p \in w.attendance, p \notin {"not_checked_in", "checked_in"}
                   PROVE  FALSE
        OBVIOUS
      <4>1. k \in {"leave", "deleteChat"} /\ ~HidesChat(c)
        BY <1>1 DEF WritesFit
      <4>2. k \in Leaving
        BY <4>1 DEF Leaving
      <4> QED BY <1>8, <2>1, <2>5, <3>2, <4>1, <4>2
    <3>4. w.attendance # {} =>
            (CHOOSE v \in w.attendance : TRUE) \in {"not_checked_in", "checked_in"}
      BY <3>3
    <3>5. attendance'[u] = IF w.attendance = {} THEN attendance[u]
                           ELSE CHOOSE v \in w.attendance : TRUE
      BY <1>1, <1>2 DEF Updated
    <3> QED BY <2>2, <2>5, <3>2, <3>4, <3>5
  <2> QED BY <2>3, <2>4, <2>5
<1> QED BY <1>10, <1>11 DEF SeatsAgree

LEMMA RowsDiffer ==
    /\ OwnRequest.status = "pending" /\ Invite.status = "pending"
    /\ Approved.status = "approved" /\ Rejected.status = "rejected"
    /\ NoRequest.status = "none"
    /\ OwnRequest # Invite /\ OwnRequest # NoRequest /\ Invite # NoRequest
BY DEF OwnRequest, Invite, Approved, Rejected, NoRequest

LEMMA CommitRequests ==
    ASSUME ConstantsFit, IInv, NEW c \in Calls, Commit(c)
    PROVE  RequestsFit'
<1> DEFINE u == call[c].user
           w == call[c].wrote
           k == call[c].kind
<1>1. /\ RequestsFit /\ DecidesPending(c) /\ Asks(c) /\ WritesFit(c)
      /\ request \in [Guests -> Requests]
      /\ verdicts \in [Guests -> Nat] /\ notices \in [Guests -> Nat]
      /\ hostKeys \subseteq Guests
      /\ k \in Reviewers => u \in Guests
  BY DEF IInv, RequestsInv, StatementsFit, TypeOK
<1>2. /\ w \in Writes /\ Ahead(c) = {}
      /\ request' = IF u \in Guests THEN Updated(request, u, w.request) ELSE request
      /\ hostKeys' = Added(hostKeys, u, w.hostNotice)
  BY CommitRows
<1>3. /\ verdicts' = [g \in Guests |->
           IF g # u THEN verdicts[g]
           ELSE IF Opens(c) THEN 0
           ELSE IF Decides(c) THEN verdicts[g] + 1
           ELSE verdicts[g]]
      /\ notices' = [g \in Guests |->
           IF g # u THEN notices[g]
           ELSE (IF Opens(c) THEN 0 ELSE notices[g]) + Cardinality(w.hostNotice)]
      /\ call[c].todo = <<>>
  BY DEF Commit
<1>4. Cardinality({}) = 0 /\ Cardinality({TRUE}) = 1
  BY FS_EmptySet, FS_Singleton
<1>5. FALSE \notin w.hostNotice /\ w.hostNotice \in {{}, {TRUE}}
  <2>1. w.hostNotice \subseteq {TRUE}
    BY <1>2 DEF Writes
  <2>2. w.hostNotice = {} \/ w.hostNotice = {TRUE}
    BY <2>1
  <2> QED BY <2>2
<1> DEFINE Fit(g) ==
      /\ verdicts'[g] <= 1
      /\ request'[g].status = "pending" => verdicts'[g] = 0
      /\ request'[g] = NoRequest => g \notin hostKeys'
      /\ request'[g] = OwnRequest => g \in hostKeys' /\ notices'[g] = 1
<1>6. ASSUME NEW g \in Guests, g # u
      PROVE  Fit(g)
  <2>1. request'[g] = request[g]
    BY <1>1, <1>2, <1>6 DEF Updated
  <2>2. g \in hostKeys' <=> g \in hostKeys
    BY <1>2, <1>6 DEF Added
  <2>3. verdicts'[g] = verdicts[g] /\ notices'[g] = notices[g]
    BY <1>3, <1>6
  <2> QED BY <1>1, <2>1, <2>2, <2>3 DEF RequestsFit
<1>7. ASSUME u \in Guests
      PROVE  Fit(u)
  <2>1. /\ verdicts[u] <= 1 /\ verdicts[u] \in Nat /\ notices[u] \in Nat
        /\ request[u].status = "pending" => verdicts[u] = 0
        /\ request[u] = NoRequest => u \notin hostKeys
        /\ request[u] = OwnRequest => u \in hostKeys /\ notices[u] = 1
    BY <1>1, <1>7 DEF RequestsFit
  <2>2. request'[u] = IF w.request = {} THEN request[u] ELSE CHOOSE v \in w.request : TRUE
    BY <1>1, <1>2, <1>7 DEF Updated
  <2>3. /\ verdicts'[u] = IF Opens(c) THEN 0
                          ELSE IF Decides(c) THEN verdicts[u] + 1 ELSE verdicts[u]
        /\ notices'[u] = (IF Opens(c) THEN 0 ELSE notices[u]) + Cardinality(w.hostNotice)
    BY <1>3, <1>7
  <2>4. u \in hostKeys' <=> u \in hostKeys \/ TRUE \in w.hostNotice
    BY <1>2, <1>5 DEF Added
  <2>5. Opens(c) <=> w.request \in {{OwnRequest}, {Invite}} /\ request[u].status # "pending"
    BY DEF Opens
  <2>6. Decides(c) <=> k \in Deciders
    BY DEF Decides, Deciders
  <2>7. CASE k \in Deciders
    <3>1. w.request = {Outcome(k)} /\ request[u].status = "pending"
      BY <1>1, <1>2, <2>7 DEF DecidesPending
    <3>2. Outcome(k) \in {Approved, Rejected}
      BY DEF Outcome
    <3>3. request'[u] \in {Approved, Rejected}
      BY <2>2, <3>1, <3>2
    <3>4. verdicts'[u] = 1
      BY <2>1, <2>3, <2>5, <2>6, <2>7, <3>1
    <3> QED BY <3>3, <3>4, RowsDiffer
  <2>8. CASE k = "request"
    <3>1. \/ (Opening(c) \/ Creating(c)) /\ w.hostNotice = {TRUE}
          \/ Repeating(c) /\ (request[u] = OwnRequest => w.hostNotice = {})
      <4>1. /\ <<>> # <<"tellHost">> /\ <<>> # <<"openRequest", "tellHost">>
            /\ <<>> # <<"readRequest", "openRequest", "tellHost">>
        OBVIOUS
      <4> QED BY <1>1, <1>3, <2>8, <4>1 DEF Asks
    <3>2. ~Decides(c)
      BY <2>6, <2>8 DEF Deciders
    <3>3. CASE (Opening(c) \/ Creating(c)) /\ w.hostNotice = {TRUE}
      <4>1. w.request = {OwnRequest} /\ request[u].status # "pending"
        BY <3>3, RowsDiffer DEF Opening, Creating, Reopens
      <4>2. request'[u] = OwnRequest
        BY <2>2, <4>1
      <4>3. verdicts'[u] = 0 /\ notices'[u] = 1
        BY <1>4, <2>3, <2>5, <3>3, <4>1
      <4>4. u \in hostKeys'
        BY <2>4, <3>3
      <4> QED BY <4>2, <4>3, <4>4, RowsDiffer
    <3>4. CASE Repeating(c) /\ (request[u] = OwnRequest => w.hostNotice = {})
      <4>1. request[u].status = "pending" /\ w.request = {request[u]}
        BY <3>4 DEF Repeating
      <4>2. request'[u] = request[u]
        BY <2>2, <4>1
      <4>3. verdicts'[u] = 0
        BY <2>1, <2>3, <2>5, <3>2, <4>1
      <4>4. request[u] = OwnRequest => notices'[u] = 1 /\ u \in hostKeys'
        <5>1. ~Opens(c)
          BY <2>5, <4>1
        <5>2. request[u] = OwnRequest => notices[u] = 1 /\ w.hostNotice = {} /\ u \in hostKeys
          BY <2>1, <3>4
        <5>3. notices'[u] = notices[u] + Cardinality(w.hostNotice)
          BY <2>3, <5>1
        <5> SUFFICES ASSUME request[u] = OwnRequest
                     PROVE  notices'[u] = 1 /\ u \in hostKeys'
          OBVIOUS
        <5>4. Cardinality(w.hostNotice) = 0
          BY <1>4, <5>2
        <5>5. notices'[u] = 1
          BY <5>2, <5>3, <5>4
        <5> QED BY <2>4, <5>2, <5>5
      <4> QED BY <4>1, <4>2, <4>3, <4>4, RowsDiffer
    <3> QED BY <3>1, <3>3, <3>4
  <2>9. ASSUME k \notin Deciders \cup {"request"}
        PROVE  Fit(u)
    <3>1. w.hostNotice = {} /\ ~Decides(c)
      BY <1>1, <2>6, <2>9 DEF WritesFit
    <3>2. notices'[u] = IF Opens(c) THEN 0 ELSE notices[u]
      BY <1>4, <2>1, <2>3, <3>1
    <3>3. u \in hostKeys' <=> u \in hostKeys
      BY <2>4, <3>1
    <3>4. CASE w.request = {}
      BY <2>1, <2>2, <2>3, <2>5, <3>1, <3>2, <3>3, <3>4
    <3>5. CASE w.request # {}
      <4>1. \A r \in w.request : \/ r.status \in {"canceled", "approved", "rejected"}
                                 \/ r = Invite
        BY <1>1, <2>9, <3>5, RowsDiffer DEF WritesFit, Reviewers
      <4>2. request'[u] \in w.request
        BY <2>2, <3>5
      <4>3. request'[u] # NoRequest /\ request'[u] # OwnRequest
        BY <4>1, <4>2, RowsDiffer
      <4>4. verdicts'[u] = IF Opens(c) THEN 0 ELSE verdicts[u]
        BY <2>3, <3>1
      <4>5. request'[u].status = "pending" => verdicts'[u] = 0
        <5>1. ASSUME request'[u].status = "pending", ~Opens(c)
              PROVE  request[u].status = "pending"
          <6>1. request'[u] = Invite
            BY <4>1, <4>2, <5>1
          <6>2. k = "invite" \/ \A r \in w.request : r.status # "pending"
            BY <1>1, <2>9, <3>5, RowsDiffer DEF WritesFit, Reviewers
          <6>3. w.request = {Invite}
            BY <1>1, <4>2, <5>1, <6>1, <6>2, RowsDiffer DEF WritesFit
          <6> QED BY <2>5, <5>1, <6>3
        <5> QED BY <2>1, <4>4, <5>1
      <4>6. verdicts'[u] <= 1
        BY <2>1, <4>4
      <4> QED BY <4>3, <4>5, <4>6
    <3> QED BY <3>4, <3>5
  <2> QED BY <2>7, <2>8, <2>9
<1>8. \A g \in Guests : Fit(g)
  BY <1>6, <1>7
<1> QED BY <1>8 DEF RequestsFit

LEMMA CommitKeeps ==
    ASSUME ConstantsFit, IInv, NEW c \in Calls, Commit(c)
    PROVE  IInv'
<1>1. CallInv(c)'
  BY CommitCalls, IdleInv
<1>2. \A d \in Calls \ {c} : CallInv(d)'
  BY CommitOthers
<1>3. TypeOK' /\ SeatsAgree' /\ RequestsFit' /\ LockHolds' /\ CrossedIsKnown' /\ RequestIsLocked'
  BY CommitTypes, CommitSeats, CommitRequests, CommitLock
<1> QED BY <1>1, <1>2, <1>3 DEF IInv, SeatsInv, RequestsInv, CallInv

-----------------------------------------------------------------------------
LEMMA InitHolds ==
    ASSUME ConstantsFit, Init
    PROVE  IInv
<1>1. PICK k \in Capacities, m \in {"open", "request"}, b \in BOOLEAN :
        event = [capacity |-> k, joinMode |-> m, dating |-> b,
                 canceled |-> FALSE, chat |-> TRUE]
  BY DEF Init
<1>2. event \in Events /\ event.dating = b
  BY <1>1 DEF Events
<1> DEFINE at(start, S) == {g \in Guests : start[g] \in S}
<1>3. PICK start \in [Guests -> Starts] :
         /\ participants = at(start, Seated) \cup {Host}
         /\ event.dating => at(start, {"outside", "invited", "admitted", "left"}) = Guests
         /\ attendance = [u \in People |->
                IF u \in participants THEN "not_checked_in"
                ELSE IF u \in at(start, {"left"}) THEN "left" ELSE "none"]
         /\ request = [g \in Guests |-> StartRequest(start[g])]
         /\ hostKeys = IF event.dating THEN {}
                       ELSE at(start, {"asked", "admitted", "left", "refused"})
         /\ guestKeys = IF event.dating THEN Guests \ at(start, {"outside"})
                        ELSE at(start, {"invited", "declined"})
         /\ notices = [g \in Guests |-> IF start[g] = "asked" THEN 1 ELSE 0]
  BY DEF Init
<1>4. /\ members = participants /\ call = [c \in Calls |-> Idle] /\ begun = 0
      /\ crossed = {} /\ seatedByAdmin = {} /\ verdicts = [g \in Guests |-> 0]
  BY DEF Init
<1>5. participants \subseteq People
  BY <1>3 DEF People
<1>6. TypeOK
  <2>1. attendance \in [People -> Presences]
    BY <1>3 DEF Presences
  <2>2. request \in [Guests -> Requests]
    <3>1. \A s : StartRequest(s) \in Requests
      BY OutcomeTyped DEF StartRequest
    <3> QED BY <1>3, <3>1
  <2>3. hostKeys \subseteq Guests /\ guestKeys \subseteq Guests
    BY <1>3
  <2>4. call \in [Calls -> InFlight]
    BY <1>4, IdleFits
  <2>5. verdicts \in [Guests -> Nat] /\ notices \in [Guests -> Nat]
    BY <1>3, <1>4
  <2> QED BY <1>2, <1>4, <1>5, <2>1, <2>2, <2>3, <2>4, <2>5 DEF TypeOK
<1>7. /\ \A c \in Calls : call[c] = Idle
  BY <1>4
<1>8. \A c \in Calls : /\ call[c].kind = "idle" /\ call[c].user = Host /\ call[c].todo = <<>>
                       /\ call[c].wrote.seat = {} /\ call[c].wrote.member = {}
                       /\ call[c].wrote.attendance = {} /\ call[c].wrote.request = {}
                       /\ call[c].wrote.hostNotice = {} /\ call[c].wrote.guestNotice = {}
                       /\ call[c].holdsEvent = FALSE
  BY <1>7 DEF Idle, Nothing
<1>9. ASSUME NEW c \in Calls
      PROVE  CallInv(c)
  <2>1. Ahead(c) = {}
    BY <1>8 DEF Ahead
  <2>2. StatementsFit(c)
    BY <1>8, <2>1 DEF StatementsFit, HidesChat, Reviewers, Deciders
  <2>3. WritesFit(c)
    BY <1>8 DEF WritesFit
  <2>4. LetsIn(c) /\ TakesOut(c) /\ DecidesPending(c) /\ Asks(c)
    BY <1>8 DEF LetsIn, TakesOut, DecidesPending, Asks, SeatTakers, Deciders, Leaving
  <2> QED BY <2>2, <2>3, <2>4 DEF CallInv
<1>10. LockHolds /\ RequestIsLocked
  BY <1>8 DEF LockHolds, RequestIsLocked
<1>11. CrossedIsKnown
  BY <1>8, OpposedIsApart DEF CrossedIsKnown
<1>12. SeatsAgree
  <2>1. SeatIffMember
    BY <1>4 DEF SeatIffMember
  <2>2. AttendanceFollowsSeat
    BY <1>3, <1>5 DEF AttendanceFollowsSeat
  <2> QED BY <2>1, <2>2 DEF SeatsAgree
<1>13. RequestsFit
  <2> SUFFICES ASSUME NEW g \in Guests
               PROVE  /\ request[g] = NoRequest => g \notin hostKeys
                      /\ request[g] = OwnRequest => g \in hostKeys /\ notices[g] = 1
    BY <1>4 DEF RequestsFit
  <2>1. request[g] = StartRequest(start[g])
    BY <1>3
  <2>2. ASSUME request[g] = OwnRequest
        PROVE  start[g] = "asked"
    BY <2>1, <2>2, RowsDiffer DEF StartRequest
  <2>3. ASSUME request[g] = NoRequest
        PROVE  start[g] \notin {"asked", "admitted", "left", "refused"}
    BY <2>1, <2>3, RowsDiffer DEF StartRequest
  <2>4. event.dating => start[g] # "asked"
    BY <1>3
  <2> QED BY <1>3, <2>2, <2>3, <2>4
<1> QED BY <1>6, <1>9, <1>10, <1>11, <1>12, <1>13
        DEF IInv, SeatsInv, RequestsInv, CallInv

LEMMA NextKeeps ==
    ASSUME ConstantsFit, IInv, [Next]_vars
    PROVE  IInv'
<1>1. CASE UNCHANGED vars
  <2>1. /\ UNCHANGED <<event, participants, members, attendance, request, hostKeys, guestKeys>>
        /\ UNCHANGED <<call, begun, crossed, seatedByAdmin, verdicts, notices>>
    BY <1>1 DEF vars, rows, history
  <2>2. TypeOK' /\ LockHolds' /\ CrossedIsKnown' /\ SeatsAgree' /\ RequestIsLocked' /\ RequestsFit'
    BY <2>1 DEF IInv, SeatsInv, RequestsInv, TypeOK, LockHolds, CrossedIsKnown, Opposed, SeatsAgree,
       SeatIffMember, AttendanceFollowsSeat, RequestIsLocked, RequestsFit
  <2>3. \A c \in Calls : CallInv(c)'
    BY <2>1, IInvParts, OthersKept DEF OthersStand
  <2> QED BY <2>2, <2>3 DEF IInv, SeatsInv, RequestsInv, CallInv
<1>2. CASE Next
  <2>1. PICK c \in Calls : Start(c) \/ Statement(c) \/ Commit(c) \/ Abort(c)
    BY <1>2 DEF Next
  <2> QED BY <2>1, StartKeeps, StatementKeeps, CommitKeeps, FailKeeps DEF Abort
<1> QED BY <1>1, <1>2

(* The lock holder's commit is the only step that both frees its call and    *)
(* changes the seats.                                                        *)
LEMMA SeatChecked ==
    ASSUME ConstantsFit, IInv, [Next]_vars
    PROVE  CheckedSeat
<1> SUFFICES ASSUME NEW c \in Calls, call[c].holdsEvent, participants' # participants,
                    call'[c] = Idle
             PROVE  Cardinality(participants') <= event'.capacity
  BY DEF CheckedSeat
<1>1. Next
  BY DEF vars, rows
<1>2. PICK d \in Calls : Start(d) \/ Statement(d) \/ Commit(d) \/ Abort(d)
  BY <1>1 DEF Next
<1>3. Commit(d)
  <2>1. Start(d) => participants' = participants
    <3>1. ASSUME NEW kind, NEW u, NEW q, NEW new, Begin(d, kind, u, q, new)
          PROVE  participants' = participants
      BY <3>1 DEF Begin, rows
    <3>2. ASSUME NEW u \in People,
                 \/ JoinEvent(d, u) \/ LeaveEvent(d, u) \/ DeleteChat(d, u)
                 \/ CreateJoinRequest(d, u) \/ CancelJoinRequest(d, u)
                 \/ InviteUserToEvent(d, u) \/ AcceptInvite(d, u) \/ DeclineInvite(d, u)
          PROVE  participants' = participants
      BY <3>1, <3>2 DEF JoinEvent, LeaveEvent, DeleteChat, CreateJoinRequest,
         CancelJoinRequest, InviteUserToEvent, AcceptInvite, DeclineInvite
    <3>3. ASSUME NEW u \in People,
                 \/ ApproveRequest(d, u) \/ RejectRequest(d, u) \/ ReviewJoinRequest(d, u)
                 \/ RemoveParticipant(d, u) \/ RestoreMembership(d, u) \/ CheckIn(d, u)
          PROVE  participants' = participants
      BY <3>1, <3>3 DEF ApproveRequest, RejectRequest, ReviewJoinRequest,
         RemoveParticipant, RestoreMembership, CheckIn
    <3>4. FinishLive(d) \/ EditEvent(d) => participants' = participants
      BY <3>1 DEF FinishLive, EditEvent
    <3> QED BY <3>2, <3>3, <3>4 DEF Start
  <2>2. Statement(d) => participants' = participants
    BY DEF Statement, FindSeat, CheckRoom, AddSeat, DropSeat, RemoveSeat, Mark, AddMember,
       DropMember, ReadRequest, OpenRequest, TellHost, CancelRow, InviteRow, TellGuest, Decide,
       Overrule, CloseDate, SetEvent, Settle, Skip, Fail, Put, Only, rows
  <2>3. Abort(d) => participants' = participants
    BY DEF Abort, Fail, Only, rows
  <2> QED BY <1>2, <2>1, <2>2, <2>3
<1>4. d = c
  <2>1. d # c => call'[c].holdsEvent = call[c].holdsEvent
    BY <1>3, CommitCalls
  <2>2. Idle.holdsEvent = FALSE
    BY DEF Idle
  <2> QED BY <2>1, <2>2
<1>5. /\ Cardinality(participants) < event.capacity
      /\ event \in Events /\ participants \subseteq People
  BY DEF IInv, SeatsInv, LockHolds, TypeOK
<1>6. /\ event'.capacity = event.capacity
      /\ participants' = Added(participants, call[c].user, call[c].wrote.seat)
  BY <1>3, <1>4, CommitRows
<1>7. participants' \subseteq participants \cup {call[c].user}
  BY <1>6 DEF Added
<1>8. IsFiniteSet(participants)
  <2>1. IsFiniteSet(People)
    BY FS_AddElement DEF ConstantsFit, People
  <2> QED BY <1>5, <2>1, FS_Subset
<1>9. /\ IsFiniteSet(participants \cup {call[c].user})
      /\ Cardinality(participants \cup {call[c].user}) <= Cardinality(participants) + 1
  <2>1. Cardinality(participants) \in Nat
    BY <1>8, FS_CardinalityType
  <2>2. /\ IsFiniteSet(participants \cup {call[c].user})
        /\ Cardinality(participants \cup {call[c].user})
             \in {Cardinality(participants), Cardinality(participants) + 1}
    BY <1>8, FS_AddElement
  <2> QED BY <2>1, <2>2
<1>10. Cardinality(participants') <= Cardinality(participants \cup {call[c].user})
       /\ IsFiniteSet(participants')
  BY <1>7, <1>9, FS_Subset
<1>11. /\ Cardinality(participants) \in Nat /\ Cardinality(participants') \in Nat
       /\ Cardinality(participants \cup {call[c].user}) \in Nat
  BY <1>8, <1>9, <1>10, FS_CardinalityType
<1>12. event.capacity \in Nat
  BY <1>5 DEF Events, ConstantsFit
<1> QED BY <1>5, <1>6, <1>9, <1>10, <1>11, <1>12

-----------------------------------------------------------------------------
(* Whatever joins, leaves, approvals, invites, removals, check-ins and edits *)
(* overlap: a seat, the chat and the attendance agree on who takes part,     *)
(* unless calls letting the same user in and out overlapped, and a request   *)
(* is decided once between two openings, and the host told of it once.       *)
THEOREM MembershipHolds ==
    ASSUME ConstantsFit
    PROVE  Spec => [](SeatsAgree /\ DecidedOnce)
<1>1. Init => IInv
  BY InitHolds
<1>2. IInv /\ [Next]_vars => IInv'
  BY NextKeeps
<1>3. IInv => SeatsAgree /\ DecidedOnce
  BY DEF IInv, SeatsInv, RequestsInv, RequestsFit, DecidedOnce, OneVerdict, OneNotice
<1> QED BY <1>1, <1>2, <1>3, PTL DEF Spec

(* A seat given under the event's lock fits the capacity, for any guests and *)
(* calls, whatever capacity an admin sets meanwhile.                         *)
THEOREM CheckedSeatsFit ==
    ASSUME ConstantsFit
    PROVE  Spec => CheckedSeatFits
<1>1. Init => IInv
  BY InitHolds
<1>2. IInv /\ [Next]_vars => IInv'
  BY NextKeeps
<1>3. IInv /\ [Next]_vars => [CheckedSeat]_vars
  BY SeatChecked
<1> QED BY <1>1, <1>2, <1>3, PTL DEF Spec, CheckedSeatFits
=============================================================================
