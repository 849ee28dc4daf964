--------------------------- MODULE MeetupCreation ---------------------------
(***************************************************************************)
(* The meetups of one host, as rows of Event: made by the host's calls,    *)
(* which a client repeats under one idempotency key, within a weekly       *)
(* limit; edited by the host, made and edited by an administrator, and     *)
(* joined meanwhile.                                                       *)
(***************************************************************************)
EXTENDS Integers, Sequences, FiniteSets

CONSTANTS
    Calls,          \* the host's calls in flight
    Keys,           \* idempotency keys; "none" for a call without one
    Limit,          \* freeMeetupMonthlyLimit, which is counted by the week
    Drafts,         \* AI drafts made in the first week
    Bounds          \* what a behaviour may have of each: calls, joins, acts of an
                    \* administrator, changes of what the host has; and the bodies
                    \* and the edits that the host may send

VARIABLES
    bound,      \* the one of Bounds
    events,     \* the rows of Event, in the order they were made
    seats,      \* per row, its participants
    week,       \* the week it is
    has,        \* what the host has of "verification" and "plus"
    call,       \* the host's calls
    used,
    answers,    \* per key, the meetups its calls were answered with
    squeezed    \* rows whose capacity was written over a join or by an administrator

vars == <<bound, events, seats, week, has, call, used, answers, squeezed>>

-----------------------------------------------------------------------------
NoBody == [mode |-> "default", visibility |-> "public", access |-> "open", join |-> "open",
           needs |-> {}, capacity |-> 8, from |-> "form", point |-> TRUE, invites |-> FALSE]
Idle == [phase |-> "idle", key |-> "none", body |-> NoBody, premium |-> FALSE, alone |-> FALSE,
         counted |-> 0, id |-> 0, seats |-> 0]
Ids == DOMAIN events
Creating(c) == call[c].phase \in {"find", "check", "premium", "count", "require", "insert", "again"}

Init ==
    /\ bound \in Bounds
    /\ events = <<>> /\ seats = <<>>
    /\ week = 0
    /\ has \in SUBSET {"verification", "plus"}
    /\ call = [c \in Calls |-> Idle]
    /\ used = [calls |-> 0, joins |-> 0, admin |-> 0, changes |-> 0]
    /\ answers = [k \in Keys |-> {}]
    /\ squeezed = {}

Use(what) == used[what] < bound[what] /\ used' = [used EXCEPT ![what] = @ + 1]
Go(c, phase) == call' = [call EXCEPT ![c].phase = phase]
Rows == <<bound, events, seats, week, has, answers, squeezed>>

-----------------------------------------------------------------------------
(* What is made of a request.                                              *)

\* Visible to friends does not ask for a request.
AdmissionOfFriends(body) ==
    LET dating == body.mode = "dating"
        access == IF body.mode # "default" THEN "request" ELSE body.access
        asked == access = "request" \/ body.join = "request"
    IN  [visibility |-> IF dating THEN "friends" ELSE body.visibility, access |-> access,
         join |-> IF asked THEN "request" ELSE "open"]

Admission(body) ==
    LET dating == body.mode = "dating"
        visibility == IF dating THEN "friends" ELSE body.visibility
        access == IF body.mode # "default" \/ visibility = "friends" THEN "request"
                  ELSE body.access
        asked == body.mode # "default" \/ visibility = "friends" \/ access = "request"
                 \/ body.join = "request"
    IN  [visibility |-> visibility, access |-> access,
         join |-> IF asked THEN "request" ELSE "open"]

Capacity(body) == IF body.mode = "dating" THEN 2 ELSE body.capacity

(* Where it is: a chosen route's first step, and no other point; the item  *)
(* of the affiche, or what the client says, or nowhere; the chosen place;  *)
(* what the client says, or what the geocoder finds.                       *)
Locations(body) ==
    CASE body.from = "route" -> {TRUE}
      [] body.from = "steps" -> {}
      [] body.from = "affiche" -> {TRUE, body.point}
      [] body.from = "place" -> {TRUE}
      [] OTHER -> {TRUE}

Valid(body) ==
    /\ Capacity(body) \in 2..100
    /\ body.mode = "dating" => body.invites

Row(body, at, c) ==
    [key |-> call[c].key, mode |-> body.mode, visibility |-> Admission(body).visibility,
     access |-> Admission(body).access, join |-> Admission(body).join,
     capacity |-> Capacity(body), at |-> at, from |-> body.from, week |-> week, by |-> "host",
     free |-> ~call[c].premium, alone |-> call[c].alone /\ call[c].counted = week]

-----------------------------------------------------------------------------
(* Creation.                                                               *)

Begin(c, key, body) ==
    /\ call[c].phase = "idle" /\ Use("calls")
    /\ LET alone == \A d \in Calls : ~Creating(d)
       IN  call' = [d \in Calls |->
             IF d = c THEN [Idle EXCEPT !.phase = IF key = "none" THEN "check" ELSE "find",
                                        !.key = key, !.body = body, !.alone = alone]
             ELSE IF Creating(d) THEN [call[d] EXCEPT !.alone = FALSE] ELSE call[d]]
    /\ UNCHANGED Rows

Stored(key) == {e \in Ids : events[e].key = key}

Answer(c, e) ==
    /\ answers' = [answers EXCEPT ![call[c].key] = @ \cup {e}]
    /\ call' = [call EXCEPT ![c] = Idle]

FindStored(c) ==
    /\ call[c].phase = "find"
    /\ IF Stored(call[c].key) # {} THEN \E e \in Stored(call[c].key) : Answer(c, e)
       ELSE Go(c, "check") /\ UNCHANGED answers
    /\ UNCHANGED <<bound, events, seats, week, has, used, squeezed>>

AssertAfterDarkUnlocked(c) ==
    /\ call[c].phase = "check"
    /\ LET unlocked == call[c].body.mode = "afterdark" => "plus" \in has
       IN  Go(c, IF unlocked /\ Valid(call[c].body) THEN "premium" ELSE "refuse")
    /\ UNCHANGED <<Rows, used>>

HasPremiumAccess(c) ==
    /\ call[c].phase = "premium"
    /\ call' = [call EXCEPT ![c].premium = "plus" \in has, ![c].phase = "count"]
    /\ UNCHANGED <<Rows, used>>

\* One too many.
ReachedLate(made) == made > Limit
Reached(made) == made >= Limit

AssertCanCreateWeeklyMeetup(c) ==
    /\ call[c].phase = "count"
    /\ LET made == Cardinality({e \in Ids : events[e].week = week})
                   + (IF week = 0 THEN Drafts ELSE 0)
           may == call[c].premium \/ ~Reached(made)
       IN  call' = [call EXCEPT ![c].counted = week,
                                ![c].phase = IF may THEN "require" ELSE "refuse"]
    /\ UNCHANGED <<Rows, used>>

AssertHostCanUseEntryRequirements(c) ==
    /\ call[c].phase \in {"require", "editRequire"}
    /\ Go(c, IF ~(call[c].body.needs \subseteq has) THEN "refuse"
             ELSE IF call[c].phase = "require" THEN "insert" ELSE "editWrite")
    /\ UNCHANGED <<Rows, used>>

\* The row, its chat, the host's seat and the invitation, in one
\* transaction; the key is unique for the host.
Insert(c) ==
    /\ call[c].phase = "insert"
    /\ \E at \in Locations(call[c].body) :
         IF call[c].key # "none" /\ Stored(call[c].key) # {}
         THEN Go(c, "again") /\ UNCHANGED <<events, seats, answers>>
         ELSE /\ events' = Append(events, Row(call[c].body, at, c))
              /\ seats' = Append(seats, 1)
              /\ Answer(c, Len(events) + 1)
    /\ UNCHANGED <<bound, week, has, used, squeezed>>

FindTaken(c) ==
    /\ call[c].phase = "again"
    /\ \E e \in Stored(call[c].key) : Answer(c, e)
    /\ UNCHANGED <<bound, events, seats, week, has, used, squeezed>>

\* Refused for one of these reasons, or just before the transaction for the
\* place, the cover, the guest, the chat or the community.
Refuse(c) ==
    /\ call[c].phase \in {"refuse", "insert"}
    /\ call' = [call EXCEPT ![c] = Idle]
    /\ UNCHANGED <<Rows, used>>

-----------------------------------------------------------------------------
(* The host edits a meetup.                                                *)

ParseHostedEventUpdate(edit) ==
    LET access == IF edit.visibility = "friends" THEN "request" ELSE edit.access
        asked == edit.join = "request" \/ edit.visibility = "friends" \/ access = "request"
    IN  [visibility |-> edit.visibility, access |-> access,
         join |-> IF asked THEN "request" ELSE "open"]

ReadHostedEvent(c, e, edit) ==
    /\ call[c].phase = "idle" /\ Use("calls")
    /\ call' = [call EXCEPT ![c] = [Idle EXCEPT !.phase = "editRequire", !.body = edit,
                                                !.id = e, !.seats = seats[e], !.alone = TRUE]]
    /\ UNCHANGED Rows

\* The capacity is not compared.
WriteHostedEvent(c) ==
    /\ call[c].phase = "editWrite"
    /\ LET e == call[c].id
           to == ParseHostedEventUpdate(call[c].body)
       IN  /\ events' = [events EXCEPT ![e].visibility = to.visibility, ![e].access = to.access,
                                       ![e].join = to.join, ![e].capacity = call[c].body.capacity,
                                       ![e].at = call[c].body.point,
                                       ![e].mode = "edited", ![e].by = "host"]
           /\ squeezed' = IF call[c].alone THEN squeezed \ {e} ELSE squeezed \cup {e}
    /\ call' = [call EXCEPT ![c] = Idle]
    /\ UNCHANGED <<bound, seats, week, has, used, answers>>

\* The capacity is compared with the seats counted before.
UpdateHostedEvent(c) ==
    /\ call[c].phase = "editWrite"
    /\ LET e == call[c].id
           to == ParseHostedEventUpdate(call[c].body)
       IN  IF call[c].body.capacity < call[c].seats THEN UNCHANGED <<events, squeezed>>
           ELSE /\ events' = [events EXCEPT ![e].visibility = to.visibility,
                                            ![e].access = to.access, ![e].join = to.join,
                                            ![e].capacity = call[c].body.capacity,
                                            ![e].at = call[c].body.point,
                                            ![e].mode = "edited", ![e].by = "host"]
                /\ squeezed' = IF call[c].alone THEN squeezed \ {e} ELSE squeezed \cup {e}
    /\ call' = [call EXCEPT ![c] = Idle]
    /\ UNCHANGED <<bound, seats, week, has, used, answers>>

\* A guest takes a seat, under the lock of the row.
Seat(e) ==
    /\ Use("joins")
    /\ seats[e] < events[e].capacity
    /\ seats' = [seats EXCEPT ![e] = @ + 1]
    /\ call' = [c \in Calls |-> IF call[c].id = e THEN [call[c] EXCEPT !.alone = FALSE]
                                ELSE call[c]]
    /\ UNCHANGED <<bound, events, week, has, answers, squeezed>>

-----------------------------------------------------------------------------
(* The administrator: no limit, and no word about what belongs together.   *)

AdminCreateMeetup(visibility, join) ==
    /\ Use("admin")
    /\ events' = Append(events, [key |-> "none", mode |-> "default", visibility |-> visibility,
           access |-> join, join |-> join, capacity |-> 20, at |-> FALSE, from |-> "admin",
           week |-> week, by |-> "admin", free |-> FALSE, alone |-> FALSE])
    /\ seats' = Append(seats, 1)
    /\ call' = [c \in Calls |-> IF Creating(c) THEN [call[c] EXCEPT !.alone = FALSE] ELSE call[c]]
    /\ UNCHANGED <<bound, week, has, answers, squeezed>>

AdminUpdateMeetup(e, visibility, capacity) ==
    /\ Use("admin")
    /\ events' = [events EXCEPT ![e].visibility = visibility, ![e].capacity = capacity,
                                ![e].by = "admin"]
    /\ squeezed' = squeezed \cup {e}
    /\ UNCHANGED <<bound, seats, week, has, call, answers>>

-----------------------------------------------------------------------------
\* The host's subscription or verification begins or ends.
Change(what) ==
    /\ Use("changes")
    /\ has' = IF what \in has THEN has \ {what} ELSE has \cup {what}
    /\ UNCHANGED <<bound, events, seats, week, call, answers, squeezed>>

NextWeek ==
    /\ week = 0 /\ Use("changes")
    /\ week' = 1
    /\ UNCHANGED <<bound, events, seats, has, call, answers, squeezed>>

Next ==
    \/ \E c \in Calls :
         \/ \E key \in Keys, body \in bound.bodies : Begin(c, key, body)
         \/ FindStored(c) \/ AssertAfterDarkUnlocked(c) \/ HasPremiumAccess(c)
         \/ AssertCanCreateWeeklyMeetup(c) \/ AssertHostCanUseEntryRequirements(c) \/ Insert(c) \/ FindTaken(c) \/ Refuse(c)
         \/ \E e \in Ids, edit \in bound.edits : ReadHostedEvent(c, e, edit)
         \/ UpdateHostedEvent(c)
    \/ \E e \in Ids : Seat(e)
    \/ \E visibility \in {"public", "friends"} :
         \/ \E join \in {"open", "request"} : AdminCreateMeetup(visibility, join)
         \/ \E e \in Ids, capacity \in {2, 3} : AdminUpdateMeetup(e, visibility, capacity)
    \/ \E what \in {"verification", "plus"} : Change(what)
    \/ NextWeek

Spec == Init /\ [][Next]_vars

-----------------------------------------------------------------------------
(* However often a request is repeated, and however its repetitions        *)
(* overlap, all that are answered get the one meetup made for its key.     *)
OnceForAKey ==
    \A k \in Keys \ {"none"} : Cardinality(answers[k] \cup Stored(k)) <= 1

(* Calls that do not overlap keep a host without the subscription within   *)
(* the weekly limit, drafts and an administrator's meetups included.       *)
WithinLimit ==
    \A e \in Ids :
        events[e].free /\ events[e].alone =>
            Cardinality({d \in 1..e : events[d].week = events[e].week})
                + (IF events[e].week = 0 THEN Drafts ELSE 0) <= Limit

(* What friends see, and what asks for a request, is never open to all,    *)
(* whoever of host and client wrote it last; a date is for two.            *)
AdmissionAgrees ==
    \A e \in Ids : events[e].by = "host" =>
        /\ events[e].visibility = "friends" => events[e].access = "request"
        /\ events[e].access = "request" => events[e].join = "request"
        /\ events[e].mode = "dating" =>
               events[e].capacity = 2 /\ events[e].visibility = "friends"

(* A capacity holds all who have joined, unless it was written over a join *)
(* or by an administrator.                                                 *)
SeatsWithinCapacity ==
    \A e \in Ids \ squeezed : seats[e] <= events[e].capacity

(* Only an event of the affiche, an administrator, or an edit of the host  *)
(* leaves a meetup without a point on the map.                             *)
PointKnown ==
    \A e \in Ids : events[e].at \/ events[e].from \in {"affiche", "admin"}
                   \/ events[e].mode = "edited"

CreationHolds ==
    /\ OnceForAKey /\ WithinLimit /\ AdmissionAgrees /\ SeatsWithinCapacity /\ PointKnown
=============================================================================
