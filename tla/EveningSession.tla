--------------------------- MODULE EveningSession ---------------------------
(* One evening session: its phase and current step, the copy of both that    *)
(* the session's chat carries, the state of every step, and who takes part.  *)
(*                                                                           *)
(* The host starts, moves and finishes it through the API; in auto mode the  *)
(* worker moves and finishes it by the route's clock.  Each reads first and  *)
(* decides, and writes later in one transaction: what was read may be stale. *)
(* Two transactions that write the same rows meet at the first of them (the  *)
(* session's row for the plan and the seats, the participant's row for a     *)
(* seat and a leave), so a transaction is one step here.                     *)
EXTENDS Naturals, FiniteSets

CONSTANTS
    Guests, Host,
    Steps,          \* number of steps of the route
    DueAt,          \* DueAt[i]: time after the start at which step i is due;
                    \* a step whose clock cannot be read is never due
    FinishAt,       \* time after the start at which the evening is over
    Modes,          \* "auto", "manual", "hybrid"
    Privacies,      \* "open", "invite", "request"
    Capacity,
    Calls,          \* API calls in flight at the same time
    Workers,        \* worker processes with the schedules role
    MaxHostCalls, MaxGuestCalls, MaxClock   \* bounds

ASSUME EveningAssumption ==
    /\ Host \notin Guests
    /\ IsFiniteSet(Guests)
    /\ Steps \in Nat \ {0}
    /\ DueAt \in [1 .. Steps -> Nat]
    /\ FinishAt \in Nat
    /\ Capacity \in Nat \ {0}
    /\ MaxHostCalls \in Nat /\ MaxGuestCalls \in Nat /\ MaxClock \in Nat

VARIABLES
    clock,
    session,        \* phase, step (0 for NULL), startedAt, mode, privacy
    chat,           \* meetupPhase and currentStep of the session's chat
    stepState,      \* EveningSessionStepState
    participant,    \* EveningSessionParticipant.status, "none" for no row
    members,        \* ChatMember of the session's chat
    request,        \* EveningSessionJoinRequest.status, "none" for no row
    checkIns,       \* EveningStepCheckIn, pairs of a step and a user
    call,           \* API calls between their reads and their transaction
    worker,         \* the transition each worker has decided on
    hostCalls, guestCalls   \* counted for the bounds only

plan == <<session, chat, stepState>>
people == <<participant, members, request, checkIns>>
counts == <<hostCalls, guestCalls>>
vars == <<clock, plan, people, call, worker, counts>>

People == Guests \cup {Host}
Phases == {"scheduled", "live", "done"}
StepIds == 1 .. Steps
NoCall == [kind |-> "none", user |-> Host, step |-> 0, status |-> "none"]
NoMove == [kind |-> "none", from |-> 0, to |-> 0]

(* sessionPhaseToChatPhase                                                   *)
ChatPhase(phase) == IF phase = "scheduled" THEN "soon" ELSE phase

Joined == {u \in People : participant[u] = "joined"}

(* launchRoute                                                               *)
Init ==
    /\ clock = 0
    /\ \E m \in Modes, p \in Privacies :
         session = [phase |-> "scheduled", step |-> 0, startedAt |-> 0,
                    mode |-> m, privacy |-> p]
    /\ chat = [phase |-> "soon", step |-> 0]
    /\ stepState = [i \in StepIds |-> "upcoming"]
    /\ participant = [u \in People |-> IF u = Host THEN "joined" ELSE "none"]
    /\ members = {Host}
    /\ request = [g \in Guests |-> "none"]
    /\ checkIns = {}
    /\ call = [c \in Calls |-> NoCall]
    /\ worker = [w \in Workers |-> NoMove]
    /\ hostCalls = 0
    /\ guestCalls = 0

-----------------------------------------------------------------------------
(* The reads of a call, with its early returns as guards.                    *)
Read(c, kind, u, step, status) ==
    /\ call[c] = NoCall
    /\ call' = [call EXCEPT ![c] =
         [kind |-> kind, user |-> u, step |-> step, status |-> status]]
    /\ UNCHANGED <<clock, plan, people, worker>>

HostReads(c, kind, u, step, status) ==
    /\ hostCalls < MaxHostCalls
    /\ hostCalls' = hostCalls + 1
    /\ UNCHANGED guestCalls
    /\ Read(c, kind, u, step, status)

GuestReads(c, kind, u, step, status) ==
    /\ guestCalls < MaxGuestCalls
    /\ guestCalls' = guestCalls + 1
    /\ UNCHANGED hostCalls
    /\ Read(c, kind, u, step, status)

(* A repeated start of a live session only answers.                          *)
StartSession(c) ==
    /\ session.phase = "scheduled"
    /\ HostReads(c, "start", Host, 0, "none")

(* advanceStep and skipStep name any step that has a next one.               *)
MoveToNextStep(c) ==
    /\ session.phase = "live"
    /\ \E i \in StepIds \ {Steps}, status \in {"done", "skipped"} :
         HostReads(c, "move", Host, i, status)

FinishSession(c) == HostReads(c, "finish", Host, 0, "none")

JoinSession(c, u) ==
    /\ session.phase # "done"
    /\ \/ /\ participant[u] = "joined"
          /\ GuestReads(c, "rejoin", u, 0, "none")
       \/ /\ participant[u] # "joined"
          /\ GuestReads(c, IF session.privacy = "request" THEN "ask" ELSE "join",
                        u, 0, "none")

ApproveJoinRequest(c, g) ==
    /\ request[g] = "requested"
    /\ HostReads(c, "approve", g, 0, "none")

RejectJoinRequest(c, g) ==
    /\ request[g] = "requested"
    /\ HostReads(c, "reject", g, 0, "none")

\* Slip: the step is not compared with the current one.
CheckInAnyStep(c, u) ==
    /\ session.phase = "live"
    /\ participant[u] = "joined"
    /\ \E i \in StepIds : GuestReads(c, "checkIn", u, i, "none")

CheckInStep(c, u) ==
    /\ session.phase = "live"
    /\ participant[u] = "joined"
    /\ GuestReads(c, "checkIn", u, session.step, "none")

DeleteChat(c, u) ==
    /\ u \in members
    /\ GuestReads(c, "deleteChat", u, 0, "none")

Begin(c) ==
    \/ StartSession(c)
    \/ MoveToNextStep(c)
    \/ FinishSession(c)
    \/ \E g \in Guests :
         \/ ApproveJoinRequest(c, g)
         \/ RejectJoinRequest(c, g)
    \/ \E u \in People : JoinSession(c, u) \/ CheckInStep(c, u) \/ DeleteChat(c, u)

-----------------------------------------------------------------------------
(* The transactions of the calls.                                            *)
Is(c, kind) == call[c].kind = kind
Answer(c) ==
    /\ call' = [call EXCEPT ![c] = NoCall]
    /\ UNCHANGED <<clock, worker, counts>>

(* The bound leaves the clock room for the whole evening.                    *)
Start(c) ==
    /\ Is(c, "start")
    /\ clock + FinishAt <= MaxClock
    /\ session' = [session EXCEPT !.phase = "live", !.step = 1, !.startedAt = clock]
    /\ chat' = [phase |-> "live", step |-> 1]
    /\ stepState' = [stepState EXCEPT ![1] = "current"]
    /\ UNCHANGED people
    /\ Answer(c)

\* Slip: the step before becomes the current one.
MoveStays(c) ==
    /\ Is(c, "move")
    /\ LET i == call[c].step IN
       /\ session' = [session EXCEPT !.step = i]
       /\ chat' = [chat EXCEPT !.step = i]
       /\ stepState' = [stepState EXCEPT ![i] = call[c].status, ![i + 1] = "current"]
    /\ UNCHANGED people
    /\ Answer(c)

(* The update is by id alone: neither phase nor step is compared.            *)
Move(c) ==
    /\ Is(c, "move")
    /\ LET i == call[c].step IN
       /\ session' = [session EXCEPT !.step = i + 1]
       /\ chat' = [chat EXCEPT !.step = i + 1]
       /\ stepState' = [stepState EXCEPT ![i] = call[c].status, ![i + 1] = "current"]
    /\ UNCHANGED people
    /\ Answer(c)

\* Slip: the chat keeps its step.
FinishKeepsChatStep(c) ==
    /\ Is(c, "finish")
    /\ session' = [session EXCEPT !.phase = "done", !.step = 0]
    /\ chat' = [chat EXCEPT !.phase = "done"]
    /\ UNCHANGED <<stepState, people>>
    /\ Answer(c)

Finish(c) ==
    /\ Is(c, "finish")
    /\ session' = [session EXCEPT !.phase = "done", !.step = 0]
    /\ chat' = [phase |-> "done", step |-> 0]
    /\ UNCHANGED <<stepState, people>>
    /\ Answer(c)

(* The user's own status is upserted and he enters the chat.                 *)
Seat(u) ==
    /\ participant' = [participant EXCEPT ![u] = "joined"]
    /\ members' = members \cup {u}

\* Slip: one place too many.
HasRoomForOneMore == Cardinality(Joined) <= Capacity

(* assertSessionCapacityAvailableForUpdate                                   *)
HasRoom == Cardinality(Joined) < Capacity

Join(c) ==
    /\ Is(c, "join")
    /\ IF HasRoom THEN Seat(call[c].user) ELSE UNCHANGED <<participant, members>>
    /\ UNCHANGED <<plan, request, checkIns>>
    /\ Answer(c)

Rejoin(c) ==
    /\ Is(c, "rejoin")
    /\ members' = members \cup {call[c].user}
    /\ UNCHANGED <<plan, participant, request, checkIns>>
    /\ Answer(c)

Ask(c) ==
    /\ Is(c, "ask")
    /\ request' = [request EXCEPT ![call[c].user] = IF @ = "none" THEN "requested" ELSE @]
    /\ UNCHANGED <<plan, participant, members, checkIns>>
    /\ Answer(c)

\* Slip: the status is not compared again.
ReviewableAlways(g) == TRUE
Reviewable(g) == request[g] = "requested"

Approve(c) ==
    /\ Is(c, "approve")
    /\ LET g == call[c].user IN
       IF HasRoom /\ Reviewable(g)
       THEN Seat(g) /\ request' = [request EXCEPT ![g] = "approved"]
       ELSE UNCHANGED <<participant, members, request>>
    /\ UNCHANGED <<plan, checkIns>>
    /\ Answer(c)

Reject(c) ==
    /\ Is(c, "reject")
    /\ LET g == call[c].user IN
       request' = IF Reviewable(g) THEN [request EXCEPT ![g] = "rejected"] ELSE request
    /\ UNCHANGED <<plan, participant, members, checkIns>>
    /\ Answer(c)

CheckIn(c) ==
    /\ Is(c, "checkIn")
    /\ checkIns' = checkIns \cup {<<call[c].step, call[c].user>>}
    /\ UNCHANGED <<plan, participant, members, request>>
    /\ Answer(c)

\* Slip: a guest who deletes the chat stays a participant.
HideChat(c) ==
    /\ Is(c, "deleteChat")
    /\ members' = members \ {call[c].user}
    /\ UNCHANGED <<plan, participant, request, checkIns>>
    /\ Answer(c)

(* A guest leaves the session, the host only hides its chat.                 *)
Leave(c) ==
    /\ Is(c, "deleteChat")
    /\ LET u == call[c].user IN
       /\ members' = members \ {u}
       /\ participant' = IF u = Host THEN participant
                         ELSE [participant EXCEPT ![u] = IF @ = "none" THEN @ ELSE "left"]
    /\ UNCHANGED <<plan, request, checkIns>>
    /\ Answer(c)

(* The call fails before its transaction commits.                            *)
Abandon(c) ==
    /\ call[c] # NoCall
    /\ UNCHANGED <<plan, people>>
    /\ Answer(c)

Commit(c) ==
    \/ Start(c)
    \/ Move(c)
    \/ Finish(c)
    \/ Join(c)
    \/ Rejoin(c)
    \/ Ask(c)
    \/ Approve(c)
    \/ Reject(c)
    \/ CheckIn(c)
    \/ Leave(c)

-----------------------------------------------------------------------------
(* The worker.                                                               *)
Elapsed == clock - session.startedAt

(* Step i is due, and so is every step after the current one up to it.       *)
Due(i) == \A j \in session.step + 1 .. i : Elapsed >= DueAt[j]

(* runEveningAutoAdvanceScan reads the live auto sessions and                *)
(* resolveEveningAutoTransition decides by the time of the scan.             *)
Scan(w) ==
    /\ worker[w] = NoMove
    /\ session.phase = "live"
    /\ session.mode = "auto"
    /\ session.step # 0
    /\ LET due == {i \in session.step + 1 .. Steps : Due(i)} IN
       \/ /\ Elapsed >= FinishAt
          /\ worker' = [worker EXCEPT ![w] =
               [kind |-> "finish", from |-> session.step, to |-> 0]]
       \/ /\ Elapsed < FinishAt
          /\ \E i \in due :
               /\ \A j \in due : j <= i
               /\ worker' = [worker EXCEPT ![w] =
                    [kind |-> "advance", from |-> session.step, to |-> i]]
    /\ UNCHANGED <<clock, plan, people, call, counts>>

Done(w) ==
    /\ worker' = [worker EXCEPT ![w] = NoMove]
    /\ UNCHANGED <<clock, people, call, counts>>

\* Slip: the session is updated by id alone.
StillAtAny(w) == TRUE

(* updateMany ... WHERE phase = 'live' AND mode = 'auto' AND currentStep     *)
StillAt(w) == session.phase = "live" /\ session.step = worker[w].from

AdvanceAuto(w) ==
    /\ worker[w].kind = "advance"
    /\ LET m == worker[w] IN
       IF StillAt(w)
       THEN /\ session' = [session EXCEPT !.step = m.to]
            /\ chat' = [chat EXCEPT !.step = m.to]
            /\ stepState' = [i \in StepIds |->
                 IF i \in m.from .. m.to - 1 THEN "done"
                 ELSE IF i = m.to THEN "current"
                 ELSE stepState[i]]
       ELSE UNCHANGED plan
    /\ Done(w)

\* Slip: the finish leaves the phase as it is.
FinishAutoStepsOnly(w) ==
    /\ worker[w].kind = "finish"
    /\ IF StillAt(w)
       THEN /\ stepState' = [i \in StepIds |->
                 IF i >= worker[w].from THEN "done" ELSE stepState[i]]
            /\ UNCHANGED <<session, chat>>
       ELSE UNCHANGED plan
    /\ Done(w)

FinishAuto(w) ==
    /\ worker[w].kind = "finish"
    /\ IF StillAt(w)
       THEN /\ session' = [session EXCEPT !.phase = "done", !.step = 0]
            /\ chat' = [phase |-> "done", step |-> 0]
            /\ stepState' = [i \in StepIds |->
                 IF i >= worker[w].from THEN "done" ELSE stepState[i]]
       ELSE UNCHANGED plan
    /\ Done(w)

(* The transaction fails, or the process stops; a later scan decides anew.   *)
Drop(w) ==
    /\ worker[w] # NoMove
    /\ UNCHANGED plan
    /\ Done(w)

Work(w) == Scan(w) \/ AdvanceAuto(w) \/ FinishAuto(w)

Tick ==
    /\ clock < MaxClock
    /\ clock' = clock + 1
    /\ UNCHANGED <<plan, people, call, worker, counts>>

Next ==
    \/ \E c \in Calls : Begin(c) \/ Commit(c) \/ Abandon(c)
    \/ \E w \in Workers : Work(w) \/ Drop(w)
    \/ Tick

Spec == Init /\ [][Next]_vars

(* Time passes, a worker's timer keeps firing and what it decided is carried *)
(* out, and an API call ends.                                                *)
Fairness ==
    /\ WF_vars(Tick)
    /\ \A c \in Calls : WF_vars(Commit(c) \/ Abandon(c))
    /\ \A w \in Workers : WF_vars(Scan(w)) /\ SF_vars(AdvanceAuto(w) \/ FinishAuto(w))

LiveSpec == Spec /\ Fairness
-----------------------------------------------------------------------------
(* Every variable holds values of its columns.                               *)
TypeOK ==
    /\ clock \in 0 .. MaxClock
    /\ session \in [phase : Phases, step : 0 .. Steps, startedAt : 0 .. MaxClock,
                    mode : Modes, privacy : Privacies]
    /\ chat \in [phase : {"soon", "live", "done"}, step : 0 .. Steps]
    /\ stepState \in [StepIds -> {"upcoming", "current", "done", "skipped"}]
    /\ participant \in [People -> {"none", "joined", "left"}]
    /\ members \subseteq People
    /\ request \in [Guests -> {"none", "requested", "approved", "rejected"}]
    /\ checkIns \subseteq StepIds \X People

(* The chat's denormalized phase and step are those of the session after     *)
(* every transaction of the host and of the worker, in whatever order their  *)
(* reads and transactions interleave.                                        *)
ChatMirrorsSession ==
    chat.phase = ChatPhase(session.phase) /\ chat.step = session.step

(* The step a live session is at is marked current, also when the host moves *)
(* or restarts it on an outdated view or races the worker.                   *)
CurrentStepIsMarked ==
    session.phase = "live" =>
        session.step \in StepIds /\ stepState[session.step] = "current"

(* Joins and approvals together never take more places than there are.       *)
SeatsFit == Cardinality(Joined) <= Capacity

(* Whoever takes part is in the chat, even after leaving and coming back;    *)
(* only the host may hide it.                                                *)
JoinedAreMembers == \A g \in Guests : participant[g] = "joined" => g \in members

(* When an approval and a rejection race, the request and the seat tell the  *)
(* same story.                                                               *)
ReviewDecidesSeat ==
    session.privacy = "request" =>
        \A g \in Guests : request[g] = "approved" <=> participant[g] # "none"

(* Nobody is checked in at a step the evening has not reached.               *)
CheckInsAreReached == \A k \in checkIns : stepState[k[1]] # "upcoming"

(* What the invariants rest on: what a call or a worker has read and will    *)
(* write later.  A call to join was read before the host could change who is *)
(* let in, for he never can; a check-in was read at a step that was reached. *)
CallFits(r) ==
    /\ r.kind = "move" => r.step \in StepIds \ {Steps} /\ r.status \in {"done", "skipped"}
    /\ r.kind = "join" => session.privacy # "request"
    /\ r.kind \in {"ask", "approve", "reject"} => r.user \in Guests
    /\ r.kind = "checkIn" => r.step \in StepIds /\ stepState[r.step] # "upcoming"

Kinds == {"none", "start", "move", "finish", "rejoin", "ask", "join", "approve",
          "reject", "checkIn", "deleteChat"}

CallsFit ==
    /\ call \in [Calls -> [kind : Kinds, user : People, step : 0 .. Steps,
                           status : {"none", "done", "skipped"}]]
    /\ \A c \in Calls : CallFits(call[c])

MovesFit ==
    /\ worker \in [Workers -> [kind : {"none", "advance", "finish"},
                               from : 0 .. Steps, to : 0 .. Steps]]
    /\ \A w \in Workers : worker[w].kind = "advance" =>
         worker[w].from > 0 /\ worker[w].from < worker[w].to

HostStays == participant[Host] = "joined"

(* The inductive invariant of the session.                                   *)
IInv ==
    /\ TypeOK
    /\ CallsFit
    /\ MovesFit
    /\ HostStays
    /\ ChatMirrorsSession
    /\ CurrentStepIsMarked
    /\ SeatsFit
    /\ JoinedAreMembers
    /\ ReviewDecidesSeat
    /\ CheckInsAreReached

(* The worker only ever takes a live session forward or ends it, whatever    *)
(* the host has done since its scan.                                         *)
AutoOnlyAdvances ==
    [][\A w \in Workers :
         worker[w] # NoMove /\ worker'[w] = NoMove /\ session' # session
           => /\ session.phase = "live"
              /\ session'.phase = "done" \/ session'.step > session.step]_vars

(* An auto session that is live is finished in the end, by its host or by    *)
(* the worker.                                                               *)
AutoFinishes ==
    session.phase = "live" /\ session.mode = "auto" ~> session.phase = "done"
=============================================================================
