--------------------------- MODULE EveningProofs ---------------------------
(* Safety of an evening session, for any guests, route, clock of the route, *)
(* capacity, number of calls and of workers.                                *)
EXTENDS EveningSession, TLAPS, FiniteSetTheorems

(* The people of a session are finitely many, and so are its participants.  *)
LEMMA JoinedFinite ==
    /\ IsFiniteSet(People)
    /\ IsFiniteSet(Joined)
    /\ Cardinality(Joined) \in Nat
<1>1. IsFiniteSet(People)
  BY EveningAssumption, FS_AddElement DEF People
<1>2. Joined \subseteq People
  BY DEF Joined
<1> QED BY <1>1, <1>2, FS_Subset, FS_CardinalityType

LEMMA InitInvariant == Init => IInv
<1> SUFFICES ASSUME Init PROVE IInv
  OBVIOUS
<1> USE EveningAssumption
<1>1. TypeOK
  BY DEF Init, TypeOK, Phases, StepIds, People
<1>2. CallsFit
  BY DEF Init, CallsFit, CallFits, Kinds, NoCall, People
<1>3. MovesFit
  BY DEF Init, MovesFit, NoMove
<1>4. HostStays
  BY DEF Init, HostStays, People
<1>5. ChatMirrorsSession /\ CurrentStepIsMarked
  BY DEF Init, ChatMirrorsSession, CurrentStepIsMarked, ChatPhase
<1>6. SeatsFit
  <2>1. Joined = {Host}
    BY DEF Init, Joined, People
  <2>2. Cardinality({Host}) = 1
    BY FS_Singleton
  <2> QED BY <2>1, <2>2 DEF SeatsFit
<1>7. JoinedAreMembers /\ ReviewDecidesSeat
  BY DEF Init, JoinedAreMembers, ReviewDecidesSeat, People
<1>8. CheckInsAreReached
  BY DEF Init, CheckInsAreReached
<1> QED BY <1>1, <1>2, <1>3, <1>4, <1>5, <1>6, <1>7, <1>8 DEF IInv

-----------------------------------------------------------------------------
(* What a step has to show, part by part.                                   *)

(* The calls still fit when one of them is answered: the privacy never      *)
(* changes and a step once reached stays reached.                           *)
LEMMA AnswerFits ==
    ASSUME CallsFit, NEW c \in Calls, Answer(c),
           session'.privacy = session.privacy,
           \A i \in StepIds : stepState[i] # "upcoming" => stepState'[i] # "upcoming"
    PROVE  CallsFit'
<1>1. call' = [call EXCEPT ![c] = NoCall]
  BY DEF Answer
<1>2. NoCall \in [kind : Kinds, user : People, step : 0 .. Steps,
                  status : {"none", "done", "skipped"}]
  BY EveningAssumption DEF NoCall, People, Kinds
<1>3. \A d \in Calls : call'[d] = IF d = c THEN NoCall ELSE call[d]
  BY <1>1 DEF CallsFit
<1>4. \A r : CallFits(r) => CallFits(r)'
  BY DEF CallFits
<1>5. CallFits(NoCall)'
  BY DEF CallFits, NoCall
<1> QED BY <1>1, <1>2, <1>3, <1>4, <1>5 DEF CallsFit

(* Nothing but the calls changes while one of them reads.                   *)
LEMMA ReadKeeps ==
    ASSUME IInv, NEW c \in Calls, NEW kind \in Kinds, NEW u \in People,
           NEW step \in 0 .. Steps, NEW status \in {"none", "done", "skipped"},
           Read(c, kind, u, step, status),
           CallFits([kind |-> kind, user |-> u, step |-> step, status |-> status])
    PROVE  IInv'
<1> DEFINE r == [kind |-> kind, user |-> u, step |-> step, status |-> status]
<1>1. UNCHANGED <<clock, plan, people, worker>>
  BY DEF Read
<1>2. CallsFit'
  <2>1. call' = [call EXCEPT ![c] = r]
    BY DEF Read
  <2>2. r \in [kind : Kinds, user : People, step : 0 .. Steps,
               status : {"none", "done", "skipped"}]
    OBVIOUS
  <2>3. \A d \in Calls : call'[d] = IF d = c THEN r ELSE call[d]
    BY <2>1 DEF CallsFit, IInv
  <2>4. \A x : CallFits(x) => CallFits(x)'
    BY <1>1 DEF CallFits, plan
  <2> QED BY <2>1, <2>2, <2>3, <2>4 DEF CallsFit, IInv
<1>3. TypeOK' /\ MovesFit' /\ HostStays'
  BY <1>1 DEF IInv, TypeOK, MovesFit, HostStays, plan, people
<1>4. ChatMirrorsSession' /\ CurrentStepIsMarked'
  BY <1>1 DEF IInv, ChatMirrorsSession, CurrentStepIsMarked, plan
<1>5. SeatsFit' /\ JoinedAreMembers' /\ ReviewDecidesSeat' /\ CheckInsAreReached'
  BY <1>1 DEF IInv, SeatsFit, Joined, JoinedAreMembers, ReviewDecidesSeat,
              CheckInsAreReached, plan, people
<1> QED BY <1>2, <1>3, <1>4, <1>5 DEF IInv

LEMMA BeginKeeps ==
    ASSUME IInv, NEW c \in Calls, Begin(c)
    PROVE  IInv'
<1> USE EveningAssumption
<1>0. TypeOK /\ HostStays /\ CurrentStepIsMarked
  BY DEF IInv
<1>1. ASSUME StartSession(c) PROVE IInv'
  BY <1>1, ReadKeeps DEF StartSession, HostReads, Kinds, People, CallFits
<1>2. ASSUME MoveToNextStep(c) PROVE IInv'
  BY <1>2, ReadKeeps DEF MoveToNextStep, HostReads, Kinds, People, CallFits, StepIds
<1>3. ASSUME FinishSession(c) PROVE IInv'
  BY <1>3, ReadKeeps DEF FinishSession, HostReads, Kinds, People, CallFits
<1>4. ASSUME NEW g \in Guests, ApproveJoinRequest(c, g) PROVE IInv'
  BY <1>4, ReadKeeps DEF ApproveJoinRequest, HostReads, Kinds, People, CallFits
<1>5. ASSUME NEW g \in Guests, RejectJoinRequest(c, g) PROVE IInv'
  BY <1>5, ReadKeeps DEF RejectJoinRequest, HostReads, Kinds, People, CallFits
<1>6. ASSUME NEW u \in People, JoinSession(c, u) PROVE IInv'
  <2>1. CASE participant[u] = "joined"
    BY <1>6, <2>1, ReadKeeps DEF JoinSession, GuestReads, Kinds, CallFits
  <2>2. CASE participant[u] # "joined"
    <3>1. u \in Guests
      BY <1>0, <2>2 DEF HostStays, People
    <3>2. CASE session.privacy = "request"
      BY <1>6, <2>2, <3>1, <3>2, ReadKeeps DEF JoinSession, GuestReads, Kinds, CallFits
    <3>3. CASE session.privacy # "request"
      BY <1>6, <2>2, <3>3, ReadKeeps DEF JoinSession, GuestReads, Kinds, CallFits
    <3> QED BY <3>2, <3>3
  <2> QED BY <2>1, <2>2
<1>7. ASSUME NEW u \in People, CheckInStep(c, u) PROVE IInv'
  <2>1. session.step \in StepIds /\ stepState[session.step] # "upcoming"
    BY <1>0, <1>7 DEF CheckInStep, CurrentStepIsMarked
  <2> QED
    BY <1>7, <2>1, ReadKeeps DEF CheckInStep, GuestReads, Kinds, CallFits, StepIds
<1>8. ASSUME NEW u \in People, DeleteChat(c, u) PROVE IInv'
  BY <1>8, ReadKeeps DEF DeleteChat, GuestReads, Kinds, CallFits
<1> QED BY <1>1, <1>2, <1>3, <1>4, <1>5, <1>6, <1>7, <1>8 DEF Begin
-----------------------------------------------------------------------------
(* A step of the plan: the session, its chat and the marks of its steps.    *)
LEMMA PlanStepKeeps ==
    ASSUME IInv, UNCHANGED <<clock, people>>,
           TypeOK', CallsFit', MovesFit', ChatMirrorsSession', CurrentStepIsMarked',
           session'.privacy = session.privacy,
           \A i \in StepIds : stepState[i] # "upcoming" => stepState'[i] # "upcoming"
    PROVE  IInv'
<1>1. HostStays'
  BY DEF IInv, HostStays, people
<1>2. SeatsFit' /\ JoinedAreMembers' /\ ReviewDecidesSeat'
  BY DEF IInv, SeatsFit, Joined, JoinedAreMembers, ReviewDecidesSeat, people
<1>3. CheckInsAreReached'
  BY DEF IInv, CheckInsAreReached, TypeOK, people
<1> QED BY <1>1, <1>2, <1>3 DEF IInv

(* A step of the people: who takes part, the chat's members, the requests.  *)
LEMMA PeopleStepKeeps ==
    ASSUME IInv, NEW c \in Calls, Answer(c), UNCHANGED plan,
           participant' \in [People -> {"none", "joined", "left"}],
           members' \subseteq People,
           request' \in [Guests -> {"none", "requested", "approved", "rejected"}],
           checkIns' \subseteq StepIds \X People,
           HostStays', SeatsFit', JoinedAreMembers', ReviewDecidesSeat',
           CheckInsAreReached'
    PROVE  IInv'
<1>1. UNCHANGED <<clock, worker>>
  BY DEF Answer
<1>2. TypeOK' /\ MovesFit'
  BY <1>1 DEF IInv, TypeOK, MovesFit, plan
<1>3. CallsFit'
  BY AnswerFits DEF IInv, plan
<1>4. ChatMirrorsSession' /\ CurrentStepIsMarked'
  BY DEF IInv, ChatMirrorsSession, CurrentStepIsMarked, plan
<1> QED BY <1>2, <1>3, <1>4 DEF IInv

(* A user who is seated while there is room.                                *)
LEMMA SeatKeeps ==
    ASSUME IInv, NEW u \in People, HasRoom, Seat(u)
    PROVE  /\ participant' \in [People -> {"none", "joined", "left"}]
           /\ members' \subseteq People
           /\ HostStays' /\ SeatsFit' /\ JoinedAreMembers'
<1>1. participant \in [People -> {"none", "joined", "left"}] /\ members \subseteq People
  BY DEF IInv, TypeOK
<1>2. participant' = [participant EXCEPT ![u] = "joined"] /\ members' = members \cup {u}
  BY DEF Seat
<1>3. Joined' = Joined \cup {u}
  BY <1>1, <1>2 DEF Joined
<1>4. IsFiniteSet(Joined) /\ Cardinality(Joined) \in Nat
  BY JoinedFinite
<1>5. SeatsFit'
  <2>1. Cardinality(Joined \cup {u}) =
          IF u \in Joined THEN Cardinality(Joined) ELSE Cardinality(Joined) + 1
    BY <1>4, FS_AddElement
  <2>2. Cardinality(Joined \cup {u}) <= Capacity
    BY <1>4, <2>1, EveningAssumption DEF HasRoom
  <2> QED BY <1>3, <2>2 DEF SeatsFit
<1>6. HostStays' /\ JoinedAreMembers'
  BY <1>1, <1>2 DEF IInv, HostStays, JoinedAreMembers, People
<1> QED BY <1>1, <1>2, <1>5, <1>6

LEMMA StartKeeps ==
    ASSUME IInv, NEW c \in Calls, Start(c)
    PROVE  IInv'
<1> USE EveningAssumption DEF StepIds
<1>1. TypeOK
  BY DEF IInv
<1>2. /\ session' = [session EXCEPT !.phase = "live", !.step = 1, !.startedAt = clock]
      /\ chat' = [phase |-> "live", step |-> 1]
      /\ stepState' = [stepState EXCEPT ![1] = "current"]
      /\ UNCHANGED people /\ UNCHANGED <<clock, worker>> /\ Answer(c)
  BY DEF Start, Answer
<1>3. TypeOK' /\ MovesFit'
  <2>1. session' \in [phase : Phases, step : 0 .. Steps, startedAt : 0 .. MaxClock,
                      mode : Modes, privacy : Privacies]
    <3>1. session' = [phase |-> "live", step |-> 1, startedAt |-> clock,
                      mode |-> session.mode, privacy |-> session.privacy]
      BY <1>1, <1>2 DEF TypeOK
    <3>2. "live" \in Phases /\ 1 \in 0 .. Steps /\ clock \in 0 .. MaxClock
      BY <1>1 DEF TypeOK, Phases
    <3>3. session.mode \in Modes /\ session.privacy \in Privacies
      BY <1>1 DEF TypeOK
    <3> QED BY <3>1, <3>2, <3>3
  <2>2. chat' \in [phase : {"soon", "live", "done"}, step : 0 .. Steps]
    BY <1>2
  <2>3. stepState' \in [StepIds -> {"upcoming", "current", "done", "skipped"}]
    BY <1>1, <1>2 DEF TypeOK
  <2> QED BY <1>1, <1>2, <2>1, <2>2, <2>3 DEF IInv, TypeOK, MovesFit, people
<1>4. \A i \in StepIds : stepState[i] # "upcoming" => stepState'[i] # "upcoming"
  BY <1>1, <1>2 DEF TypeOK
<1>5. CallsFit'
  BY <1>1, <1>2, <1>4, AnswerFits DEF IInv, TypeOK
<1>6. ChatMirrorsSession' /\ CurrentStepIsMarked'
  BY <1>1, <1>2 DEF TypeOK, ChatMirrorsSession, CurrentStepIsMarked, ChatPhase
<1> QED BY <1>1, <1>2, <1>3, <1>4, <1>5, <1>6, PlanStepKeeps DEF TypeOK

LEMMA MoveKeeps ==
    ASSUME IInv, NEW c \in Calls, Move(c)
    PROVE  IInv'
<1> USE EveningAssumption DEF StepIds
<1> DEFINE i == call[c].step
<1>1. TypeOK /\ ChatMirrorsSession
  BY DEF IInv
<1>2. i \in StepIds \ {Steps} /\ call[c].status \in {"done", "skipped"}
  BY DEF IInv, CallsFit, CallFits, Move, Is
<1>3. i + 1 \in StepIds
  BY <1>2
<1>4. /\ session' = [session EXCEPT !.step = i + 1]
      /\ chat' = [chat EXCEPT !.step = i + 1]
      /\ stepState' = [stepState EXCEPT ![i] = call[c].status, ![i + 1] = "current"]
      /\ UNCHANGED people /\ UNCHANGED <<clock, worker>> /\ Answer(c)
  BY DEF Move, Answer
<1> HIDE DEF i
<1>5. stepState' \in [StepIds -> {"upcoming", "current", "done", "skipped"}]
  BY <1>1, <1>2, <1>3, <1>4 DEF TypeOK
<1>6. /\ session' \in [phase : Phases, step : 0 .. Steps, startedAt : 0 .. MaxClock,
                        mode : Modes, privacy : Privacies]
      /\ chat' \in [phase : {"soon", "live", "done"}, step : 0 .. Steps]
  <2>1. i + 1 \in 0 .. Steps
    BY <1>3
  <2> QED BY <1>1, <1>4, <2>1 DEF TypeOK
<1>7. TypeOK' /\ MovesFit'
  BY <1>1, <1>4, <1>5, <1>6 DEF IInv, TypeOK, MovesFit, people
<1>8. \A j \in StepIds : stepState[j] # "upcoming" => stepState'[j] # "upcoming"
  BY <1>1, <1>2, <1>3, <1>4 DEF TypeOK
<1>9. CallsFit'
  BY <1>1, <1>4, <1>8, AnswerFits DEF IInv, TypeOK
<1>10. ChatMirrorsSession'
  BY <1>1, <1>4 DEF TypeOK, ChatMirrorsSession, ChatPhase
<1>11. CurrentStepIsMarked'
  BY <1>1, <1>3, <1>4 DEF TypeOK, CurrentStepIsMarked
<1> QED BY <1>1, <1>4, <1>7, <1>8, <1>9, <1>10, <1>11, PlanStepKeeps DEF TypeOK

LEMMA FinishKeeps ==
    ASSUME IInv, NEW c \in Calls, Finish(c)
    PROVE  IInv'
<1> USE EveningAssumption
<1>1. TypeOK
  BY DEF IInv
<1>2. /\ session' = [session EXCEPT !.phase = "done", !.step = 0]
      /\ chat' = [phase |-> "done", step |-> 0]
      /\ UNCHANGED <<stepState, people>> /\ UNCHANGED <<clock, worker>> /\ Answer(c)
  BY DEF Finish, Answer
<1>3. TypeOK' /\ MovesFit'
  <2>1. session' \in [phase : Phases, step : 0 .. Steps, startedAt : 0 .. MaxClock,
                      mode : Modes, privacy : Privacies]
    <3>1. session' = [phase |-> "done", step |-> 0, startedAt |-> session.startedAt,
                      mode |-> session.mode, privacy |-> session.privacy]
      BY <1>1, <1>2 DEF TypeOK
    <3>2. "done" \in Phases /\ 0 \in 0 .. Steps
      BY DEF Phases
    <3>3. /\ session.startedAt \in 0 .. MaxClock
          /\ session.mode \in Modes /\ session.privacy \in Privacies
      BY <1>1 DEF TypeOK
    <3> QED BY <3>1, <3>2, <3>3
  <2>2. chat' \in [phase : {"soon", "live", "done"}, step : 0 .. Steps]
    BY <1>2
  <2> QED BY <1>1, <1>2, <2>1, <2>2 DEF IInv, TypeOK, MovesFit, people
<1>4. CallsFit'
  BY <1>1, <1>2, AnswerFits DEF IInv, TypeOK
<1>5. ChatMirrorsSession' /\ CurrentStepIsMarked'
  BY <1>1, <1>2 DEF TypeOK, ChatMirrorsSession, CurrentStepIsMarked, ChatPhase
<1> QED BY <1>1, <1>2, <1>3, <1>4, <1>5, PlanStepKeeps DEF TypeOK
-----------------------------------------------------------------------------
LEMMA JoinKeeps ==
    ASSUME IInv, NEW c \in Calls, Join(c)
    PROVE  IInv'
<1>1. /\ UNCHANGED <<plan, request, checkIns>> /\ Answer(c)
      /\ call[c].user \in People
      /\ session.privacy # "request"
  BY DEF IInv, CallsFit, CallFits, Join, Is
<1>2. ReviewDecidesSeat' /\ CheckInsAreReached'
  BY <1>1 DEF IInv, ReviewDecidesSeat, CheckInsAreReached, plan
<1>3. CASE HasRoom
  <2>1. Seat(call[c].user)
    BY <1>3 DEF Join
  <2> QED BY <1>1, <1>2, <1>3, <2>1, SeatKeeps, PeopleStepKeeps DEF IInv, TypeOK
<1>4. CASE ~HasRoom
  <2>1. UNCHANGED <<participant, members>>
    BY <1>4 DEF Join
  <2>2. HostStays' /\ SeatsFit' /\ JoinedAreMembers'
    BY <2>1 DEF IInv, HostStays, SeatsFit, Joined, JoinedAreMembers
  <2> QED BY <1>1, <1>2, <2>1, <2>2, PeopleStepKeeps DEF IInv, TypeOK
<1> QED BY <1>3, <1>4

(* A step that seats nobody and unseats nobody.                             *)
LEMMA NobodySeated ==
    ASSUME IInv, NEW c \in Calls, Answer(c), UNCHANGED <<plan, participant>>,
           members \subseteq members', members' \subseteq People,
           request' \in [Guests -> {"none", "requested", "approved", "rejected"}],
           checkIns' \subseteq StepIds \X People,
           ReviewDecidesSeat', CheckInsAreReached'
    PROVE  IInv'
<1>1. HostStays' /\ SeatsFit' /\ JoinedAreMembers'
  BY DEF IInv, HostStays, SeatsFit, Joined, JoinedAreMembers
<1> QED BY <1>1, PeopleStepKeeps DEF IInv, TypeOK

LEMMA RejoinKeeps ==
    ASSUME IInv, NEW c \in Calls, Rejoin(c)
    PROVE  IInv'
<1>1. /\ UNCHANGED <<plan, participant, request, checkIns>> /\ Answer(c)
      /\ call[c].user \in People
      /\ members' = members \cup {call[c].user}
  BY DEF IInv, CallsFit, Rejoin
<1>2. ReviewDecidesSeat' /\ CheckInsAreReached'
  BY <1>1 DEF IInv, ReviewDecidesSeat, CheckInsAreReached, plan
<1> QED BY <1>1, <1>2, NobodySeated DEF IInv, TypeOK

LEMMA AskKeeps ==
    ASSUME IInv, NEW c \in Calls, Ask(c)
    PROVE  IInv'
<1> DEFINE g == call[c].user
<1>1. UNCHANGED <<plan, participant, members, checkIns>> /\ Answer(c) /\ g \in Guests
  BY DEF IInv, CallsFit, CallFits, Ask, Is
<1>2. \A h \in Guests :
        request'[h] = IF h = g /\ request[h] = "none" THEN "requested" ELSE request[h]
  BY DEF Ask, IInv, TypeOK
<1>3. request' \in [Guests -> {"none", "requested", "approved", "rejected"}]
  BY <1>1 DEF Ask, IInv, TypeOK
<1>4. ReviewDecidesSeat'
  BY <1>1, <1>2 DEF IInv, ReviewDecidesSeat, plan
<1>5. CheckInsAreReached'
  BY <1>1 DEF IInv, CheckInsAreReached, plan
<1> QED BY <1>1, <1>3, <1>4, <1>5, NobodySeated DEF IInv, TypeOK

LEMMA ApproveKeeps ==
    ASSUME IInv, NEW c \in Calls, Approve(c)
    PROVE  IInv'
<1> DEFINE g == call[c].user
<1>1. UNCHANGED <<plan, checkIns>> /\ Answer(c) /\ g \in Guests
  BY DEF IInv, CallsFit, CallFits, Approve, Is
<1>2. CheckInsAreReached'
  BY <1>1 DEF IInv, CheckInsAreReached, plan
<1>3. CASE HasRoom /\ Reviewable(g)
  <2>1. Seat(g) /\ request' = [request EXCEPT ![g] = "approved"]
    BY <1>3 DEF Approve
  <2>2. request' \in [Guests -> {"none", "requested", "approved", "rejected"}]
    BY <2>1 DEF IInv, TypeOK
  <2>3. ReviewDecidesSeat'
    <3>1. participant' = [participant EXCEPT ![g] = "joined"]
      BY <2>1 DEF Seat
    <3> QED BY <1>1, <2>1, <3>1 DEF IInv, TypeOK, ReviewDecidesSeat, plan, People
  <2> QED BY <1>1, <1>2, <1>3, <2>1, <2>2, <2>3, SeatKeeps, PeopleStepKeeps
            DEF IInv, TypeOK, People
<1>4. CASE ~(HasRoom /\ Reviewable(g))
  <2>1. UNCHANGED <<participant, members, request>>
    BY <1>4 DEF Approve
  <2>2. ReviewDecidesSeat'
    BY <1>1, <2>1 DEF IInv, ReviewDecidesSeat, plan
  <2> QED BY <1>1, <1>2, <2>1, <2>2, NobodySeated DEF IInv, TypeOK
<1> QED BY <1>3, <1>4

LEMMA RejectKeeps ==
    ASSUME IInv, NEW c \in Calls, Reject(c)
    PROVE  IInv'
<1> DEFINE g == call[c].user
<1>1. UNCHANGED <<plan, participant, members, checkIns>> /\ Answer(c) /\ g \in Guests
  BY DEF IInv, CallsFit, CallFits, Reject, Is
<1>2. CheckInsAreReached'
  BY <1>1 DEF IInv, CheckInsAreReached, plan
<1>3. \A h \in Guests :
        request'[h] = IF h = g /\ request[h] = "requested" THEN "rejected" ELSE request[h]
  BY DEF Reject, Reviewable, IInv, TypeOK
<1>4. request' \in [Guests -> {"none", "requested", "approved", "rejected"}]
  BY <1>1 DEF Reject, IInv, TypeOK
<1>5. ReviewDecidesSeat'
  BY <1>1, <1>3 DEF IInv, ReviewDecidesSeat, plan
<1> QED BY <1>1, <1>2, <1>4, <1>5, NobodySeated DEF IInv, TypeOK

LEMMA CheckInKeeps ==
    ASSUME IInv, NEW c \in Calls, CheckIn(c)
    PROVE  IInv'
<1>1. /\ UNCHANGED <<plan, participant, members, request>> /\ Answer(c)
      /\ call[c].user \in People
      /\ call[c].step \in StepIds /\ stepState[call[c].step] # "upcoming"
      /\ checkIns' = checkIns \cup {<<call[c].step, call[c].user>>}
  BY DEF IInv, CallsFit, CallFits, CheckIn, Is
<1>2. checkIns' \subseteq StepIds \X People
  BY <1>1 DEF IInv, TypeOK
<1>3. CheckInsAreReached'
  BY <1>1 DEF IInv, CheckInsAreReached, plan
<1>4. ReviewDecidesSeat'
  BY <1>1 DEF IInv, ReviewDecidesSeat, plan
<1> QED BY <1>1, <1>2, <1>3, <1>4, NobodySeated DEF IInv, TypeOK

LEMMA LeaveKeeps ==
    ASSUME IInv, NEW c \in Calls, Leave(c)
    PROVE  IInv'
<1> DEFINE u == call[c].user
<1>1. UNCHANGED <<plan, request, checkIns>> /\ Answer(c) /\ u \in People
  BY DEF IInv, CallsFit, Leave
<1>2. members' = members \ {u}
  BY DEF Leave
<1>3. participant \in [People -> {"none", "joined", "left"}]
  BY DEF IInv, TypeOK
<1>4. \A v \in People : participant'[v] =
        IF v = u /\ v # Host /\ participant[v] # "none" THEN "left" ELSE participant[v]
  BY <1>1, <1>3 DEF Leave
<1>5. participant' \in [People -> {"none", "joined", "left"}]
  BY <1>1, <1>3 DEF Leave
<1>6. HostStays' /\ JoinedAreMembers'
  BY <1>2, <1>4, EveningAssumption DEF IInv, HostStays, JoinedAreMembers, People
<1>7. SeatsFit'
  <2>1. Joined' \subseteq Joined
    BY <1>4 DEF Joined
  <2>2. IsFiniteSet(Joined) /\ Cardinality(Joined) \in Nat
    BY JoinedFinite
  <2>3. Cardinality(Joined') <= Cardinality(Joined) /\ Cardinality(Joined') \in Nat
    BY <2>1, <2>2, FS_Subset, FS_CardinalityType
  <2> QED BY <2>2, <2>3, EveningAssumption DEF IInv, SeatsFit
<1>8. ReviewDecidesSeat'
  BY <1>1, <1>4, EveningAssumption DEF IInv, ReviewDecidesSeat, People, plan
<1>9. CheckInsAreReached'
  BY <1>1 DEF IInv, CheckInsAreReached, plan
<1> QED BY <1>1, <1>2, <1>5, <1>6, <1>7, <1>8, <1>9, PeopleStepKeeps DEF IInv, TypeOK

LEMMA AbandonKeeps ==
    ASSUME IInv, NEW c \in Calls, Abandon(c)
    PROVE  IInv'
<1>1. UNCHANGED <<plan, people>> /\ Answer(c)
  BY DEF Abandon
<1>2. ReviewDecidesSeat' /\ CheckInsAreReached'
  BY <1>1 DEF IInv, ReviewDecidesSeat, CheckInsAreReached, plan, people
<1> QED BY <1>1, <1>2, NobodySeated DEF IInv, TypeOK, people
-----------------------------------------------------------------------------
(* The worker's steps.  A decision that leads forward is one it may hold.   *)
LEMMA MoveFits ==
    ASSUME IInv, NEW w \in Workers,
           NEW m \in [kind : {"none", "advance", "finish"},
                      from : 0 .. Steps, to : 0 .. Steps],
           m.kind = "advance" => m.from > 0 /\ m.from < m.to,
           worker' = [worker EXCEPT ![w] = m]
    PROVE  MovesFit'
<1>1. \A x \in Workers : worker'[x] = IF x = w THEN m ELSE worker[x]
  BY DEF IInv, MovesFit
<1> QED BY <1>1 DEF IInv, MovesFit

LEMMA ScanKeeps ==
    ASSUME IInv, NEW w \in Workers, Scan(w)
    PROVE  IInv'
<1>1. UNCHANGED <<clock, plan, people, call>>
  BY DEF Scan
<1>2. MovesFit'
  <2> DEFINE finish == [kind |-> "finish", from |-> session.step, to |-> 0]
             advance(i) == [kind |-> "advance", from |-> session.step, to |-> i]
             Moves == [kind : {"none", "advance", "finish"},
                       from : 0 .. Steps, to : 0 .. Steps]
  <2>1. session.step \in 1 .. Steps
    BY EveningAssumption DEF Scan, IInv, TypeOK
  <2>2. CASE Elapsed >= FinishAt
    <3>1. worker' = [worker EXCEPT ![w] = finish]
      BY <2>2, EveningAssumption DEF Scan, Elapsed, IInv, TypeOK
    <3>2. finish \in Moves /\ finish.kind # "advance"
      BY <2>1, EveningAssumption
    <3> HIDE DEF finish
    <3> QED BY <3>1, <3>2, MoveFits
  <2>3. CASE ~(Elapsed >= FinishAt)
    <3>1. PICK i \in session.step + 1 .. Steps : worker' = [worker EXCEPT ![w] = advance(i)]
      BY <2>3 DEF Scan
    <3>2. advance(i) \in Moves
      BY <2>1, EveningAssumption
    <3>3. advance(i).from > 0 /\ advance(i).from < advance(i).to
      BY <2>1
    <3> HIDE DEF advance
    <3> QED BY <3>1, <3>2, <3>3, MoveFits
  <2> QED BY <2>2, <2>3
<1>3. TypeOK' /\ CallsFit' /\ HostStays'
  BY <1>1 DEF IInv, TypeOK, CallsFit, CallFits, HostStays, plan, people
<1>4. ChatMirrorsSession' /\ CurrentStepIsMarked'
  BY <1>1 DEF IInv, ChatMirrorsSession, CurrentStepIsMarked, plan
<1>5. SeatsFit' /\ JoinedAreMembers' /\ ReviewDecidesSeat' /\ CheckInsAreReached'
  BY <1>1 DEF IInv, SeatsFit, Joined, JoinedAreMembers, ReviewDecidesSeat,
              CheckInsAreReached, plan, people
<1> QED BY <1>2, <1>3, <1>4, <1>5 DEF IInv

(* The worker's decision is forgotten, carried out or not.                  *)
LEMMA DoneKeepsMoves ==
    ASSUME IInv, NEW w \in Workers, Done(w)
    PROVE  MovesFit'
<1>1. NoMove \in [kind : {"none", "advance", "finish"}, from : 0 .. Steps, to : 0 .. Steps]
  BY EveningAssumption DEF NoMove
<1>2. NoMove.kind # "advance"
  BY DEF NoMove
<1> QED BY <1>1, <1>2, MoveFits DEF Done

(* The calls of a session whose plan the worker moves on.                   *)
LEMMA CallsStayFit ==
    ASSUME CallsFit, UNCHANGED call, session'.privacy = session.privacy,
           \A i \in StepIds : stepState[i] # "upcoming" => stepState'[i] # "upcoming"
    PROVE  CallsFit'
BY DEF CallsFit, CallFits

(* A transition that comes too late, or fails, leaves the plan alone.       *)
LEMMA NoTransition ==
    ASSUME IInv, NEW w \in Workers, Done(w), UNCHANGED plan
    PROVE  IInv'
<1>1. UNCHANGED <<clock, people, call>>
  BY DEF Done
<1>2. TypeOK' /\ CallsFit' /\ MovesFit'
  BY <1>1, CallsStayFit, DoneKeepsMoves DEF IInv, TypeOK, plan, people
<1>3. ChatMirrorsSession' /\ CurrentStepIsMarked'
  BY DEF IInv, ChatMirrorsSession, CurrentStepIsMarked, plan
<1> QED BY <1>1, <1>2, <1>3, PlanStepKeeps DEF plan

LEMMA AdvanceAutoKeeps ==
    ASSUME IInv, NEW w \in Workers, AdvanceAuto(w)
    PROVE  IInv'
<1> USE EveningAssumption
<1> DEFINE m == worker[w]
<1>1. Done(w) /\ TypeOK
  BY DEF AdvanceAuto, IInv
<1>2. m.from \in StepIds /\ m.to \in StepIds /\ m.from < m.to
  BY DEF AdvanceAuto, IInv, MovesFit, StepIds
<1>3. CASE ~StillAt(w)
  BY <1>1, <1>3, NoTransition DEF AdvanceAuto
<1>4. CASE StillAt(w)
  <2>1. /\ session' = [session EXCEPT !.step = m.to]
        /\ chat' = [chat EXCEPT !.step = m.to]
        /\ stepState' = [i \in StepIds |->
             IF i \in m.from .. m.to - 1 THEN "done"
             ELSE IF i = m.to THEN "current"
             ELSE stepState[i]]
        /\ UNCHANGED people /\ UNCHANGED <<clock, call>>
    BY <1>1, <1>4 DEF AdvanceAuto, Done
  <2> HIDE DEF m
  <2>2. m.to \in 0 .. Steps
    BY <1>2 DEF StepIds
  <2>3. /\ session' \in [phase : Phases, step : 0 .. Steps, startedAt : 0 .. MaxClock,
                          mode : Modes, privacy : Privacies]
        /\ chat' \in [phase : {"soon", "live", "done"}, step : 0 .. Steps]
    BY <1>1, <2>1, <2>2 DEF TypeOK
  <2>4. stepState' \in [StepIds -> {"upcoming", "current", "done", "skipped"}]
    BY <1>1, <2>1 DEF TypeOK
  <2>5. TypeOK'
    BY <1>1, <2>1, <2>3, <2>4 DEF TypeOK, people
  <2>6. \A i \in StepIds : stepState[i] # "upcoming" => stepState'[i] # "upcoming"
    BY <2>1
  <2>7. session'.privacy = session.privacy
    BY <1>1, <2>1 DEF TypeOK
  <2>8. ChatMirrorsSession'
    BY <1>1, <2>1 DEF IInv, TypeOK, ChatMirrorsSession, ChatPhase
  <2>9. CurrentStepIsMarked'
    <3>1. session'.step = m.to
      BY <1>1, <2>1 DEF TypeOK
    <3>2. stepState'[m.to] = "current"
      BY <1>2, <2>1 DEF StepIds
    <3> QED BY <1>2, <3>1, <3>2 DEF CurrentStepIsMarked
  <2>10. CallsFit' /\ MovesFit'
    BY <1>1, <2>1, <2>6, <2>7, CallsStayFit, DoneKeepsMoves DEF IInv
  <2> QED BY <2>1, <2>5, <2>6, <2>7, <2>8, <2>9, <2>10, PlanStepKeeps
<1> QED BY <1>3, <1>4

LEMMA FinishAutoKeeps ==
    ASSUME IInv, NEW w \in Workers, FinishAuto(w)
    PROVE  IInv'
<1>1. Done(w) /\ TypeOK
  BY DEF FinishAuto, IInv
<1>2. CASE ~StillAt(w)
  BY <1>1, <1>2, NoTransition DEF FinishAuto
<1>3. CASE StillAt(w)
  <2>1. /\ session' = [session EXCEPT !.phase = "done", !.step = 0]
        /\ chat' = [phase |-> "done", step |-> 0]
        /\ stepState' = [i \in StepIds |->
             IF i >= worker[w].from THEN "done" ELSE stepState[i]]
        /\ UNCHANGED people /\ UNCHANGED <<clock, call>>
    BY <1>1, <1>3 DEF FinishAuto, Done
  <2>2. session' \in [phase : Phases, step : 0 .. Steps, startedAt : 0 .. MaxClock,
                      mode : Modes, privacy : Privacies]
    <3>1. session' = [phase |-> "done", step |-> 0, startedAt |-> session.startedAt,
                      mode |-> session.mode, privacy |-> session.privacy]
      BY <1>1, <2>1 DEF TypeOK
    <3>2. "done" \in Phases /\ 0 \in 0 .. Steps
      BY EveningAssumption DEF Phases
    <3>3. /\ session.startedAt \in 0 .. MaxClock
          /\ session.mode \in Modes /\ session.privacy \in Privacies
      BY <1>1 DEF TypeOK
    <3> QED BY <3>1, <3>2, <3>3
  <2>3. chat' \in [phase : {"soon", "live", "done"}, step : 0 .. Steps]
    BY <2>1, EveningAssumption
  <2>4. stepState' \in [StepIds -> {"upcoming", "current", "done", "skipped"}]
    BY <1>1, <2>1 DEF TypeOK
  <2>5. TypeOK'
    BY <1>1, <2>1, <2>2, <2>3, <2>4 DEF TypeOK, people
  <2>6. \A i \in StepIds : stepState[i] # "upcoming" => stepState'[i] # "upcoming"
    BY <2>1
  <2>7. session'.privacy = session.privacy
    BY <1>1, <2>1 DEF TypeOK
  <2>8. ChatMirrorsSession' /\ CurrentStepIsMarked'
    BY <1>1, <2>1 DEF TypeOK, ChatMirrorsSession, CurrentStepIsMarked, ChatPhase
  <2>9. CallsFit' /\ MovesFit'
    BY <1>1, <2>1, <2>6, <2>7, CallsStayFit, DoneKeepsMoves DEF IInv
  <2> QED BY <2>1, <2>5, <2>6, <2>7, <2>8, <2>9, PlanStepKeeps
<1> QED BY <1>2, <1>3
-----------------------------------------------------------------------------
LEMMA StepInvariant == IInv /\ [Next]_vars => IInv'
<1> SUFFICES ASSUME IInv, [Next]_vars PROVE IInv'
  OBVIOUS
<1>1. ASSUME NEW c \in Calls, Begin(c) PROVE IInv'
  BY <1>1, BeginKeeps
<1>2. ASSUME NEW c \in Calls, Commit(c) PROVE IInv'
  BY <1>2, StartKeeps, MoveKeeps, FinishKeeps, JoinKeeps, RejoinKeeps, AskKeeps,
     ApproveKeeps, RejectKeeps, CheckInKeeps, LeaveKeeps DEF Commit
<1>3. ASSUME NEW c \in Calls, Abandon(c) PROVE IInv'
  BY <1>3, AbandonKeeps
<1>4. ASSUME NEW w \in Workers, Work(w) PROVE IInv'
  BY <1>4, ScanKeeps, AdvanceAutoKeeps, FinishAutoKeeps DEF Work
<1>5. ASSUME NEW w \in Workers, Drop(w) PROVE IInv'
  BY <1>5, NoTransition DEF Drop
<1>6. ASSUME UNCHANGED <<plan, people, call, worker>>, clock' \in 0 .. MaxClock
      PROVE  IInv'
  <2>1. TypeOK' /\ CallsFit' /\ MovesFit' /\ HostStays'
    BY <1>6 DEF IInv, TypeOK, CallsFit, CallFits, MovesFit, HostStays, plan, people
  <2>2. ChatMirrorsSession' /\ CurrentStepIsMarked'
    BY <1>6 DEF IInv, ChatMirrorsSession, CurrentStepIsMarked, plan
  <2>3. SeatsFit' /\ JoinedAreMembers' /\ ReviewDecidesSeat' /\ CheckInsAreReached'
    BY <1>6 DEF IInv, SeatsFit, Joined, JoinedAreMembers, ReviewDecidesSeat,
                CheckInsAreReached, plan, people
  <2> QED BY <2>1, <2>2, <2>3 DEF IInv
<1>7. CASE Tick
  <2>1. clock' \in 0 .. MaxClock
    BY <1>7, EveningAssumption DEF Tick, IInv, TypeOK
  <2> QED BY <1>6, <1>7, <2>1 DEF Tick
<1>8. CASE UNCHANGED vars
  BY <1>6, <1>8 DEF vars, IInv, TypeOK
<1> QED BY <1>1, <1>2, <1>3, <1>4, <1>5, <1>7, <1>8 DEF Next

(* In every state the calls and workers hold what they have read, and the   *)
(* session, its chat, its steps and its people agree.                       *)
THEOREM Invariance == Spec => []IInv
<1>1. Init => IInv
  BY InitInvariant
<1>2. IInv /\ [Next]_vars => IInv'
  BY StepInvariant
<1> QED BY <1>1, <1>2, PTL DEF Spec

(* Sessions, steps, seats and requests keep the types of their columns:     *)
(* above all, no move leaves the route.                                     *)
THEOREM TypeCorrect == Spec => []TypeOK
<1>1. IInv => TypeOK
  BY DEF IInv
<1> QED BY <1>1, Invariance, PTL

(* The chat carries the session's phase and step, however the writes of the *)
(* host and of the workers interleave with what they had read.              *)
THEOREM ChatMirrors == Spec => []ChatMirrorsSession
<1>1. IInv => ChatMirrorsSession
  BY DEF IInv
<1> QED BY <1>1, Invariance, PTL

(* A live session is at a step of the route that is marked current.         *)
THEOREM CurrentMarked == Spec => []CurrentStepIsMarked
<1>1. IInv => CurrentStepIsMarked
  BY DEF IInv
<1> QED BY <1>1, Invariance, PTL

(* Joins and approvals never take more places than the session has.         *)
THEOREM SeatsAlwaysFit == Spec => []SeatsFit
<1>1. IInv => SeatsFit
  BY DEF IInv
<1> QED BY <1>1, Invariance, PTL

(* A guest who takes part is in the chat.                                   *)
THEOREM MembersJoined == Spec => []JoinedAreMembers
<1>1. IInv => JoinedAreMembers
  BY DEF IInv
<1> QED BY <1>1, Invariance, PTL

(* Where the host lets guests in, a guest has or had a seat exactly when    *)
(* his request was approved, in whatever order reviews overlap.             *)
THEOREM SeatsAreReviewed == Spec => []ReviewDecidesSeat
<1>1. IInv => ReviewDecidesSeat
  BY DEF IInv
<1> QED BY <1>1, Invariance, PTL

(* A check-in is at a step the evening has reached.                         *)
THEOREM CheckInsReached == Spec => []CheckInsAreReached
<1>1. IInv => CheckInsAreReached
  BY DEF IInv
<1> QED BY <1>1, Invariance, PTL

-----------------------------------------------------------------------------
(* A worker who carries out a transition found the session live and at the  *)
(* step it had scanned, whatever the host did in between.                   *)
LEMMA StepAdvances ==
    ASSUME IInv, [Next]_vars, NEW w \in Workers,
           worker[w] # NoMove, worker'[w] = NoMove, session' # session
    PROVE  /\ session.phase = "live"
           /\ session'.phase = "done" \/ session'.step > session.step
<1> DEFINE Goal == /\ session.phase = "live"
                   /\ session'.phase = "done" \/ session'.step > session.step
<1>0. TypeOK /\ MovesFit
  BY DEF IInv
<1>1. ASSUME UNCHANGED worker \/ UNCHANGED session PROVE Goal
  BY <1>1
<1>2. ASSUME NEW c \in Calls, Begin(c) \/ Commit(c) \/ Abandon(c) PROVE Goal
  <2>1. UNCHANGED worker
    BY <1>2 DEF Begin, StartSession, MoveToNextStep, FinishSession, ApproveJoinRequest,
       RejectJoinRequest, JoinSession, CheckInStep, DeleteChat, HostReads, GuestReads, Read,
       Commit, Start, Move, Finish, Join, Rejoin, Ask, Approve, Reject, CheckIn, Leave,
       Abandon, Answer
  <2> QED BY <1>1, <2>1
<1>3. ASSUME NEW x \in Workers, Scan(x) \/ Drop(x) PROVE Goal
  BY <1>1, <1>3 DEF Scan, Drop, plan
<1>4. ASSUME NEW x \in Workers, AdvanceAuto(x) PROVE Goal
  <2>1. x = w
    BY <1>0, <1>4 DEF AdvanceAuto, Done, MovesFit
  <2>2. StillAt(w) /\ session' = [session EXCEPT !.step = worker[w].to]
    BY <1>4, <2>1 DEF AdvanceAuto, plan
  <2>3. worker[w].from < worker[w].to /\ session.step = worker[w].from
    BY <1>0, <1>4, <2>1, <2>2 DEF AdvanceAuto, StillAt, MovesFit
  <2> QED BY <1>0, <2>2, <2>3 DEF StillAt, TypeOK
<1>5. ASSUME NEW x \in Workers, FinishAuto(x) PROVE Goal
  <2>1. x = w
    BY <1>0, <1>5 DEF FinishAuto, Done, MovesFit
  <2>2. StillAt(w) /\ session' = [session EXCEPT !.phase = "done", !.step = 0]
    BY <1>5, <2>1 DEF FinishAuto, plan
  <2> QED BY <1>0, <2>2 DEF StillAt, TypeOK
<1>6. ASSUME Tick \/ UNCHANGED vars PROVE Goal
  BY <1>1, <1>6 DEF Tick, vars
<1> QED BY <1>2, <1>3, <1>4, <1>5, <1>6 DEF Next, Work

(* The worker only takes a live session forward or ends it.                 *)
THEOREM AutoAdvances == Spec => AutoOnlyAdvances
<1> DEFINE Forward == \A w \in Workers :
         worker[w] # NoMove /\ worker'[w] = NoMove /\ session' # session
           => /\ session.phase = "live"
              /\ session'.phase = "done" \/ session'.step > session.step
<1>1. IInv /\ [Next]_vars => [Forward]_vars
  BY StepAdvances
<1> QED BY <1>1, Invariance, PTL DEF Spec, AutoOnlyAdvances
=============================================================================
