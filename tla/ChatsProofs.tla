----------------------------- MODULE ChatsProofs ----------------------------
(* What is proved of a service for all constants holds of the instance that  *)
(* TLC checks: its constants fit, and a step of the run is one of its steps, *)
(* a stutter, or a step of another service.                                  *)
EXTENDS MCChats, FiniteSetTheorems, SequenceTheorems, WellFoundedInduction, TLAPS

-----------------------------------------------------------------------------
(* The unread counters.                                                      *)

LEMMA UnreadConstants == Unread!ConstantsFit
<1>1. Unread!IsFiniteSet({1, 2})
  <2>1. Unread!IsFiniteSet({})
    BY Unread!FS_EmptySet
  <2>2. Unread!IsFiniteSet({} \cup {1})
    BY <2>1, Unread!FS_AddElement
  <2>3. Unread!IsFiniteSet(({} \cup {1}) \cup {2})
    BY <2>2, Unread!FS_AddElement
  <2>4. ({} \cup {1}) \cup {2} = {1, 2}
    OBVIOUS
  <2> QED BY <2>3, <2>4
<1>2. {1, 2} \subseteq Nat \ {0} /\ 1 \in Nat \ {0} /\ 2 \in Nat \ {0} /\ 1 \in Nat /\ 2 \in Nat
  OBVIOUS
<1> QED BY <1>1, <1>2 DEF Unread!ConstantsFit, Unread!Kinds

(* The instance keeps the invariant of ChatUnreadProofs.                     *)
LEMMA UnreadKept == Spec => [](focus = "unread" => Unread!IInv)
<1> USE UnreadConstants
<1>1. Init => (focus = "unread" => Unread!IInv)
  BY Unread!InitHolds DEF Init
<1>2. (focus = "unread" => Unread!IInv) /\ [Next]_<<focus, everything>>
        => (focus = "unread" => Unread!IInv)'
  <2> SUFFICES ASSUME focus = "unread" => Unread!IInv, [Next]_<<focus, everything>>,
                      focus' = "unread"
               PROVE  Unread!IInv'
    OBVIOUS
  <2>1. focus = "unread" /\ Unread!IInv
    BY DEF Next
  <2>2. CASE UNCHANGED <<focus, everything>>
    <3>1. UNCHANGED Unread!vars
      BY <2>2 DEF everything, Unread!vars
    <3> QED BY <2>1, <3>1, Unread!NextKeeps
  <2>3. CASE Next
    <3>1. Unread!Next
      BY <2>1, <2>3 DEF Next
    <3> QED BY <2>1, <3>1, Unread!NextKeeps
  <2> QED BY <2>2, <2>3
<1> QED BY <1>1, <1>2, PTL DEF Spec

(* The counter of a member of the chat is at every moment the number of the  *)
(* newer visible messages counted for him, unless something has disturbed it.*)
THEOREM CountersExact == Spec => []Accounted
<1>1. (focus = "unread" => Unread!IInv) => Accounted
  BY UnreadConstants, Unread!AccountedFollows DEF Accounted
<1> QED BY <1>1, UnreadKept, PTL

(* A counter that differs from what a recount would return was disturbed by  *)
(* what can make it differ that way.                                         *)
THEOREM DriftIsExplained == Spec => []DriftExplained
<1>1. (focus = "unread" => Unread!IInv) => DriftExplained
  BY UnreadConstants, Unread!DriftExplainedFollows DEF DriftExplained
<1> QED BY <1>1, UnreadKept, PTL

(* When no message is being counted and no row of the queue is left, every   *)
(* message has been counted for everybody it reaches.                        *)
THEOREM NobodyForgotten == Spec => []NoneForgotten
<1>1. (focus = "unread" => Unread!IInv) => NoneForgotten
  BY UnreadConstants, Unread!NoneForgottenFollows DEF NoneForgotten
<1> QED BY <1>1, UnreadKept, PTL

-----------------------------------------------------------------------------
(* The members of a meetup.                                                  *)

LEMMA MemberConstants == Member!ConstantsFit
<1>1. Member!IsFiniteSet({m1, m2})
  <2>1. Member!IsFiniteSet({})
    BY Member!FS_EmptySet
  <2>2. Member!IsFiniteSet({} \cup {m1})
    BY <2>1, Member!FS_AddElement
  <2>3. Member!IsFiniteSet(({} \cup {m1}) \cup {m2})
    BY <2>2, Member!FS_AddElement
  <2>4. ({} \cup {m1}) \cup {m2} = {m1, m2}
    OBVIOUS
  <2> QED BY <2>3, <2>4
<1>2. EveryKind \subseteq Member!CallKinds
  BY DEF EveryKind, Member!CallKinds
<1>3. EveryStart \subseteq {"outside", "joined", "asked", "invited", "admitted", "left",
                            "refused", "declined"}
  BY DEF EveryStart
<1>4. {2, 3} \subseteq Nat
  OBVIOUS
<1> QED BY <1>1, <1>2, <1>3, <1>4, ModelValues DEF Member!ConstantsFit

LEMMA MemberSteps ==
    ASSUME focus = "member", [Next]_<<focus, everything>>
    PROVE  [Member!Next]_Member!vars
<1>1. CASE UNCHANGED <<focus, everything>>
  BY <1>1 DEF everything, Member!vars, Member!rows, Member!history
<1>2. CASE Next
  BY <1>2 DEF Next
<1> QED BY <1>1, <1>2

(* The instance keeps the invariant of MembershipProofs.                     *)
LEMMA MemberKept == Spec => [](focus = "member" => Member!IInv)
<1> USE MemberConstants
<1>1. Init => (focus = "member" => Member!IInv)
  BY Member!InitHolds DEF Init
<1>2. (focus = "member" => Member!IInv) /\ [Next]_<<focus, everything>>
        => (focus = "member" => Member!IInv)'
  <2> SUFFICES ASSUME focus = "member" => Member!IInv, [Next]_<<focus, everything>>,
                      focus' = "member"
               PROVE  Member!IInv'
    OBVIOUS
  <2>1. focus = "member" /\ Member!IInv
    BY DEF Next
  <2>2. [Member!Next]_Member!vars
    BY <2>1, MemberSteps
  <2> QED BY <2>1, <2>2, Member!NextKeeps
<1> QED BY <1>1, <1>2, PTL DEF Spec

(* Whatever the two calls do, a seat, the chat and the attendance agree.     *)
THEOREM SeatsAlwaysAgree == Spec => []SeatsAgree
<1>1. (focus = "member" => Member!IInv) => SeatsAgree
  BY DEF SeatsAgree, Member!IInv, Member!SeatsInv
<1> QED BY <1>1, MemberKept, PTL

(* A request is decided once between two openings, and told of once.         *)
THEOREM RequestsDecidedOnce == Spec => []DecidedOnce
<1>1. (focus = "member" => Member!IInv) => DecidedOnce
  BY DEF DecidedOnce, Member!IInv, Member!RequestsInv, Member!RequestsFit,
     Member!DecidedOnce, Member!OneVerdict, Member!OneNotice
<1> QED BY <1>1, MemberKept, PTL

(* A seat given under the event's lock fits the capacity.                    *)
THEOREM SeatsUnderLockFit == Spec => CheckedSeatFits
<1> USE MemberConstants
<1>1. (focus = "member" => Member!IInv) /\ [Next]_<<focus, everything>>
        => [focus = "member" => Member!CheckedSeat]_<<focus, everything>>
  BY MemberSteps, Member!SeatChecked
<1> QED BY <1>1, MemberKept, PTL DEF Spec, CheckedSeatFits

-----------------------------------------------------------------------------
(* A community, for all users, calls and bounds: this proof is of the        *)
(* instance, whose constants are those of the module.                        *)

creator == v1
privacy == v2
member == v3
chat == v4
request == v5
call == v6
hidden == v8
crossed == v9
raced == v10
deposed == v11
USE DEF creator, privacy, member, chat, request, call, hidden, crossed, raced, deposed

Seats == [id : Nat, role : Group!Roles \union {"none"}]
Requests == [id : Nat, status : {"none", "pending", "approved", "rejected"}]
Working ==
    [op : Group!Roles \union {"join", "approve", "request", "reject", "leave", "remove", "expel",
                        "restore", "transfer"},
     step : {"seat", "write", "chat"}, of : Residents,
     saw : [seat : Seats, owners : SUBSET Residents, creator : Residents],
     request : Nat, do : {"none", "insert", "delete"}]

Typed ==
    /\ creator \in Residents
    /\ member \in [Residents -> Seats]
    /\ request \in [Residents -> Requests]
    /\ call \in [AnyCalls -> Working \union {Group!Idle}]

(* What a call has read of the seat can only be older; a seat that was free *)
(* when it was read is taken under a greater id.                            *)
SawFits(c) ==
    /\ c.saw.seat.id <= member[c.of].id
    /\ c.saw.seat.role = "none" /\ Group!IsMember(c.of) => c.saw.seat.id < member[c.of].id
    /\ c.of \in c.saw.owners <=> c.saw.seat.role = "owner"

(* What the guards of its reads said.                                       *)
BeganFits(c) ==
    /\ c.op = "leave" => c.saw.creator # c.of
    /\ c.op = "remove" => c.saw.seat.role \in {"member", "moderator"}
    /\ c.op = "restore" => c.saw.creator = c.of \/ c.saw.seat.role # "none"

(* Between its two writes the row a call has written is its own; one that   *)
(* has written nothing found it as it wished.                               *)
Holds(c) == c.step = "chat" /\ c.do # "none"

WriteFits(c) ==
    c.step = "chat" =>
        /\ c.op \in {"join", "approve"} =>
              \/ c.do = "insert" /\ ~Group!IsMember(c.of)
              \/ /\ c.do = "none"
                 /\ \/ Group!IsMember(c.of) \/ c.saw.seat.role # "none"
                    \/ c.saw.seat.id < member[c.of].id
        /\ c.op \in {"leave", "remove", "expel"} =>
              \/ c.do = "delete" /\ Group!IsMember(c.of)
              \/ /\ c.do = "none" /\ c.op = "leave"
                 /\ ~Group!IsMember(c.of) \/ c.saw.seat.id < member[c.of].id
        /\ c.op \in {"join", "approve", "leave", "remove", "expel"}

CallsFit ==
    \A k \in AnyCalls :
        call[k] # Group!Idle => SawFits(call[k]) /\ BeganFits(call[k]) /\ WriteFits(call[k])

SeatsAlone ==
    \A k, l \in AnyCalls :
        k # l /\ Holds(call[k]) /\ Holds(call[l]) => call[k].of # call[l].of

(* Whoever is the creator owns the community.                               *)
CreatorSits == member[creator].role = "owner" \/ creator \in deposed \union crossed

GroupInv ==
    /\ Typed
    /\ CallsFit
    /\ SeatsAlone
    /\ Group!SeatsMatch
    /\ CreatorSits
    /\ Group!CreatorOwns

-----------------------------------------------------------------------------
(* How a seat may move under a call.                                        *)
Stays(v) ==
    \/ member'[v] = member[v]
    \/ Group!IsMember(v) /\ member'[v].id = member[v].id /\ member'[v].role # "none"
Comes(v) == ~Group!IsMember(v) /\ member'[v].id = member[v].id + 1 /\ member'[v].role # "none"
Goes(v) == Group!IsMember(v) /\ member'[v].id = member[v].id /\ member'[v].role = "none"

LEMMA OldReads ==
    ASSUME NEW c \in Working, member \in [Residents -> Seats], member' \in [Residents -> Seats],
           SawFits(c), WriteFits(c),
           Stays(c.of) \/ (~Holds(c) /\ (Comes(c.of) \/ Goes(c.of)))
    PROVE  /\ c.saw.seat.id <= member'[c.of].id
           /\ c.saw.seat.role = "none" /\ member'[c.of].role # "none"
                => c.saw.seat.id < member'[c.of].id
           /\ c.step = "chat" =>
                /\ c.op \in {"join", "approve"} =>
                      \/ c.do = "insert" /\ member'[c.of].role = "none"
                      \/ /\ c.do = "none"
                         /\ \/ member'[c.of].role # "none" \/ c.saw.seat.role # "none"
                            \/ c.saw.seat.id < member'[c.of].id
                /\ c.op \in {"leave", "remove", "expel"} =>
                      \/ c.do = "delete" /\ member'[c.of].role # "none"
                      \/ /\ c.do = "none" /\ c.op = "leave"
                         /\ member'[c.of].role = "none" \/ c.saw.seat.id < member'[c.of].id
                /\ c.op \in {"join", "approve", "leave", "remove", "expel"}
<1> DEFINE u == c.of
           s == c.saw.seat
<1>1. u \in Residents /\ s \in Seats /\ member[u] \in Seats /\ member'[u] \in Seats
  BY DEF Working
<1>2. s.id \in Nat /\ member[u].id \in Nat /\ member'[u].id \in Nat
  BY <1>1 DEF Seats
<1>3. CASE Stays(u)
  BY <1>2, <1>3 DEF Stays, SawFits, WriteFits, Group!IsMember
<1>4. CASE ~Holds(c) /\ Comes(u)
  BY <1>2, <1>4 DEF Comes, SawFits, WriteFits, Group!IsMember, Holds
<1>5. CASE ~Holds(c) /\ Goes(u)
  BY <1>2, <1>5 DEF Goes, SawFits, WriteFits, Group!IsMember, Holds
<1> QED BY <1>3, <1>4, <1>5

(* A call that ends leaves every other as it was, whatever it has written   *)
(* of the row it held.                                                      *)
LEMMA EndKeepsCalls ==
    ASSUME GroupInv, NEW k \in AnyCalls, Group!End(k), member' \in [Residents -> Seats],
           \A v \in Residents : \/ Stays(v)
                            \/ /\ Holds(call[k]) /\ call[k].of = v
                               /\ Comes(v) \/ Goes(v)
    PROVE  call' \in [AnyCalls -> Working \union {Group!Idle}] /\ CallsFit' /\ SeatsAlone'
<1>1. /\ call \in [AnyCalls -> Working \union {Group!Idle}] /\ member \in [Residents -> Seats]
      /\ call' \in [AnyCalls -> Working \union {Group!Idle}] /\ call'[k] = Group!Idle
      /\ \A l \in AnyCalls : l # k => call'[l] = call[l]
  BY DEF GroupInv, Typed, Group!End
<1>2. ASSUME NEW l \in AnyCalls, call'[l] # Group!Idle
      PROVE  SawFits(call[l])' /\ BeganFits(call[l])' /\ WriteFits(call[l])'
  <2>1. l # k /\ call'[l] = call[l] /\ call[l] \in Working
    BY <1>1, <1>2
  <2>2. SawFits(call[l]) /\ BeganFits(call[l]) /\ WriteFits(call[l])
    BY <1>1, <1>2, <2>1 DEF GroupInv, CallsFit
  <2>3. call[l].of \in Residents
    BY <2>1 DEF Working
  <2>4. Stays(call[l].of) \/ (~Holds(call[l]) /\ (Comes(call[l].of) \/ Goes(call[l].of)))
    BY <2>1, <2>3 DEF GroupInv, SeatsAlone
  <2>5. PICK c \in Working : c = call[l] /\ c = call'[l]
    BY <2>1
  <2>6. SawFits(c) /\ BeganFits(c) /\ WriteFits(c)
        /\ (Stays(c.of) \/ (~Holds(c) /\ (Comes(c.of) \/ Goes(c.of))))
    BY <2>2, <2>4, <2>5
  <2>7. SawFits(c)' /\ WriteFits(c)'
    BY <1>1, <2>6, OldReads DEF SawFits, WriteFits, Group!IsMember
  <2> QED BY <2>5, <2>6, <2>7 DEF SawFits, BeganFits, WriteFits, Group!IsMember
<1>3. CallsFit'
  BY <1>2 DEF CallsFit
<1>4. SeatsAlone'
  <2>1. ~Holds(Group!Idle)
    BY DEF Holds, Group!Idle
  <2> QED BY <1>1, <2>1 DEF GroupInv, SeatsAlone, Holds
<1> QED BY <1>1, <1>3, <1>4

LEMMA BeginKeeps ==
    ASSUME GroupInv, NEW k \in AnyCalls, NEW u \in Residents,
           NEW op, NEW step \in {"seat", "write"},
           op \in Group!Roles \union {"join", "approve", "request", "reject", "leave", "remove",
                                "expel", "restore", "transfer"},
           Group!Begin(k, op, step, u),
           op = "leave" => creator # u,
           op = "remove" => member[u].role \in {"member", "moderator"},
           op = "restore" => creator = u \/ Group!IsMember(u)
    PROVE  GroupInv'
<1> DEFINE c == [op |-> op, step |-> step, of |-> u, saw |-> Group!Saw(u),
                 request |-> request[u].id, do |-> "none"]
<1>1. /\ call' = [call EXCEPT ![k] = c]
      /\ UNCHANGED <<creator, privacy, member, chat, request, hidden, crossed, raced, deposed>>
  BY DEF Group!Begin, Group!history
<1>2. /\ creator \in Residents
      /\ member \in [Residents -> Seats] /\ request \in [Residents -> Requests]
      /\ call \in [AnyCalls -> Working \union {Group!Idle}]
  BY DEF GroupInv, Typed
<1>3. /\ Group!Saw(u) \in [seat : Seats, owners : SUBSET Residents, creator : Residents]
      /\ Group!Saw(u).seat = member[u] /\ Group!Saw(u).creator = creator
      /\ u \in Group!Saw(u).owners <=> member[u].role = "owner"
  BY <1>2 DEF Group!Saw, Group!Owners
<1>4. request[u].id \in Nat
  BY <1>2 DEF Requests
<1>5. /\ c \in Working /\ c.op = op /\ c.of = u /\ c.saw = Group!Saw(u) /\ c.step # "chat"
  BY <1>3, <1>4 DEF Working
<1> HIDE DEF c
<1>6. /\ call' \in [AnyCalls -> Working \union {Group!Idle}] /\ call'[k] = c
      /\ \A l \in AnyCalls : l # k => call'[l] = call[l]
  BY <1>1, <1>2, <1>5
<1>7. SawFits(c) /\ BeganFits(c) /\ WriteFits(c) /\ ~Holds(c)
  <2>1. member[u].id \in Nat
    BY <1>2 DEF Seats
  <2> QED BY <1>3, <1>5, <2>1 DEF SawFits, BeganFits, WriteFits, Holds, Group!IsMember
<1>8. CallsFit'
  BY <1>1, <1>6, <1>7 DEF GroupInv, CallsFit, SawFits, BeganFits, WriteFits, Group!IsMember
<1>9. SeatsAlone'
  BY <1>6, <1>7 DEF GroupInv, SeatsAlone, Holds
<1>10. Typed'
  BY <1>1, <1>2, <1>6 DEF Typed
<1>11. Group!SeatsMatch' /\ CreatorSits' /\ Group!CreatorOwns'
  BY <1>1 DEF GroupInv, Group!SeatsMatch, CreatorSits, Group!CreatorOwns, Group!IsMember
<1> QED BY <1>8, <1>9, <1>10, <1>11 DEF GroupInv

(* The first write of two: the row was free, or is found as wished.         *)
LEMMA HoldKeeps ==
    ASSUME GroupInv, NEW k \in AnyCalls, Group!Seat(k) \/ Group!Unseat(k)
    PROVE  GroupInv'
<1>1. /\ call \in [AnyCalls -> Working \union {Group!Idle}] /\ member \in [Residents -> Seats]
      /\ call[k].step = "seat"
  BY DEF GroupInv, Typed, Group!Seat, Group!Unseat
<1>2. call[k] \in Working
  BY <1>1 DEF Group!Idle
<1>3. PICK c \in Working : c = call[k]
  BY <1>2
<1>4. PICK do \in {"none", "insert", "delete"} :
          /\ call' = [call EXCEPT ![k].step = "chat", ![k].do = do]
          /\ do # "none" => ~Group!SeatHeld(c.of)
          /\ \/ /\ c.op \in {"join", "approve"}
                /\ do = IF Group!IsMember(c.of) THEN "none" ELSE "insert"
             \/ /\ c.op \in {"leave", "remove", "expel"}
                /\ do = IF Group!IsMember(c.of) THEN "delete" ELSE "none"
                /\ c.op # "leave" => Group!IsMember(c.of)
  BY <1>3 DEF Group!Seat, Group!Unseat
<1>5. UNCHANGED <<creator, privacy, member, chat, request, hidden, crossed, raced, deposed>>
  BY DEF Group!Seat, Group!Unseat, Group!history
<1> DEFINE d == [c EXCEPT !.step = "chat", !.do = do]
<1>6. /\ d \in Working /\ d.op = c.op /\ d.of = c.of /\ d.saw = c.saw
      /\ d.step = "chat" /\ d.do = do
  BY DEF Working
<1>7. call' = [call EXCEPT ![k] = d]
  BY <1>1, <1>3, <1>4
<1> HIDE DEF d
<1>8. /\ call' \in [AnyCalls -> Working \union {Group!Idle}] /\ call'[k] = d
      /\ \A l \in AnyCalls : l # k => call'[l] = call[l]
  BY <1>1, <1>6, <1>7
<1>9. SawFits(c) /\ BeganFits(c)
  BY <1>1, <1>3 DEF GroupInv, CallsFit, Group!Idle
<1>10. SawFits(d) /\ BeganFits(d) /\ WriteFits(d)
  BY <1>4, <1>6, <1>9 DEF SawFits, BeganFits, WriteFits
<1>11. CallsFit'
  BY <1>5, <1>8, <1>10 DEF GroupInv, CallsFit, SawFits, BeganFits, WriteFits, Group!IsMember
<1>12. SeatsAlone'
  <2>1. ASSUME NEW l \in AnyCalls, l # k, Holds(call[l]), Holds(d) PROVE call[l].of # d.of
    BY <1>4, <1>6, <2>1 DEF Group!SeatHeld, Holds
  <2> QED BY <1>8, <2>1 DEF GroupInv, SeatsAlone, Holds
<1>13. Typed'
  BY <1>5, <1>8 DEF GroupInv, Typed
<1>14. Group!SeatsMatch' /\ CreatorSits' /\ Group!CreatorOwns'
  BY <1>5 DEF GroupInv, Group!SeatsMatch, CreatorSits, Group!CreatorOwns, Group!IsMember
<1> QED BY <1>11, <1>12, <1>13, <1>14 DEF GroupInv

(* The end of a call that has written nothing of members or chat.           *)
LEMMA AloneKeeps ==
    ASSUME GroupInv, request' \in [Residents -> Requests],
           UNCHANGED <<creator, member, chat, hidden, crossed, raced, deposed>>,
           (\E k \in AnyCalls : Group!End(k)) \/ call' = call
    PROVE  GroupInv'
<1>1. \A v \in Residents : Stays(v)
  BY DEF Stays
<1>2. member' \in [Residents -> Seats]
  BY DEF GroupInv, Typed
<1>3. call' \in [AnyCalls -> Working \union {Group!Idle}] /\ CallsFit' /\ SeatsAlone'
  <2>1. ASSUME NEW k \in AnyCalls, Group!End(k)
        PROVE  call' \in [AnyCalls -> Working \union {Group!Idle}] /\ CallsFit' /\ SeatsAlone'
    BY <1>1, <1>2, <2>1, EndKeepsCalls
  <2>2. CASE call' = call
    BY <2>2 DEF GroupInv, Typed, CallsFit, SeatsAlone, SawFits, BeganFits, WriteFits,
       Group!IsMember, Holds
  <2> QED BY <2>1, <2>2
<1>4. Typed'
  BY <1>2, <1>3 DEF GroupInv, Typed
<1>5. Group!SeatsMatch' /\ CreatorSits' /\ Group!CreatorOwns'
  BY DEF GroupInv, Group!SeatsMatch, CreatorSits, Group!CreatorOwns, Group!IsMember
<1> QED BY <1>3, <1>4, <1>5 DEF GroupInv

(* Who is admitted: the seat he has been given, or had all along.           *)
LEMMA AdmitKeeps ==
    ASSUME GroupInv, NEW k \in AnyCalls, Group!Admit(k)
    PROVE  GroupInv'
<1>1. /\ call \in [AnyCalls -> Working \union {Group!Idle}] /\ member \in [Residents -> Seats]
      /\ request \in [Residents -> Requests] /\ creator \in Residents
  BY DEF GroupInv, Typed
<1>2. call[k] \in Working /\ call[k].step = "chat" /\ call[k].op \in {"join", "approve"}
  BY <1>1 DEF Group!Admit, Group!Idle
<1>3. PICK c \in Working : c = call[k]
  BY <1>2
<1> DEFINE u == c.of
<1>4. /\ u \in Residents
      /\ member' = IF c.do = "insert"
                   THEN [member EXCEPT ![u] = [id |-> @.id + 1, role |-> "member"]] ELSE member
      /\ chat' = chat \union {u}
      /\ crossed' = IF Group!Overtaken(c) THEN crossed \union {u} ELSE crossed
      /\ raced => raced'
      /\ UNCHANGED <<creator, hidden, deposed>>
      /\ Group!End(k)
  BY <1>2, <1>3 DEF Group!Admit, Group!Note, Working
<1>5. SawFits(c) /\ WriteFits(c)
  BY <1>2, <1>3 DEF GroupInv, CallsFit, Group!Idle
<1>6. /\ c.do = "insert" => ~Group!IsMember(u)
      /\ c.do \in {"insert", "none"}
      /\ c.do = "none" => Group!IsMember(u) \/ Group!Overtaken(c)
  <2>1. \/ c.do = "insert" /\ ~Group!IsMember(u)
        \/ /\ c.do = "none"
           /\ \/ Group!IsMember(u) \/ c.saw.seat.role # "none"
              \/ c.saw.seat.id < member[u].id
    BY <1>2, <1>3, <1>5 DEF WriteFits
  <2>2. c.saw.seat.id \in Nat /\ member[u].id \in Nat
    BY <1>1, <1>4 DEF Working, Seats
  <2>3. ~Group!IsMember(u) /\ (c.saw.seat.role # "none" \/ c.saw.seat.id < member[u].id)
          => c.saw.seat # member[u]
    BY <2>2 DEF Group!IsMember
  <2> QED BY <2>1, <2>3 DEF Group!Overtaken
<1>7. member[u] \in Seats /\ member[u].id + 1 \in Nat
  BY <1>1, <1>4 DEF Seats
<1>8. /\ member' \in [Residents -> Seats]
      /\ \A v \in Residents : v # u => member'[v] = member[v]
      /\ c.do = "insert" => member'[u] = [id |-> member[u].id + 1, role |-> "member"]
      /\ c.do # "insert" => member' = member
  <2>1. [id |-> member[u].id + 1, role |-> "member"] \in Seats
    BY <1>7 DEF Seats, Group!Roles
  <2> QED BY <1>1, <1>4, <2>1
<1>9. \A v \in Residents : Stays(v) \/ (Holds(call[k]) /\ call[k].of = v /\ (Comes(v) \/ Goes(v)))
  <2>1. c.do = "insert" => Comes(u) /\ Holds(c)
    BY <1>2, <1>3, <1>6, <1>8 DEF Comes, Holds
  <2> QED BY <1>3, <1>8, <2>1 DEF Stays
<1>10. call' \in [AnyCalls -> Working \union {Group!Idle}] /\ CallsFit' /\ SeatsAlone'
  BY <1>4, <1>8, <1>9, EndKeepsCalls
<1>11. request' \in [Residents -> Requests]
  <2>1. request[u] \in Requests
    BY <1>1, <1>4
  <2>2. [request[u] EXCEPT !.status = "approved"] \in Requests
    BY <2>1 DEF Requests
  <2>3. \/ request' = request
        \/ request' = [request EXCEPT ![u] = [request[u] EXCEPT !.status = "approved"]]
    BY <1>1, <1>3, <1>4 DEF Group!Admit
  <2> QED BY <1>1, <2>2, <2>3
<1>12. Typed'
  BY <1>1, <1>4, <1>8, <1>10, <1>11 DEF Typed
<1>13. Group!SeatsMatch'
  BY <1>4, <1>6, <1>8 DEF GroupInv, Group!SeatsMatch, Group!IsMember
<1>14. CreatorSits' /\ Group!CreatorOwns'
  <2>1. member[creator].role = "owner" => member'[creator].role = "owner"
    BY <1>1, <1>4, <1>6, <1>8 DEF Group!IsMember
  <2> QED BY <1>4, <2>1 DEF GroupInv, CreatorSits, Group!CreatorOwns
<1> QED BY <1>10, <1>12, <1>13, <1>14 DEF GroupInv

(* Who goes: his seat is gone, unless another has been given in between.    *)
LEMMA PartKeeps ==
    ASSUME GroupInv, NEW k \in AnyCalls, Group!Part(k)
    PROVE  GroupInv'
<1>1. /\ call \in [AnyCalls -> Working \union {Group!Idle}] /\ member \in [Residents -> Seats]
      /\ request \in [Residents -> Requests] /\ creator \in Residents
  BY DEF GroupInv, Typed
<1>2. call[k] \in Working /\ call[k].step = "chat" /\ call[k].op \in {"leave", "remove", "expel"}
  BY <1>1 DEF Group!Part, Group!Idle
<1>3. PICK c \in Working : c = call[k]
  BY <1>2
<1> DEFINE u == c.of
<1>4. /\ u \in Residents
      /\ member' = IF c.do = "delete" THEN [member EXCEPT ![u] = [member[u] EXCEPT !.role = "none"]]
                   ELSE member
      /\ chat' = chat \ {u}
      /\ deposed' = IF c.op = "expel" /\ creator = u THEN deposed \union {u} ELSE deposed
      /\ Group!Note(c)
      /\ UNCHANGED <<creator, request, hidden>>
      /\ Group!End(k)
  BY <1>1, <1>2, <1>3 DEF Group!Part, Working
<1>5. SawFits(c) /\ BeganFits(c) /\ WriteFits(c)
  BY <1>2, <1>3 DEF GroupInv, CallsFit, Group!Idle
<1>6. \/ c.do = "delete" /\ Group!IsMember(u)
      \/ /\ c.do = "none"
         /\ ~Group!IsMember(u) \/ c.saw.seat.id < member[u].id
  BY <1>2, <1>3, <1>5 DEF WriteFits
<1>7. c.do = "none" => ~Group!IsMember(u) \/ Group!Overtaken(c)
  <2>1. c.saw.seat.id \in Nat /\ member[u].id \in Nat
    BY <1>1, <1>4 DEF Working, Seats
  <2> QED BY <1>6, <2>1 DEF Group!Overtaken
<1>8. /\ member' \in [Residents -> Seats]
      /\ \A v \in Residents : v # u => member'[v] = member[v]
      /\ c.do = "delete" => member'[u].role = "none" /\ member'[u].id = member[u].id
      /\ c.do # "delete" => member' = member
  <2>1. member[u] \in Seats
    BY <1>1, <1>4
  <2>2. /\ [member[u] EXCEPT !.role = "none"] \in Seats
        /\ [member[u] EXCEPT !.role = "none"].role = "none"
        /\ [member[u] EXCEPT !.role = "none"].id = member[u].id
    BY <2>1 DEF Seats
  <2> QED BY <1>1, <1>4, <2>2
<1>9. \A v \in Residents : Stays(v) \/ (Holds(call[k]) /\ call[k].of = v /\ (Comes(v) \/ Goes(v)))
  <2>1. c.do = "delete" => Goes(u) /\ Holds(c)
    BY <1>2, <1>3, <1>6, <1>8 DEF Goes, Holds
  <2> QED BY <1>3, <1>8, <2>1 DEF Stays
<1>10. call' \in [AnyCalls -> Working \union {Group!Idle}] /\ CallsFit' /\ SeatsAlone'
  BY <1>4, <1>8, <1>9, EndKeepsCalls
<1>12. Typed'
  BY <1>1, <1>4, <1>8, <1>10 DEF Typed
<1>13. Group!SeatsMatch'
  BY <1>4, <1>6, <1>7, <1>8 DEF GroupInv, Group!SeatsMatch, Group!IsMember, Group!Note
<1>14. CreatorSits' /\ Group!CreatorOwns'
  <2>1. CASE c.do # "delete" \/ creator # u
    <3>1. member'[creator] = member[creator]
      BY <1>1, <1>8, <2>1
    <3> QED BY <1>4, <3>1 DEF GroupInv, CreatorSits, Group!CreatorOwns, Group!Note
  <2>2. CASE creator = u /\ c.op = "leave"
    <3>1. Group!Overtaken(c) /\ c.saw.creator # creator
      BY <1>5, <2>2 DEF BeganFits, Group!Overtaken
    <3>2. member[creator].role = "owner" => raced'
      BY <1>4, <2>2, <3>1 DEF Group!Note
    <3>3. creator \in crossed'
      BY <1>4, <2>2, <3>1 DEF Group!Note
    <3>4. raced => raced'
      BY <1>4 DEF Group!Note
    <3> QED BY <1>4, <3>2, <3>3, <3>4 DEF GroupInv, CreatorSits, Group!CreatorOwns
  <2>3. CASE creator = u /\ c.op = "expel"
    BY <1>4, <2>3 DEF CreatorSits, Group!CreatorOwns
  <2>4. CASE creator = u /\ c.op = "remove"
    <3>1. c.saw.seat.role # "owner" /\ u \notin c.saw.owners
      BY <1>5, <2>4 DEF BeganFits, SawFits
    <3>2. ASSUME member[u].role = "owner" PROVE Group!Overtaken(c) /\ raced'
      <4>1. u \in Group!Owners
        BY <1>4, <3>2 DEF Group!Owners
      <4> QED BY <1>4, <3>1, <3>2, <4>1 DEF Group!Overtaken, Group!Note
    <3>3. (raced => raced') /\ crossed \subseteq crossed' /\ (Group!Overtaken(c) => u \in crossed')
      BY <1>4 DEF Group!Note
    <3> QED BY <1>4, <2>4, <3>2, <3>3 DEF GroupInv, CreatorSits, Group!CreatorOwns
  <2> QED BY <1>2, <1>3, <2>1, <2>2, <2>3, <2>4
<1> QED BY <1>10, <1>12, <1>13, <1>14 DEF GroupInv

(* A role is given to the row that was read; an owner may lose his.         *)
LEMMA SetRoleKeeps ==
    ASSUME GroupInv, NEW k \in AnyCalls, Group!SetRole(k)
    PROVE  GroupInv'
<1>1. /\ call \in [AnyCalls -> Working \union {Group!Idle}] /\ member \in [Residents -> Seats]
      /\ request \in [Residents -> Requests] /\ creator \in Residents
  BY DEF GroupInv, Typed
<1>2. call[k] \in Working /\ call[k].op \in Group!Roles
  BY <1>1 DEF Group!SetRole, Group!Idle, Group!Roles
<1>3. PICK c \in Working : c = call[k]
  BY <1>2
<1> DEFINE u == c.of
<1>4. /\ u \in Residents /\ c.op \in Group!Roles
      /\ Group!IsMember(u) /\ ~Group!SeatHeld(u)
      /\ member' = [member EXCEPT ![u] = [member[u] EXCEPT !.role = c.op]]
      /\ deposed' = IF creator = u /\ c.saw.creator = u /\ c.op # "owner"
                    THEN deposed \union {u} ELSE deposed
      /\ Group!Note(c)
      /\ UNCHANGED <<creator, chat, request, hidden>>
      /\ Group!End(k)
  BY <1>1, <1>2, <1>3 DEF Group!SetRole, Working
<1>5. /\ member' \in [Residents -> Seats]
      /\ \A v \in Residents : v # u => member'[v] = member[v]
      /\ member'[u].role = c.op /\ member'[u].role # "none" /\ member'[u].id = member[u].id
  <2>1. member[u] \in Seats
    BY <1>1, <1>4
  <2>2. /\ [member[u] EXCEPT !.role = c.op] \in Seats
        /\ [member[u] EXCEPT !.role = c.op].role = c.op
        /\ [member[u] EXCEPT !.role = c.op].id = member[u].id
    BY <1>4, <2>1 DEF Seats
  <2>3. c.op # "none"
    BY <1>4 DEF Group!Roles
  <2> QED BY <1>1, <1>4, <2>2, <2>3
<1>6. \A v \in Residents : Stays(v)
  BY <1>4, <1>5 DEF Stays
<1>7. call' \in [AnyCalls -> Working \union {Group!Idle}] /\ CallsFit' /\ SeatsAlone'
  BY <1>4, <1>5, <1>6, EndKeepsCalls
<1>8. Typed'
  BY <1>1, <1>4, <1>5, <1>7 DEF Typed
<1>9. Group!SeatsMatch'
  BY <1>4, <1>5 DEF GroupInv, Group!SeatsMatch, Group!IsMember, Group!Note
<1>10. CreatorSits' /\ Group!CreatorOwns'
  <2>0. (raced => raced') /\ crossed \subseteq crossed' /\ deposed \subseteq deposed'
    BY <1>4 DEF Group!Note
  <2>1. CASE creator # u
    <3>1. member'[creator] = member[creator]
      BY <1>1, <1>5, <2>1
    <3> QED BY <1>4, <2>0, <3>1 DEF GroupInv, CreatorSits, Group!CreatorOwns
  <2>2. CASE creator = u /\ c.op = "owner"
    BY <1>4, <1>5, <2>2 DEF CreatorSits, Group!CreatorOwns
  <2>3. CASE creator = u /\ c.saw.creator = u /\ c.op # "owner"
    BY <1>4, <2>3 DEF CreatorSits, Group!CreatorOwns
  <2>4. CASE creator = u /\ c.saw.creator # u
    <3>1. u \in crossed' /\ (member[u].role = "owner" => raced')
      BY <1>4, <2>4 DEF Group!Note, Group!Overtaken
    <3> QED BY <1>4, <2>0, <2>4, <3>1 DEF GroupInv, CreatorSits, Group!CreatorOwns
  <2> QED BY <2>1, <2>2, <2>3, <2>4
<1> QED BY <1>7, <1>8, <1>9, <1>10 DEF GroupInv

(* Nobody gains or loses a seat, and the new creator owns.                  *)
LEMMA TransferKeeps ==
    ASSUME GroupInv, NEW k \in AnyCalls, Group!TransferOwnership(k)
    PROVE  GroupInv'
<1>1. /\ call \in [AnyCalls -> Working \union {Group!Idle}] /\ member \in [Residents -> Seats]
      /\ request \in [Residents -> Requests] /\ creator \in Residents
  BY DEF GroupInv, Typed
<1>2. call[k] \in Working
  BY <1>1 DEF Group!TransferOwnership, Group!Idle
<1>3. PICK c \in Working : c = call[k]
  BY <1>2
<1> DEFINE u == c.of
<1>4. /\ u \in Residents /\ Group!IsMember(u)
      /\ creator' = u
      /\ member' = Group!Handed(u)
      /\ UNCHANGED <<chat, request, hidden, crossed, raced, deposed>>
      /\ Group!End(k)
  BY <1>3 DEF Group!TransferOwnership, Working, Group!history
<1>5. \A v \in Residents :
        /\ member'[v] \in Seats /\ member'[v].id = member[v].id
        /\ member'[v].role = "none" <=> member[v].role = "none"
        /\ v = u => member'[v].role = "owner"
        /\ member'[v] = member[v] \/ Group!IsMember(v)
  <2> TAKE v \in Residents
  <2>1. member[v] \in Seats
    BY <1>1
  <2>2. \A r \in Group!Roles : /\ [member[v] EXCEPT !.role = r] \in Seats
                         /\ [member[v] EXCEPT !.role = r].role = r
                         /\ [member[v] EXCEPT !.role = r].id = member[v].id
    BY <2>1 DEF Seats
  <2>3. "owner" \in Group!Roles /\ "moderator" \in Group!Roles
    BY DEF Group!Roles
  <2>4. member'[v] = IF v = u THEN [member[v] EXCEPT !.role = "owner"]
                     ELSE IF v \in Group!Owners THEN [member[v] EXCEPT !.role = "moderator"]
                     ELSE member[v]
    BY <1>4 DEF Group!Handed
  <2>5. v = u \/ v \in Group!Owners => Group!IsMember(v)
    BY <1>4 DEF Group!Owners, Group!IsMember
  <2> QED BY <2>1, <2>2, <2>3, <2>4, <2>5 DEF Group!IsMember
<1>6. member' \in [Residents -> Seats]
  BY <1>4, <1>5 DEF Group!Handed
<1>7. \A v \in Residents : Stays(v)
  BY <1>5 DEF Stays, Group!IsMember
<1>8. call' \in [AnyCalls -> Working \union {Group!Idle}] /\ CallsFit' /\ SeatsAlone'
  BY <1>4, <1>6, <1>7, EndKeepsCalls
<1>9. Typed'
  BY <1>1, <1>4, <1>6, <1>8 DEF Typed
<1>10. Group!SeatsMatch'
  BY <1>4, <1>5 DEF GroupInv, Group!SeatsMatch, Group!IsMember
<1>11. CreatorSits' /\ Group!CreatorOwns'
  BY <1>4, <1>5 DEF CreatorSits, Group!CreatorOwns
<1> QED BY <1>8, <1>9, <1>10, <1>11 DEF GroupInv

(* Who is back in the chat has a seat, or lost it while he waited.          *)
LEMMA RestoreKeeps ==
    ASSUME GroupInv, NEW k \in AnyCalls, Group!Restore(k)
    PROVE  GroupInv'
<1>1. /\ call \in [AnyCalls -> Working \union {Group!Idle}] /\ member \in [Residents -> Seats]
      /\ request \in [Residents -> Requests] /\ creator \in Residents
  BY DEF GroupInv, Typed
<1>2. call[k] \in Working
  BY <1>1 DEF Group!Restore, Group!Idle
<1>3. PICK c \in Working : c = call[k]
  BY <1>2
<1> DEFINE u == c.of
<1>4. /\ u \in Residents /\ c.op = "restore"
      /\ chat' = chat \union {u}
      /\ crossed' = IF Group!Overtaken(c) THEN crossed \union {u} ELSE crossed
      /\ UNCHANGED <<creator, member, request, hidden, raced, deposed>>
      /\ Group!End(k)
  BY <1>3 DEF Group!Restore, Working
<1>5. BeganFits(c)
  BY <1>2, <1>3, <1>4 DEF GroupInv, CallsFit, Group!Idle
<1>6. call' \in [AnyCalls -> Working \union {Group!Idle}] /\ CallsFit' /\ SeatsAlone'
  <2>1. \A v \in Residents : Stays(v)
    BY <1>4 DEF Stays
  <2> QED BY <1>1, <1>4, <2>1, EndKeepsCalls
<1>7. Typed'
  BY <1>1, <1>4, <1>6 DEF Typed
<1>8. Group!IsMember(u) \/ u \in deposed \/ u \in crossed'
  <2>1. CASE Group!Overtaken(c)
    BY <1>4, <2>1
  <2>2. CASE ~Group!Overtaken(c)
    <3>1. c.saw.seat = member[u] /\ (c.saw.creator = u <=> creator = u)
      BY <2>2 DEF Group!Overtaken
    <3>2. creator = u \/ Group!IsMember(u)
      BY <1>4, <1>5, <3>1 DEF BeganFits, Group!IsMember
    <3> QED BY <1>4, <3>2 DEF GroupInv, CreatorSits, Group!IsMember
  <2> QED BY <2>1, <2>2
<1>9. Group!SeatsMatch'
  BY <1>4, <1>8 DEF GroupInv, Group!SeatsMatch, Group!IsMember
<1>10. CreatorSits' /\ Group!CreatorOwns'
  BY <1>4 DEF GroupInv, CreatorSits, Group!CreatorOwns
<1> QED BY <1>6, <1>7, <1>9, <1>10 DEF GroupInv

LEMMA HideKeeps ==
    ASSUME GroupInv, NEW u \in Residents, Group!HideChat(u)
    PROVE  GroupInv'
<1>1. /\ chat' = chat \ {u} /\ hidden' = hidden \union {u}
      /\ UNCHANGED <<creator, member, request, call, crossed, raced, deposed>>
  BY DEF Group!HideChat
<1>2. Typed' /\ SeatsAlone'
  BY <1>1 DEF GroupInv, Typed, SeatsAlone, Holds
<1>3. CallsFit'
  BY <1>1 DEF GroupInv, CallsFit, SawFits, BeganFits, WriteFits, Group!IsMember
<1>4. Group!SeatsMatch' /\ CreatorSits' /\ Group!CreatorOwns'
  BY <1>1 DEF GroupInv, Group!SeatsMatch, CreatorSits, Group!CreatorOwns, Group!IsMember
<1> QED BY <1>2, <1>3, <1>4 DEF GroupInv

(* Calls that write nothing but a request, the privacy, or nothing at all.  *)
LEMMA RequestsKeep ==
    ASSUME GroupInv,
           \/ \E k \in AnyCalls : Group!Request(k) \/ Group!Reject(k) \/ Group!Fail(k)
           \/ \E u \in Residents : Group!CancelJoinRequest(u)
           \/ \E p \in {"public", "private"} : Group!SetPrivacy(p)
    PROVE  GroupInv'
<1>1. /\ UNCHANGED <<creator, member, chat, hidden, crossed, raced, deposed>>
      /\ (\E k \in AnyCalls : Group!End(k)) \/ call' = call
  BY DEF Group!Request, Group!Reject, Group!Fail, Group!CancelJoinRequest,
     Group!SetPrivacy, Group!history
<1>2. request \in [Residents -> Requests] /\ call \in [AnyCalls -> Working \union {Group!Idle}]
  BY DEF GroupInv, Typed
<1>3. request' \in [Residents -> Requests]
  <2>1. ASSUME NEW u \in Residents, NEW st \in {"none", "pending", "approved", "rejected"}
        PROVE  /\ [request EXCEPT ![u].status = st] \in [Residents -> Requests]
               /\ [request EXCEPT ![u] = [id |-> IF @.status = "none" THEN @.id + 1 ELSE @.id,
                                          status |-> "pending"]] \in [Residents -> Requests]
    <3>1. request[u] \in Requests /\ request[u].id \in Nat
      BY <1>2 DEF Requests
    <3>2. [request[u] EXCEPT !.status = st] \in Requests
      BY <3>1 DEF Requests
    <3>3. [id |-> IF request[u].status = "none" THEN request[u].id + 1 ELSE request[u].id,
           status |-> "pending"] \in Requests
      BY <3>1 DEF Requests
    <3> QED BY <1>2, <3>2, <3>3
  <2>2. CASE \E k \in AnyCalls : Group!Request(k)
    <3>1. PICK k \in AnyCalls : Group!Request(k)
      BY <2>2
    <3>2. call[k].of \in Residents
      BY <1>2, <3>1 DEF Group!Request, Group!Idle, Working
    <3> QED BY <2>1, <3>1, <3>2 DEF Group!Request
  <2>3. CASE \E k \in AnyCalls : Group!Reject(k)
    <3>1. PICK k \in AnyCalls : Group!Reject(k)
      BY <2>3
    <3>2. call[k].of \in Residents
      BY <1>2, <3>1 DEF Group!Reject, Group!Idle, Working
    <3> QED BY <2>1, <3>1, <3>2 DEF Group!Reject
  <2>4. CASE \E u \in Residents : Group!CancelJoinRequest(u)
    <3>1. PICK u \in Residents : Group!CancelJoinRequest(u)
      BY <2>4
    <3>2. request' = [request EXCEPT ![u].status = "none"]
      BY <3>1 DEF Group!CancelJoinRequest
    <3> QED BY <2>1, <3>2
  <2>5. CASE UNCHANGED request
    BY <1>2, <2>5
  <2> QED BY <2>2, <2>3, <2>4, <2>5 DEF Group!Fail, Group!SetPrivacy
<1> QED BY <1>1, <1>3, AloneKeeps

-----------------------------------------------------------------------------
LEMMA GroupBegins ==
    ASSUME Group!Init
    PROVE  GroupInv
<1>1. Typed
  BY FounderLives DEF Group!Init, Typed, Seats, Requests, Group!Roles
<1>2. CallsFit /\ SeatsAlone
  BY DEF Group!Init, CallsFit, SeatsAlone, Holds, Group!Idle
<1>3. Group!SeatsMatch /\ CreatorSits /\ Group!CreatorOwns
  BY FounderLives DEF Group!Init, Group!SeatsMatch, CreatorSits, Group!CreatorOwns, Group!IsMember
<1> QED BY <1>1, <1>2, <1>3 DEF GroupInv

LEMMA GroupStepKeeps ==
    ASSUME GroupInv, [Group!Next]_Group!vars
    PROVE  GroupInv'
<1>1. CASE UNCHANGED Group!vars
  <2>1. Typed' /\ SeatsAlone'
    BY <1>1 DEF Group!vars, GroupInv, Typed, SeatsAlone, Holds
  <2>2. CallsFit'
    BY <1>1 DEF Group!vars, GroupInv, CallsFit, SawFits, BeganFits, WriteFits,
       Group!IsMember
  <2>3. Group!SeatsMatch' /\ CreatorSits' /\ Group!CreatorOwns'
    BY <1>1 DEF Group!vars, GroupInv, Group!SeatsMatch, CreatorSits, Group!CreatorOwns,
       Group!IsMember
  <2> QED BY <2>1, <2>2, <2>3 DEF GroupInv
<1>2. ASSUME NEW k \in AnyCalls, NEW u \in Residents,
             \/ Group!BeginJoin(k, u) \/ Group!BeginRequest(k, u) \/ Group!BeginLeave(k, u)
             \/ Group!BeginExpel(k, u) \/ Group!BeginRestore(k, u)
      PROVE  GroupInv'
  BY <1>2, BeginKeeps DEF Group!BeginJoin, Group!BeginRequest, Group!BeginLeave,
     Group!BeginExpel, Group!BeginRestore
<1>3. ASSUME NEW k \in AnyCalls, NEW u \in Residents, NEW a \in Residents,
             NEW role \in Group!Roles,
             Group!BeginAppoint(k, u, role) \/ Group!BeginRole(k, a, u, role)
      PROVE  GroupInv'
  <2>1. role # "leave" /\ role # "remove" /\ role # "restore"
    BY DEF Group!Roles
  <2> QED BY <1>3, <2>1, BeginKeeps DEF Group!BeginAppoint, Group!BeginRole
<1>4. ASSUME NEW k \in AnyCalls, NEW u \in Residents, NEW a \in Residents,
             NEW op \in {"approve", "reject"},
             \/ Group!BeginReview(k, a, u, op)
             \/ Group!BeginRemove(k, a, u)
             \/ Group!BeginTransfer(k, a, u)
      PROVE  GroupInv'
  BY <1>4, BeginKeeps DEF Group!BeginReview, Group!BeginRemove, Group!BeginTransfer
<1>5. CASE Group!Next
  BY <1>2, <1>3, <1>4, <1>5, HoldKeeps, AdmitKeeps, PartKeeps, SetRoleKeeps, TransferKeeps,
     RestoreKeeps, HideKeeps, RequestsKeep DEF Group!Next
<1> QED BY <1>1, <1>5

LEMMA GroupSteps ==
    ASSUME focus = "group", [Next]_<<focus, everything>>
    PROVE  [Group!Next]_Group!vars
<1>1. CASE UNCHANGED <<focus, everything>>
  BY <1>1 DEF everything, Group!vars
<1>2. CASE Next
  BY <1>2 DEF Next
<1> QED BY <1>1, <1>2

(* A member is in the community's chat and who is in it is a member, and     *)
(* the creator owns it, whatever calls overlap.                              *)
THEOREM CommunityIsHeld == Spec => []CommunityHolds
<1>1. Init => (focus = "group" => GroupInv)
  BY GroupBegins DEF Init
<1>2. (focus = "group" => GroupInv) /\ [Next]_<<focus, everything>>
        => (focus = "group" => GroupInv)'
  <2> SUFFICES ASSUME focus = "group" => GroupInv, [Next]_<<focus, everything>>,
                      focus' = "group"
               PROVE  GroupInv'
    OBVIOUS
  <2>1. focus = "group" /\ GroupInv
    BY DEF Next
  <2>2. [Group!Next]_Group!vars
    BY <2>1, GroupSteps
  <2> QED BY <2>1, <2>2, GroupStepKeeps
<1>3. (focus = "group" => GroupInv) => CommunityHolds
  BY DEF CommunityHolds, GroupInv, Group!CommunityHolds
<1> QED BY <1>1, <1>2, <1>3, PTL DEF Spec

-----------------------------------------------------------------------------
(* A participant's code for an offer, for all calls and bounds.              *)

code == v1
over == v2
tracked == v4
attempts == v5
asking == v6
used == v9
told == v10
served == v11
unsaid == v12
USE DEF code, over, tracked, attempts, asking, used, told, served, unsaid

OfferRequests == [at : {"idle", "create", "look", "expire", "use", "track"}]

(* A code is used once, and what is on the way about it says so: who has    *)
(* seen it expired has seen the evening over, who is to track has used it   *)
(* and is the only one; attempts let through are attempts.                  *)
OfferInv ==
    /\ code \in {"none", "issued", "activated", "expired"} /\ over \in BOOLEAN
    /\ asking \in [AnyCalls -> OfferRequests]
    /\ tracked \in Nat /\ attempts \in Nat /\ told \in Nat /\ served \in Nat
    /\ used = IF code = "activated" THEN 1 ELSE 0
    /\ told <= used /\ tracked <= used /\ served <= attempts /\ served <= MaxOfferAttempts
    /\ code = "expired" => over
    /\ \A c \in AnyCalls : asking[c].at = "expire" => over
    /\ \A c \in AnyCalls : asking[c].at = "track" =>
          /\ used = 1 /\ told = 0 /\ tracked = 0
          /\ \A d \in AnyCalls : asking[d].at = "track" => d = c
    /\ tracked = used \/ unsaid \/ \E c \in AnyCalls : asking[c].at = "track"

LEMMA OfferBegins ==
    ASSUME Offer!Init PROVE OfferInv
<1>1. Offer!Idle \in OfferRequests /\ Offer!Idle.at = "idle"
  BY DEF OfferRequests, Offer!Idle
<1>2. asking \in [AnyCalls -> OfferRequests] /\ \A c \in AnyCalls : asking[c].at = "idle"
  BY <1>1 DEF Offer!Init
<1>3. over \in BOOLEAN /\ code = "none"
  BY DEF Offer!Init
<1>4. /\ tracked \in Nat /\ attempts \in Nat /\ told \in Nat /\ served \in Nat
      /\ used = 0 /\ tracked = 0 /\ told <= used /\ tracked <= used
      /\ served <= attempts /\ served <= MaxOfferAttempts
  BY BoundsFit DEF Offer!Init
<1> QED BY <1>2, <1>3, <1>4 DEF OfferInv

LEMMA OfferStepKeeps ==
    ASSUME OfferInv, [Offer!Next]_Offer!vars PROVE OfferInv'
<1> USE BoundsFit
<1>0. Offer!Idle \in OfferRequests /\ Offer!Idle.at = "idle"
  BY DEF OfferRequests, Offer!Idle
<1>1. CASE UNCHANGED Offer!vars
  BY <1>1 DEF Offer!vars, OfferInv
<1>2. ASSUME NEW c \in AnyCalls, Offer!BeginIssue(c) PROVE OfferInv'
  BY <1>0, <1>2 DEF Offer!BeginIssue, Offer!Begin, OfferInv, OfferRequests
<1>3. ASSUME NEW c \in AnyCalls, Offer!Create(c) PROVE OfferInv'
  BY <1>0, <1>3 DEF Offer!Create, OfferInv
<1>4. ASSUME NEW c \in AnyCalls, Offer!BeginActivate(c) PROVE OfferInv'
  BY <1>0, <1>4 DEF Offer!BeginActivate, Offer!Begin, OfferInv, OfferRequests
<1>5. ASSUME NEW c \in AnyCalls, Offer!Look(c) PROVE OfferInv'
  <2>1. PICK r \in OfferRequests :
        /\ asking' = [asking EXCEPT ![c] = r]
        /\ r.at \in {"idle", "use", "expire"}
        /\ r.at = "expire" => code = "expired" \/ over
    <3>1. [at |-> "use"] \in OfferRequests /\ [at |-> "expire"] \in OfferRequests
      BY DEF OfferRequests
    <3> QED BY <1>0, <1>5, <3>1 DEF Offer!Look, Offer!Status
  <2>2. UNCHANGED <<code, over, tracked, attempts, used, told, served, unsaid>>
    BY <1>5 DEF Offer!Look
  <2>3. /\ asking' \in [AnyCalls -> OfferRequests] /\ asking[c].at = "look"
        /\ \A d \in AnyCalls : asking'[d] = IF d = c THEN r ELSE asking[d]
    <3>1. asking \in [AnyCalls -> OfferRequests]
      BY DEF OfferInv
    <3>2. asking[c].at = "look"
      BY <1>5 DEF Offer!Look
    <3> QED BY <2>1, <3>1, <3>2
  <2>4. /\ code' \in {"none", "issued", "activated", "expired"} /\ over' \in BOOLEAN
        /\ tracked' \in Nat /\ attempts' \in Nat /\ told' \in Nat /\ served' \in Nat
        /\ used' = IF code' = "activated" THEN 1 ELSE 0
        /\ told' <= used' /\ tracked' <= used' /\ served' <= attempts' /\ served' <= MaxOfferAttempts
        /\ code' = "expired" => over'
    BY <2>2 DEF OfferInv
  <2>5. \A d \in AnyCalls : asking'[d].at \in {"track", "expire"} =>
                             asking'[d] = asking[d] \/ (d = c /\ asking'[d].at = "expire" /\ over)
    BY <2>1, <2>3 DEF OfferInv
  <2>6. \A d \in AnyCalls : asking[d].at = "track" => asking'[d] = asking[d]
    BY <2>3
  <2> QED BY <2>2, <2>3, <2>4, <2>5, <2>6 DEF OfferInv
<1>6. ASSUME NEW c \in AnyCalls, Offer!Expire(c) PROVE OfferInv'
  BY <1>0, <1>6 DEF Offer!Expire, Offer!Usable, OfferInv
<1>7. ASSUME NEW c \in AnyCalls, Offer!Use(c) PROVE OfferInv'
  BY <1>0, <1>7 DEF Offer!Use, Offer!Usable, OfferInv, OfferRequests
<1>8. ASSUME NEW c \in AnyCalls, Offer!Track(c) PROVE OfferInv'
  BY <1>0, <1>8 DEF Offer!Track, OfferInv
<1>9. ASSUME NEW c \in AnyCalls, Offer!Fail(c) PROVE OfferInv'
  BY <1>0, <1>9 DEF Offer!Fail, OfferInv
<1>10. CASE Offer!EndOfEvening \/ Offer!Leave
  BY <1>10 DEF Offer!EndOfEvening, Offer!Leave, OfferInv
<1>11. CASE Offer!NewWindow
  BY <1>11 DEF Offer!NewWindow, OfferInv
<1> QED BY <1>1, <1>2, <1>3, <1>4, <1>5, <1>6, <1>7, <1>8, <1>9, <1>10, <1>11 DEF Offer!Next

LEMMA CodesHoldFollows ==
    ASSUME OfferInv PROVE Offer!CodesHold
BY DEF OfferInv, Offer!CodesHold

LEMMA OfferSteps ==
    ASSUME focus = "offer", [Next]_<<focus, everything>>
    PROVE  [Offer!Next]_Offer!vars
<1>1. CASE UNCHANGED <<focus, everything>>
  BY <1>1 DEF everything, Offer!vars
<1>2. CASE Next
  BY <1>2 DEF Next
<1> QED BY <1>1, <1>2

LEMMA OfferKept == Spec => [](focus = "offer" => OfferInv)
<1>1. Init => (focus = "offer" => OfferInv)
  BY OfferBegins DEF Init
<1>2. (focus = "offer" => OfferInv) /\ [Next]_<<focus, everything>>
        => (focus = "offer" => OfferInv)'
  <2> SUFFICES ASSUME focus = "offer" => OfferInv, [Next]_<<focus, everything>>,
                      focus' = "offer"
               PROVE  OfferInv'
    OBVIOUS
  <2>1. focus = "offer" /\ OfferInv
    BY DEF Next
  <2>2. [Offer!Next]_Offer!vars
    BY <2>1, OfferSteps
  <2> QED BY <2>1, <2>2, OfferStepKeeps
<1> QED BY <1>1, <1>2, PTL DEF Spec

-----------------------------------------------------------------------------
(* A partner's account and portal, for all calls and bounds.                 *)

account == v1
partners == v2
live == v3
meetups == v4
open == v5
hosts == v7
late == v8
halfway == v9
crossing == v10
canceled == v11
USE DEF account, partners, live, meetups, open, hosts, late, halfway,
        crossing, canceled

PartnerRows == [active : BOOLEAN, host : BOOLEAN]
MeetupRows == [partner : Nat, canceled : BOOLEAN, seat : BOOLEAN, member : BOOLEAN,
               request : {"none", "pending", "approved", "rejected", "canceled"}]
PortalCalls ==
    [at : {"idle", "register", "login", "revoke"}]
        \union [at : {"host"}, partner : Nat]
        \union [at : {"meetup"}, partner : Nat, make : BOOLEAN]
        \union [at : {"review"}, meetup : Nat, verdict : {"approved", "rejected"}]
        \union [at : {"cancel", "withdraw"}, meetup : Nat]

PortalTyped ==
    /\ account \in [status : {"none", "pending", "approved", "rejected", "suspended"},
                    partner : Nat]
    /\ open \in [AnyCalls -> PortalCalls]
    /\ live \in Seq(BOOLEAN)
    /\ partners \in Seq(PartnerRows) /\ hosts \in Seq(Nat) /\ Len(hosts) = Len(partners)
    /\ meetups \in Seq(MeetupRows) /\ canceled \in Seq(Nat) /\ Len(canceled) = Len(meetups)

(* Whoever signs in has an account, which is never deleted.                 *)
Registered == account.status # "none"

SessionsEnd ==
    /\ account = Portal!NoAccount \/ Registered
    /\ live # <<>> => Registered
    /\ \A c \in AnyCalls : open[c].at = "login" => Registered
    /\ account.status = "suspended" =>
          \/ \E c \in AnyCalls : open[c].at = "revoke"
          \/ \A s \in 1 .. Len(live) : live[s] => s \in late \union halfway

(* What a call has read of its partner stays: partners are not deleted, and *)
(* a host user stays.                                                       *)
OneHost ==
    /\ account.partner <= Len(partners)
    /\ \A c \in AnyCalls :
          /\ open[c].at \in {"host", "meetup"} => open[c].partner \in 1 .. Len(partners)
          /\ open[c].at = "meetup" => open[c].make \/ partners[open[c].partner].host
    /\ \A p \in 1 .. Len(partners) : hosts[p] = (IF partners[p].host THEN 1 ELSE 0)

SeatsReviewed ==
    /\ \A c \in AnyCalls :
          open[c].at \in {"review", "cancel", "withdraw"} => open[c].meetup \in 1 .. Len(meetups)
    /\ \A m \in 1 .. Len(meetups) :
          /\ meetups[m].partner \in 1 .. Len(partners) /\ partners[meetups[m].partner].host
          /\ meetups[m].seat <=> meetups[m].member
          /\ meetups[m].request = "approved" => meetups[m].seat
          /\ meetups[m].seat => meetups[m].request = "approved" \/ m \in crossing
          /\ canceled[m] = (IF meetups[m].canceled THEN 1 ELSE 0)

PartnerInv == PortalTyped /\ SessionsEnd /\ OneHost /\ SeatsReviewed

(* A call began that knows nothing, went on as it was, or ended.            *)
CallsGoOn ==
    \A c \in AnyCalls : open'[c] = open[c] \/ open'[c].at \in {"idle", "register", "revoke"}

-----------------------------------------------------------------------------
LEMMA SessionsFrame ==
    ASSUME SessionsEnd, UNCHANGED <<account, live, late, halfway>>,
           \A c \in AnyCalls : open'[c].at = "login" => open[c].at = "login" \/ Registered,
           \A c \in AnyCalls : open[c].at = "revoke" => open'[c].at = "revoke"
    PROVE  SessionsEnd'
BY DEF SessionsEnd, Registered

LEMMA HostsFrame ==
    ASSUME OneHost, UNCHANGED <<account, partners, hosts>>,
           \A c \in AnyCalls : open'[c] = open[c] \/ open'[c].at \notin {"host", "meetup"}
    PROVE  OneHost'
BY DEF OneHost

LEMMA MeetupsFrame ==
    ASSUME SeatsReviewed, UNCHANGED <<partners, meetups, crossing, canceled>>,
           \A c \in AnyCalls :
               open'[c] = open[c] \/ open'[c].at \notin {"review", "cancel", "withdraw"}
    PROVE  SeatsReviewed'
BY DEF SeatsReviewed

LEMMA PortalIdle == Portal!Idle \in PortalCalls /\ Portal!Idle.at = "idle"
BY DEF Portal!Idle, PortalCalls

Verdicts == {"none", "pending", "approved", "rejected", "canceled"}

(* A meetup after an answer to its request, or after its cancellation.      *)
LEMMA RowAnswered ==
    ASSUME NEW r \in MeetupRows, NEW q \in Verdicts
    PROVE  \E x \in MeetupRows :
              /\ x = [r EXCEPT !.request = q]
              /\ x.request = q /\ x.partner = r.partner /\ x.canceled = r.canceled
              /\ x.seat = r.seat /\ x.member = r.member
<1> DEFINE x == [r EXCEPT !.request = q]
<1>1. x \in MeetupRows
  BY DEF MeetupRows, Verdicts
<1>2. /\ x.request = q /\ x.partner = r.partner /\ x.canceled = r.canceled
      /\ x.seat = r.seat /\ x.member = r.member
  BY DEF MeetupRows
<1> QED BY <1>1, <1>2

LEMMA RowSeated ==
    ASSUME NEW r \in MeetupRows
    PROVE  \E x \in MeetupRows :
              /\ x = [r EXCEPT !.request = "approved", !.seat = TRUE, !.member = TRUE]
              /\ x.request = "approved" /\ x.partner = r.partner /\ x.canceled = r.canceled
              /\ x.seat /\ x.member
<1> DEFINE x == [r EXCEPT !.request = "approved", !.seat = TRUE, !.member = TRUE]
<1>1. x \in MeetupRows
  BY DEF MeetupRows
<1>2. /\ x.request = "approved" /\ x.partner = r.partner /\ x.canceled = r.canceled
      /\ x.seat /\ x.member
  BY DEF MeetupRows
<1> QED BY <1>1, <1>2

LEMMA RowCanceled ==
    ASSUME NEW r \in MeetupRows
    PROVE  \E x \in MeetupRows :
              /\ x = [r EXCEPT !.canceled = TRUE]
              /\ x.canceled /\ x.partner = r.partner /\ x.request = r.request
              /\ x.seat = r.seat /\ x.member = r.member
<1> DEFINE x == [r EXCEPT !.canceled = TRUE]
<1>1. x \in MeetupRows
  BY DEF MeetupRows
<1>2. /\ x.canceled /\ x.partner = r.partner /\ x.request = r.request
      /\ x.seat = r.seat /\ x.member = r.member
  BY DEF MeetupRows
<1> QED BY <1>1, <1>2

LEMMA PartnerBegins ==
    ASSUME Portal!Init PROVE PartnerInv
<1>1. PortalTyped
  <2>1. account \in [status : {"none", "pending", "approved", "rejected", "suspended"},
                     partner : Nat]
    BY DEF Portal!Init, Portal!NoAccount
  <2>2. open \in [AnyCalls -> PortalCalls]
    BY PortalIdle DEF Portal!Init
  <2>3. /\ live \in Seq(BOOLEAN) /\ partners \in Seq(PartnerRows) /\ hosts \in Seq(Nat)
        /\ meetups \in Seq(MeetupRows) /\ canceled \in Seq(Nat)
        /\ Len(hosts) = Len(partners) /\ Len(canceled) = Len(meetups)
    BY EmptySeq DEF Portal!Init
  <2> QED BY <2>1, <2>2, <2>3 DEF PortalTyped
<1>2. \A c \in AnyCalls : open[c].at = "idle"
  BY PortalIdle DEF Portal!Init
<1>3. Len(partners) = 0 /\ Len(meetups) = 0 /\ account.partner = 0
  BY DEF Portal!Init, Portal!NoAccount
<1>4. SessionsEnd
  BY <1>2 DEF Portal!Init, SessionsEnd, Portal!NoAccount
<1>5. OneHost
  BY <1>2, <1>3 DEF OneHost
<1>6. SeatsReviewed
  BY <1>2, <1>3 DEF SeatsReviewed
<1> QED BY <1>1, <1>4, <1>5, <1>6 DEF PartnerInv

(* A call that begins with what it has read.                                *)
LEMMA BeginKeepsPortal ==
    ASSUME PartnerInv, NEW c \in AnyCalls, NEW r \in PortalCalls, Portal!Begin(c, r),
           r.at \in {"register", "login", "host", "review", "cancel", "withdraw"},
           r.at = "login" => Registered,
           r.at = "host" => r.partner \in 1 .. Len(partners),
           r.at \in {"review", "cancel", "withdraw"} => r.meetup \in 1 .. Len(meetups)
    PROVE  PartnerInv'
<1>1. /\ open[c].at = "idle" /\ open' = [open EXCEPT ![c] = r]
      /\ UNCHANGED <<account, partners, live, meetups, hosts, late, halfway, crossing,
            canceled>>
  BY PortalIdle DEF Portal!Begin
<1>2. open \in [AnyCalls -> PortalCalls]
  BY DEF PartnerInv, PortalTyped
<1>3. /\ open' \in [AnyCalls -> PortalCalls]
      /\ \A d \in AnyCalls : open'[d] = IF d = c THEN r ELSE open[d]
  BY <1>1, <1>2
<1>4. PortalTyped'
  BY <1>1, <1>3 DEF PartnerInv, PortalTyped
<1>5. SessionsEnd'
  BY <1>1, <1>3, SessionsFrame DEF PartnerInv
<1>6. OneHost'
  BY <1>1, <1>3 DEF PartnerInv, OneHost
<1>7. SeatsReviewed'
  BY <1>1, <1>3 DEF PartnerInv, SeatsReviewed
<1> QED BY <1>4, <1>5, <1>6, <1>7 DEF PartnerInv

(* What a call that ends does to the calls.                                 *)
LEMMA EndEnds ==
    ASSUME PartnerInv, NEW c \in AnyCalls, Portal!End(c)
    PROVE  /\ open' \in [AnyCalls -> PortalCalls]
           /\ \A d \in AnyCalls : open'[d] = IF d = c THEN Portal!Idle ELSE open[d]
           /\ \A d \in AnyCalls : open'[d] = open[d] \/ open'[d].at = "idle"
           /\ open'[c].at = "idle"
BY PortalIdle DEF PartnerInv, PortalTyped, Portal!End

LEMMA PartnerStepKeeps ==
    ASSUME PartnerInv, [Portal!Next]_Portal!vars PROVE PartnerInv'
<1>0. PortalTyped /\ SessionsEnd /\ OneHost /\ SeatsReviewed
  BY DEF PartnerInv
<1>00. /\ live \in Seq(BOOLEAN) /\ DOMAIN live = 1 .. Len(live) /\ Len(live) \in Nat
       /\ partners \in Seq(PartnerRows) /\ DOMAIN partners = 1 .. Len(partners)
       /\ Len(partners) \in Nat
       /\ meetups \in Seq(MeetupRows) /\ DOMAIN meetups = 1 .. Len(meetups)
       /\ Len(meetups) \in Nat
       /\ hosts \in Seq(Nat) /\ canceled \in Seq(Nat)
       /\ Len(hosts) = Len(partners) /\ Len(canceled) = Len(meetups)
       /\ open \in [AnyCalls -> PortalCalls]
  BY <1>0, LenProperties DEF PortalTyped
<1>1. CASE UNCHANGED Portal!vars
  BY <1>1 DEF Portal!vars, PartnerInv, PortalTyped, SessionsEnd, Registered, OneHost,
     SeatsReviewed
<1>2. ASSUME NEW c \in AnyCalls,
             Portal!BeginRegister(c) \/ Portal!BeginLogin(c) \/ Portal!BeginMeetup(c)
      PROVE  PartnerInv'
  <2>1. PICK r \in PortalCalls :
        /\ Portal!Begin(c, r) /\ r.at \in {"register", "login", "host"}
        /\ r.at = "login" => Registered
        /\ r.at = "host" => r.partner = account.partner /\ Portal!Admitted
    <3>1. account.partner \in Nat
      BY <1>0 DEF PortalTyped
    <3>2. /\ [at |-> "register"] \in PortalCalls /\ [at |-> "login"] \in PortalCalls
          /\ [at |-> "host", partner |-> account.partner] \in PortalCalls
      BY <3>1 DEF PortalCalls
    <3> QED BY <1>2, <3>2 DEF Portal!BeginRegister, Portal!BeginLogin, Portal!BeginMeetup,
        Registered
  <2>2. r.at = "host" => r.partner \in 1 .. Len(partners)
    BY <1>0, <1>00, <2>1 DEF Portal!Admitted, OneHost, PortalTyped
  <2> QED BY <2>1, <2>2, BeginKeepsPortal
<1>3. ASSUME NEW c \in AnyCalls, NEW m \in DOMAIN meetups, NEW v \in {"approved", "rejected"},
             Portal!BeginReview(c, m, v) \/ Portal!BeginCancel(c, m) \/ Portal!BeginWithdraw(c, m)
      PROVE  PartnerInv'
  <2>1. PICK r \in PortalCalls :
        /\ Portal!Begin(c, r) /\ r.at \in {"review", "cancel", "withdraw"}
        /\ r.meetup = m
    <3>1. m \in Nat
      BY <1>00
    <3>2. /\ [at |-> "review", meetup |-> m, verdict |-> v] \in PortalCalls
          /\ [at |-> "cancel", meetup |-> m] \in PortalCalls
          /\ [at |-> "withdraw", meetup |-> m] \in PortalCalls
      BY <3>1 DEF PortalCalls
    <3> QED BY <1>3, <3>2 DEF Portal!BeginReview, Portal!BeginCancel, Portal!BeginWithdraw
  <2> QED BY <1>00, <2>1, BeginKeepsPortal
<1>4. ASSUME NEW c \in AnyCalls, Portal!Register(c) PROVE PartnerInv'
  <2>1. /\ open[c].at = "register" /\ Portal!End(c)
        /\ account' = IF account = Portal!NoAccount
                      THEN [account EXCEPT !.status = "pending"] ELSE account
        /\ UNCHANGED <<partners, live, meetups, hosts, late, halfway, crossing, canceled>>
    BY <1>4 DEF Portal!Register
  <2>2. /\ account' \in [status : {"none", "pending", "approved", "rejected", "suspended"},
                         partner : Nat]
        /\ account'.partner = account.partner
        /\ account'.status \in {account.status, "pending"}
        /\ Registered'
    BY <1>0, <2>1 DEF PortalTyped, SessionsEnd, Registered
  <2>3. PortalTyped'
    BY <1>0, <2>1, <2>2, EndEnds DEF PortalTyped
  <2>4. SessionsEnd'
    BY <1>0, <2>1, <2>2, EndEnds DEF SessionsEnd, Registered
  <2>5. OneHost'
    BY <1>0, <2>1, <2>2, EndEnds DEF OneHost
  <2>6. SeatsReviewed'
    BY <1>0, <2>1, EndEnds, MeetupsFrame
  <2> QED BY <2>3, <2>4, <2>5, <2>6 DEF PartnerInv
<1>5. ASSUME NEW c \in AnyCalls, Portal!Login(c) PROVE PartnerInv'
  <2>1. /\ open[c].at = "login" /\ Portal!End(c) /\ live' = Append(live, TRUE)
        /\ late' = IF account.status = "suspended" THEN late \union {Len(live) + 1} ELSE late
        /\ UNCHANGED <<account, partners, meetups, hosts, halfway, crossing, canceled>>
    BY <1>5 DEF Portal!Login
  <2>2. /\ live' \in Seq(BOOLEAN) /\ Len(live') = Len(live) + 1
        /\ \A s \in 1 .. Len(live) : live'[s] = live[s]
    BY <1>00, <2>1, AppendProperties
  <2>3. PortalTyped'
    BY <1>0, <2>1, <2>2, EndEnds DEF PortalTyped
  <2>4. SessionsEnd'
    <3>1. Registered /\ Registered' /\ (account = Portal!NoAccount \/ Registered)'
      BY <1>0, <2>1 DEF SessionsEnd, Registered
    <3>2. ASSUME account'.status = "suspended", \A d \in AnyCalls : open'[d].at # "revoke",
                 NEW s \in 1 .. Len(live'), live'[s]
          PROVE  s \in late' \union halfway'
      <4>1. \A d \in AnyCalls : open[d].at # "revoke"
        BY <2>1, <3>2, EndEnds
      <4>2. CASE s = Len(live) + 1
        BY <2>1, <3>2, <4>2
      <4>3. CASE s \in 1 .. Len(live)
        BY <1>0, <2>1, <2>2, <3>2, <4>1, <4>3 DEF SessionsEnd
      <4> QED BY <1>00, <2>2, <4>2, <4>3
    <3>3. \A d \in AnyCalls : open'[d].at = "login" => Registered'
      BY <3>1
    <3> QED BY <3>1, <3>2, <3>3 DEF SessionsEnd
  <2>5. OneHost' /\ SeatsReviewed'
    BY <1>0, <2>1, EndEnds, HostsFrame, MeetupsFrame
  <2> QED BY <2>3, <2>4, <2>5 DEF PartnerInv
<1>6. ASSUME NEW s \in DOMAIN live, Portal!Logout(s) PROVE PartnerInv'
  <2>1. /\ live' = [live EXCEPT ![s] = FALSE]
        /\ UNCHANGED <<account, partners, meetups, open, hosts, late, halfway, crossing,
              canceled>>
    BY <1>6 DEF Portal!Logout
  <2>2. /\ live' \in Seq(BOOLEAN) /\ Len(live') = Len(live)
        /\ \A t \in 1 .. Len(live) : live'[t] => live[t]
    BY <1>00, <2>1, ExceptSeq
  <2>3. PortalTyped'
    BY <1>0, <2>1, <2>2 DEF PortalTyped
  <2>4. SessionsEnd'
    <3>1. live # <<>>
      BY <1>00
    <3> QED BY <1>0, <2>1, <2>2, <3>1 DEF SessionsEnd, Registered
  <2>5. OneHost' /\ SeatsReviewed'
    BY <1>0, <2>1, HostsFrame, MeetupsFrame
  <2> QED BY <2>3, <2>4, <2>5 DEF PartnerInv
<1>7. CASE Portal!Approve
  <2>1. PICK p \in 1 .. Len(partners) + 1 :
          /\ account' = [status |-> "approved", partner |-> p]
          /\ IF p > Len(partners)
             THEN /\ partners' = Append(partners, [active |-> TRUE, host |-> FALSE])
                  /\ hosts' = Append(hosts, 0)
             ELSE UNCHANGED <<partners, hosts>>
    BY <1>7 DEF Portal!Approve
  <2>2. UNCHANGED <<live, meetups, open, late, halfway, crossing, canceled>>
    BY <1>7 DEF Portal!Approve
  <2>3. /\ partners' \in Seq(PartnerRows) /\ hosts' \in Seq(Nat) /\ Len(hosts') = Len(partners')
        /\ Len(partners') \in Nat /\ Len(partners) <= Len(partners') /\ p <= Len(partners')
        /\ \A q \in 1 .. Len(partners) : partners'[q] = partners[q] /\ hosts'[q] = hosts[q]
        /\ \A q \in 1 .. Len(partners') :
              q \in 1 .. Len(partners) \/ (~partners'[q].host /\ hosts'[q] = 0)
    <3>1. CASE p > Len(partners)
      <4>1. [active |-> TRUE, host |-> FALSE] \in PartnerRows
        BY DEF PartnerRows
      <4>2. /\ partners' \in Seq(PartnerRows) /\ Len(partners') = Len(partners) + 1
            /\ \A q \in 1 .. Len(partners) : partners'[q] = partners[q]
            /\ partners'[Len(partners) + 1] = [active |-> TRUE, host |-> FALSE]
        <5>1. partners' = Append(partners, [active |-> TRUE, host |-> FALSE])
          BY <2>1, <3>1
        <5> QED BY <1>00, <4>1, <5>1, AppendProperties
      <4>3. /\ hosts' \in Seq(Nat) /\ Len(hosts') = Len(hosts) + 1
            /\ \A q \in 1 .. Len(hosts) : hosts'[q] = hosts[q]
            /\ hosts'[Len(hosts) + 1] = 0
        <5>1. hosts' = Append(hosts, 0)
          BY <2>1, <3>1
        <5> QED BY <1>00, <5>1, AppendProperties
      <4>4. \A q \in 1 .. Len(partners) + 1 : q \in 1 .. Len(partners) \/ q = Len(partners) + 1
        BY <1>00
      <4>5. Len(hosts') = Len(partners')
        BY <1>00, <4>2, <4>3
      <4>6. /\ Len(partners') \in Nat /\ Len(partners) <= Len(partners')
            /\ p <= Len(partners')
        BY <1>00, <4>2
      <4>7. \A q \in 1 .. Len(partners) : hosts'[q] = hosts[q]
        BY <1>00, <4>3
      <4>8. ~partners'[Len(partners) + 1].host /\ hosts'[Len(partners) + 1] = 0
        BY <1>00, <4>2, <4>3
      <4>9. ASSUME NEW q \in 1 .. Len(partners')
            PROVE  q \in 1 .. Len(partners) \/ (~partners'[q].host /\ hosts'[q] = 0)
        <5>1. q \in 1 .. Len(partners) \/ q = Len(partners) + 1
          BY <4>2, <4>4
        <5> QED BY <4>8, <5>1
      <4> QED BY <4>2, <4>3, <4>5, <4>6, <4>7, <4>9
    <3>2. CASE ~(p > Len(partners))
      BY <1>00, <2>1, <3>2
    <3> QED BY <3>1, <3>2
  <2>4. PortalTyped'
    BY <1>0, <1>00, <2>1, <2>2, <2>3 DEF PortalTyped
  <2>5. SessionsEnd'
    BY <2>1 DEF SessionsEnd, Registered
  <2>6. OneHost'
    <3>1. account'.partner <= Len(partners')
      BY <2>1, <2>3
    <3>2. \A q \in 1 .. Len(partners) : q \in 1 .. Len(partners')
      BY <1>00, <2>3
    <3>3. \A d \in AnyCalls :
            /\ open'[d].at \in {"host", "meetup"}
                  => open'[d].partner \in 1 .. Len(partners')
            /\ open'[d].at = "meetup" => open'[d].make \/ partners'[open'[d].partner].host
      BY <1>0, <2>2, <2>3, <3>2 DEF OneHost
    <3>4. \A q \in 1 .. Len(partners') : hosts'[q] = (IF partners'[q].host THEN 1 ELSE 0)
      BY <1>0, <2>3 DEF OneHost
    <3> QED BY <3>1, <3>3, <3>4 DEF OneHost
  <2>7. SeatsReviewed'
    <3>1. \A q \in 1 .. Len(partners) : q \in 1 .. Len(partners')
      BY <1>00, <2>3
    <3> QED BY <1>0, <2>2, <2>3, <3>1 DEF SeatsReviewed
  <2> QED BY <2>4, <2>5, <2>6, <2>7 DEF PartnerInv
<1>8. ASSUME NEW c \in AnyCalls, NEW status \in {"rejected", "suspended"}, Portal!Refuse(c, status)
      PROVE  PartnerInv'
  <2>1. /\ account' = [account EXCEPT !.status = status]
        /\ open' = [open EXCEPT ![c] = [at |-> "revoke"]] /\ open[c].at = "idle"
        /\ UNCHANGED <<partners, live, meetups, hosts, late, halfway, crossing, canceled>>
    BY <1>8, PortalIdle DEF Portal!Refuse
  <2>2. /\ account' \in [status : {"none", "pending", "approved", "rejected", "suspended"},
                         partner : Nat]
        /\ account'.partner = account.partner /\ Registered'
    BY <1>0, <2>1 DEF PortalTyped, Registered
  <2>3. /\ [at |-> "revoke"] \in PortalCalls /\ open' \in [AnyCalls -> PortalCalls]
        /\ open'[c].at = "revoke"
        /\ \A d \in AnyCalls : open'[d] = open[d] \/ open'[d].at = "revoke"
    <3>1. [at |-> "revoke"] \in PortalCalls
      BY DEF PortalCalls
    <3> QED BY <1>00, <2>1, <3>1
  <2>4. PortalTyped'
    BY <1>0, <2>1, <2>2, <2>3 DEF PortalTyped
  <2>5. SessionsEnd'
    BY <2>2, <2>3 DEF SessionsEnd, Registered
  <2>6. OneHost'
    BY <1>0, <2>1, <2>2, <2>3 DEF OneHost
  <2>7. SeatsReviewed'
    BY <1>0, <2>1, <2>3, MeetupsFrame
  <2> QED BY <2>4, <2>5, <2>6, <2>7 DEF PartnerInv
<1>9. ASSUME NEW c \in AnyCalls, Portal!Revoke(c) PROVE PartnerInv'
  <2>1. /\ live' = [s \in DOMAIN live |-> FALSE] /\ Portal!End(c)
        /\ UNCHANGED <<account, partners, meetups, hosts, late, halfway, crossing,
              canceled>>
    BY <1>9 DEF Portal!Revoke
  <2>2. /\ live' \in [1 .. Len(live) -> BOOLEAN] /\ \A s \in 1 .. Len(live) : ~live'[s]
    BY <1>00, <2>1
  <2>3. live' \in Seq(BOOLEAN) /\ Len(live') = Len(live)
    <3>1. Len(live) \in Nat
      BY <1>00
    <3>2. live' \in Seq(BOOLEAN)
      BY <2>2, <3>1, SeqDef
    <3>3. DOMAIN live' = 1 .. Len(live)
      BY <2>2
    <3> QED BY <3>1, <3>2, <3>3
  <2>4. PortalTyped'
    BY <1>0, <2>1, <2>3, EndEnds DEF PortalTyped
  <2>5. SessionsEnd'
    <3>1. live' # <<>> => live # <<>>
      BY <1>00, <2>1, <2>3
    <3> QED BY <1>0, <2>1, <2>2, <2>3, <3>1, EndEnds DEF SessionsEnd, Registered
  <2>6. OneHost' /\ SeatsReviewed'
    BY <1>0, <2>1, EndEnds, HostsFrame, MeetupsFrame
  <2> QED BY <2>4, <2>5, <2>6 DEF PartnerInv
<1>10. ASSUME NEW p \in DOMAIN partners, Portal!Switch(p) PROVE PartnerInv'
  <2>1. /\ partners' = [partners EXCEPT ![p] = [partners[p] EXCEPT !.active = ~partners[p].active]]
        /\ UNCHANGED <<account, live, meetups, open, hosts, late, halfway, crossing,
              canceled>>
    BY <1>10 DEF Portal!Switch
  <2>2. p \in 1 .. Len(partners) /\ partners[p] \in PartnerRows
    BY <1>00, ElementOfSeq
  <2>3. /\ [partners[p] EXCEPT !.active = ~partners[p].active] \in PartnerRows
        /\ [partners[p] EXCEPT !.active = ~partners[p].active].host = partners[p].host
    BY <2>2 DEF PartnerRows
  <2>4. /\ partners' \in Seq(PartnerRows) /\ Len(partners') = Len(partners)
        /\ \A q \in 1 .. Len(partners) : partners'[q].host = partners[q].host
    BY <1>00, <2>1, <2>2, <2>3, ExceptSeq
  <2>5. PortalTyped'
    BY <1>0, <2>1, <2>4 DEF PortalTyped
  <2>6. SessionsEnd'
    BY <1>0, <2>1, SessionsFrame
  <2>7. OneHost'
    BY <1>0, <2>1, <2>4 DEF OneHost
  <2>8. SeatsReviewed'
    BY <1>0, <2>1, <2>4 DEF SeatsReviewed
  <2> QED BY <2>5, <2>6, <2>7, <2>8 DEF PartnerInv
<1>11. ASSUME NEW c \in AnyCalls, Portal!ReadHost(c) PROVE PartnerInv'
  <2>1. /\ open[c].at = "host"
        /\ UNCHANGED <<account, partners, live, meetups, hosts, late, halfway, crossing,
              canceled>>
    BY <1>11 DEF Portal!ReadHost
  <2>2. open[c].partner \in 1 .. Len(partners) /\ open[c].partner \in Nat
    BY <1>0, <1>00, <2>1 DEF OneHost
  <2>3. partners[open[c].partner] \in PartnerRows
    BY <1>00, <2>2, ElementOfSeq
  <2>4. PICK r \in PortalCalls :
          /\ open' = [open EXCEPT ![c] = r]
          /\ r.at \in {"idle", "meetup"}
          /\ r.at = "meetup" =>
                /\ r.partner = open[c].partner
                /\ r.make \/ partners[open[c].partner].host
    <3>1. [at |-> "meetup", partner |-> open[c].partner,
           make |-> ~partners[open[c].partner].host] \in PortalCalls
      BY <2>2, <2>3 DEF PortalCalls, PartnerRows
    <3> QED BY <1>11, <3>1, PortalIdle DEF Portal!ReadHost, Portal!End
  <2>5. /\ open' \in [AnyCalls -> PortalCalls]
        /\ \A d \in AnyCalls : open'[d] = IF d = c THEN r ELSE open[d]
    BY <1>00, <2>4
  <2>6. PortalTyped'
    BY <1>0, <2>1, <2>5 DEF PortalTyped
  <2>7. SessionsEnd'
    BY <1>0, <2>1, <2>4, <2>5, SessionsFrame
  <2>8. OneHost'
    BY <1>0, <2>1, <2>2, <2>4, <2>5 DEF OneHost
  <2>9. SeatsReviewed'
    BY <1>0, <2>1, <2>4, <2>5, MeetupsFrame
  <2> QED BY <2>6, <2>7, <2>8, <2>9 DEF PartnerInv
<1>12. ASSUME NEW c \in AnyCalls, Portal!CreateMeetup(c) PROVE PartnerInv'
  <2> DEFINE p == open[c].partner
             new == [partner |-> p, canceled |-> FALSE, request |-> "none",
                     seat |-> FALSE, member |-> FALSE]
  <2>1. /\ open[c].at = "meetup" /\ Portal!End(c)
        /\ UNCHANGED <<account, live, late, halfway, crossing>>
    BY <1>12 DEF Portal!CreateMeetup
  <2>2. p \in 1 .. Len(partners) /\ p \in Nat /\ (open[c].make \/ partners[p].host)
    BY <1>0, <1>00, <2>1 DEF OneHost
  <2>3. SessionsEnd'
    BY <1>0, <2>1, EndEnds, SessionsFrame
  <2>4. CASE open[c].make /\ partners[p].host
    <3>1. UNCHANGED <<partners, meetups, hosts, canceled>>
      BY <1>12, <2>4 DEF Portal!CreateMeetup, Portal!Taken
    <3>2. PortalTyped'
      BY <1>0, <2>1, <3>1, EndEnds DEF PortalTyped
    <3> QED BY <1>0, <2>1, <2>3, <3>1, <3>2, EndEnds, HostsFrame, MeetupsFrame
        DEF PartnerInv
  <2>5. CASE ~(open[c].make /\ partners[p].host)
    <3>1. /\ partners' = [partners EXCEPT ![p] = [partners[p] EXCEPT !.host = TRUE]]
          /\ hosts' = IF open[c].make THEN [hosts EXCEPT ![p] = hosts[p] + 1] ELSE hosts
          /\ meetups' = Append(meetups, new)
          /\ canceled' = Append(canceled, 0)
      BY <1>12, <2>5 DEF Portal!CreateMeetup, Portal!Taken
    <3>2. partners[p] \in PartnerRows /\ hosts[p] \in Nat /\ new \in MeetupRows
      BY <1>00, <2>2, ElementOfSeq DEF MeetupRows
    <3>3. /\ [partners[p] EXCEPT !.host = TRUE] \in PartnerRows
          /\ [partners[p] EXCEPT !.host = TRUE].host
      BY <3>2 DEF PartnerRows
    <3>4. /\ partners' \in Seq(PartnerRows) /\ Len(partners') = Len(partners)
          /\ partners'[p].host
          /\ \A q \in 1 .. Len(partners) : q # p => partners'[q] = partners[q]
      BY <1>00, <2>2, <3>1, <3>3, ExceptSeq
    <3>5. hosts[p] = (IF partners[p].host THEN 1 ELSE 0)
      BY <1>0, <2>2 DEF OneHost
    <3>6. /\ hosts' \in Seq(Nat) /\ Len(hosts') = Len(hosts)
          /\ hosts'[p] = 1
          /\ \A q \in 1 .. Len(partners) : q # p => hosts'[q] = hosts[q]
      <4>1. CASE open[c].make
        <5>1. hosts[p] = 0 /\ hosts' = [hosts EXCEPT ![p] = hosts[p] + 1]
          BY <2>5, <3>1, <3>5, <4>1
        <5>2. hosts' = [hosts EXCEPT ![p] = 1]
          BY <5>1
        <5>3. p \in 1 .. Len(hosts) /\ 1 \in Nat
          BY <1>00, <2>2
        <5>4. /\ [hosts EXCEPT ![p] = 1] \in Seq(Nat) /\ Len([hosts EXCEPT ![p] = 1]) = Len(hosts)
              /\ \A q \in 1 .. Len(hosts) :
                    [hosts EXCEPT ![p] = 1][q] = IF q = p THEN 1 ELSE hosts[q]
          BY <1>00, <5>3, ExceptSeq
        <5> QED BY <1>00, <5>2, <5>3, <5>4
      <4>2. CASE ~open[c].make
        BY <1>00, <2>2, <3>1, <3>5, <4>2
      <4> QED BY <4>1, <4>2
    <3>7. /\ meetups' \in Seq(MeetupRows) /\ Len(meetups') = Len(meetups) + 1
          /\ \A m \in 1 .. Len(meetups) : meetups'[m] = meetups[m]
          /\ meetups'[Len(meetups) + 1] = new
      BY <1>00, <3>1, <3>2, AppendProperties
    <3>8. /\ canceled' \in Seq(Nat) /\ Len(canceled') = Len(canceled) + 1
          /\ \A m \in 1 .. Len(canceled) : canceled'[m] = canceled[m]
          /\ canceled'[Len(canceled) + 1] = 0
      BY <1>00, <3>1, AppendProperties
    <3>9. PortalTyped'
      BY <1>0, <1>00, <2>1, <3>4, <3>6, <3>7, <3>8, EndEnds DEF PortalTyped
    <3>10. OneHost'
      <4>1. \A q \in 1 .. Len(partners') : hosts'[q] = (IF partners'[q].host THEN 1 ELSE 0)
        BY <1>0, <3>4, <3>6 DEF OneHost
      <4>2. \A d \in AnyCalls :
              /\ open'[d].at \in {"host", "meetup"}
                    => open'[d].partner \in 1 .. Len(partners')
              /\ open'[d].at = "meetup" => open'[d].make \/ partners'[open'[d].partner].host
        BY <1>0, <2>1, <3>4, EndEnds DEF OneHost
      <4> QED BY <1>0, <2>1, <3>4, <4>1, <4>2 DEF OneHost
    <3>11. SeatsReviewed'
      <4>1. \A d \in AnyCalls : open'[d].at \in {"review", "cancel", "withdraw"} =>
                                 open'[d].meetup \in 1 .. Len(meetups')
        <5>1. \A n \in 1 .. Len(meetups) : n \in 1 .. Len(meetups')
          BY <1>00, <3>7
        <5> QED BY <1>0, <2>1, <5>1, EndEnds DEF SeatsReviewed
      <4>2. ASSUME NEW m \in 1 .. Len(meetups')
            PROVE  /\ meetups'[m].partner \in 1 .. Len(partners')
                   /\ partners'[meetups'[m].partner].host
                   /\ meetups'[m].seat <=> meetups'[m].member
                   /\ meetups'[m].request = "approved" => meetups'[m].seat
                   /\ meetups'[m].seat
                         => meetups'[m].request = "approved" \/ m \in crossing'
                   /\ canceled'[m] = (IF meetups'[m].canceled THEN 1 ELSE 0)
        <5>1. CASE m \in 1 .. Len(meetups)
          <6>1. meetups'[m] = meetups[m] /\ canceled'[m] = canceled[m] /\ crossing' = crossing
            BY <1>00, <2>1, <3>7, <3>8, <5>1
          <6>2. /\ meetups[m].partner \in 1 .. Len(partners') /\ partners'[meetups[m].partner].host
                /\ meetups[m].seat <=> meetups[m].member
                /\ meetups[m].request = "approved" => meetups[m].seat
                /\ meetups[m].seat => meetups[m].request = "approved" \/ m \in crossing
                /\ canceled[m] = (IF meetups[m].canceled THEN 1 ELSE 0)
            BY <1>0, <3>4, <5>1 DEF SeatsReviewed
          <6> QED BY <6>1, <6>2
        <5>2. CASE m = Len(meetups) + 1
          <6>1. meetups'[m] = new /\ canceled'[m] = 0
            BY <1>00, <3>7, <3>8, <5>2
          <6> QED BY <2>2, <3>4, <6>1
        <5> QED BY <1>00, <3>7, <5>1, <5>2
      <4> QED BY <4>1, <4>2 DEF SeatsReviewed
    <3> QED BY <2>3, <3>9, <3>10, <3>11 DEF PartnerInv
  <2> QED BY <2>4, <2>5
<1>13. ASSUME NEW c \in AnyCalls, Portal!Review(c) \/ Portal!Withdraw(c) PROVE PartnerInv'
  <2> DEFINE m == open[c].meetup
  <2>1. /\ open[c].at \in {"review", "withdraw"} /\ Portal!End(c)
        /\ UNCHANGED <<account, partners, live, hosts, late, halfway, canceled>>
        /\ crossing' = IF meetups[m].request # "pending" THEN crossing \union {m} ELSE crossing
    BY <1>13 DEF Portal!Review, Portal!Withdraw
  <2>2. m \in 1 .. Len(meetups) /\ meetups[m] \in MeetupRows
    <3>1. m \in 1 .. Len(meetups)
      BY <1>0, <2>1 DEF SeatsReviewed
    <3> QED BY <1>00, <3>1, ElementOfSeq
  <2>3. PICK x \in MeetupRows :
          /\ meetups' = [meetups EXCEPT ![m] = x]
          /\ x.partner = meetups[m].partner /\ x.canceled = meetups[m].canceled
          /\ \/ x.request \in {"rejected",
                "canceled"} /\ x.seat = meetups[m].seat /\ x.member = meetups[m].member
             \/ x.request = "approved" /\ x.seat /\ x.member
    <3>1. CASE Portal!Withdraw(c)
      <4>1. meetups' = [meetups EXCEPT ![m] = [meetups[m] EXCEPT !.request = "canceled"]]
        BY <3>1 DEF Portal!Withdraw
      <4>2. "canceled" \in Verdicts
        BY DEF Verdicts
      <4>3. PICK y \in MeetupRows :
              /\ y = [meetups[m] EXCEPT !.request = "canceled"] /\ y.request = "canceled"
              /\ y.partner = meetups[m].partner /\ y.canceled = meetups[m].canceled
              /\ y.seat = meetups[m].seat /\ y.member = meetups[m].member
        BY <2>2, <4>2, RowAnswered
      <4> QED BY <4>1, <4>3
    <3>2. CASE Portal!Review(c)
      <4>1. open[c].verdict \in {"approved", "rejected"}
        BY <1>00, <3>2 DEF Portal!Review, PortalCalls
      <4>2. meetups' = [meetups EXCEPT ![m] =
                [meetups[m] EXCEPT !.request = open[c].verdict,
                                   !.seat = meetups[m].seat \/ open[c].verdict = "approved",
                                   !.member = meetups[m].member \/ open[c].verdict = "approved"]]
        BY <3>2 DEF Portal!Review
      <4>3. CASE open[c].verdict = "approved"
        <5>1. meetups' = [meetups EXCEPT ![m] =
                [meetups[m] EXCEPT !.request = "approved", !.seat = TRUE, !.member = TRUE]]
          BY <4>2, <4>3
        <5> QED BY <2>2, <5>1, RowSeated
      <4>4. CASE open[c].verdict = "rejected"
        <5>1. (meetups[m].seat \/ open[c].verdict = "approved") = meetups[m].seat
              /\ (meetups[m].member \/ open[c].verdict = "approved") = meetups[m].member
          BY <2>2, <4>4 DEF MeetupRows
        <5>2. [meetups[m] EXCEPT !.request = "rejected", !.seat = meetups[m].seat,
                                 !.member = meetups[m].member]
                  = [meetups[m] EXCEPT !.request = "rejected"]
          BY <2>2 DEF MeetupRows
        <5>3. meetups' = [meetups EXCEPT ![m] = [meetups[m] EXCEPT !.request = "rejected"]]
          BY <4>2, <4>4, <5>1, <5>2
        <5>4. "rejected" \in Verdicts
          BY DEF Verdicts
        <5>5. PICK y \in MeetupRows :
                /\ y = [meetups[m] EXCEPT !.request = "rejected"] /\ y.request = "rejected"
                /\ y.partner = meetups[m].partner /\ y.canceled = meetups[m].canceled
                /\ y.seat = meetups[m].seat /\ y.member = meetups[m].member
          BY <2>2, <5>4, RowAnswered
        <5> QED BY <5>3, <5>5
      <4> QED BY <4>1, <4>3, <4>4
    <3> QED BY <1>13, <3>1, <3>2
  <2>4. /\ meetups' \in Seq(MeetupRows) /\ Len(meetups') = Len(meetups)
        /\ \A n \in 1 .. Len(meetups) : meetups'[n] = IF n = m THEN x ELSE meetups[n]
    BY <1>00, <2>2, <2>3, ExceptSeq
  <2>5. PortalTyped'
    BY <1>0, <2>1, <2>4, EndEnds DEF PortalTyped
  <2>6. SessionsEnd' /\ OneHost'
    BY <1>0, <2>1, EndEnds, SessionsFrame, HostsFrame
  <2>7. SeatsReviewed'
    <3>1. \A d \in AnyCalls : open'[d].at \in {"review", "cancel", "withdraw"} =>
                               open'[d].meetup \in 1 .. Len(meetups')
      BY <1>0, <2>1, <2>4, EndEnds DEF SeatsReviewed
    <3>2. ASSUME NEW n \in 1 .. Len(meetups)
          PROVE  /\ meetups'[n].partner \in 1 .. Len(partners')
                 /\ partners'[meetups'[n].partner].host
                 /\ meetups'[n].seat <=> meetups'[n].member
                 /\ meetups'[n].request = "approved" => meetups'[n].seat
                 /\ meetups'[n].seat => meetups'[n].request = "approved" \/ n \in crossing'
                 /\ canceled'[n] = (IF meetups'[n].canceled THEN 1 ELSE 0)
      <4>1. CASE n # m
        BY <1>0, <2>1, <2>4, <3>2, <4>1 DEF SeatsReviewed
      <4>2. CASE n = m
        <5>1. meetups'[n] = x
          BY <2>4, <3>2, <4>2
        <5>2. /\ x.partner \in 1 .. Len(partners') /\ partners'[x.partner].host
              /\ canceled'[n] = (IF x.canceled THEN 1 ELSE 0)
          BY <1>0, <2>1, <2>2, <2>3, <4>2 DEF SeatsReviewed
        <5>3. /\ meetups[m].seat <=> meetups[m].member
              /\ meetups[m].seat => meetups[m].request = "approved" \/ m \in crossing
          BY <1>0, <2>2 DEF SeatsReviewed
        <5>4. x.seat => x.request = "approved" \/ m \in crossing'
          BY <2>1, <2>3, <5>3
        <5>5. (x.seat <=> x.member) /\ (x.request = "approved" => x.seat)
          BY <2>3, <5>3
        <5> QED BY <4>2, <5>1, <5>2, <5>4, <5>5
      <4> QED BY <4>1, <4>2
    <3> QED BY <2>4, <3>1, <3>2 DEF SeatsReviewed
  <2> QED BY <2>5, <2>6, <2>7 DEF PartnerInv
<1>14. ASSUME NEW c \in AnyCalls, Portal!CancelMeetup(c) PROVE PartnerInv'
  <2> DEFINE m == open[c].meetup
  <2>1. /\ open[c].at = "cancel" /\ Portal!End(c)
        /\ UNCHANGED <<account, partners, live, hosts, late, halfway, crossing>>
    BY <1>14 DEF Portal!CancelMeetup
  <2>2. m \in 1 .. Len(meetups) /\ meetups[m] \in MeetupRows
    <3>1. m \in 1 .. Len(meetups)
      BY <1>0, <2>1 DEF SeatsReviewed
    <3> QED BY <1>00, <3>1, ElementOfSeq
  <2>3. SessionsEnd' /\ OneHost'
    BY <1>0, <2>1, EndEnds, SessionsFrame, HostsFrame
  <2>4. CASE meetups[m].canceled
    <3>1. UNCHANGED <<meetups, canceled>>
      BY <1>14, <2>4 DEF Portal!CancelMeetup, Portal!Standing
    <3>2. PortalTyped'
      BY <1>0, <2>1, <3>1, EndEnds DEF PortalTyped
    <3> QED BY <1>0, <2>1, <2>3, <3>1, <3>2, EndEnds, MeetupsFrame DEF PartnerInv
  <2>5. CASE ~meetups[m].canceled
    <3>1. /\ meetups' = [meetups EXCEPT ![m] = [meetups[m] EXCEPT !.canceled = TRUE]]
          /\ canceled' = [canceled EXCEPT ![m] = canceled[m] + 1]
      BY <1>14, <2>5 DEF Portal!CancelMeetup, Portal!Standing
    <3>2. canceled[m] = 0
      BY <1>0, <2>2, <2>5 DEF SeatsReviewed
    <3>3. PICK x \in MeetupRows :
            /\ meetups' = [meetups EXCEPT ![m] = x] /\ x.canceled
            /\ x.partner = meetups[m].partner /\ x.request = meetups[m].request
            /\ x.seat = meetups[m].seat /\ x.member = meetups[m].member
      BY <2>2, <3>1, RowCanceled
    <3>4. /\ meetups' \in Seq(MeetupRows) /\ Len(meetups') = Len(meetups)
          /\ \A n \in 1 .. Len(meetups) : meetups'[n] = IF n = m THEN x ELSE meetups[n]
      BY <1>00, <2>2, <3>3, ExceptSeq
    <3>5. /\ canceled' \in Seq(Nat) /\ Len(canceled') = Len(canceled)
          /\ \A n \in 1 .. Len(meetups) : canceled'[n] = IF n = m THEN 1 ELSE canceled[n]
      <4>1. canceled' = [canceled EXCEPT ![m] = 1]
        BY <3>1, <3>2
      <4>2. m \in 1 .. Len(canceled) /\ 1 \in Nat
        BY <1>00, <2>2
      <4>3. /\ [canceled EXCEPT ![m] = 1] \in Seq(Nat)
            /\ Len([canceled EXCEPT ![m] = 1]) = Len(canceled)
            /\ \A n \in 1 .. Len(canceled) :
                  [canceled EXCEPT ![m] = 1][n] = IF n = m THEN 1 ELSE canceled[n]
        BY <1>00, <4>2, ExceptSeq
      <4> QED BY <1>00, <4>1, <4>3
    <3>6. PortalTyped'
      BY <1>0, <1>00, <2>1, <3>4, <3>5, EndEnds DEF PortalTyped
    <3>7. SeatsReviewed'
      <4>1. \A d \in AnyCalls : open'[d].at \in {"review", "cancel", "withdraw"} =>
                                 open'[d].meetup \in 1 .. Len(meetups')
        BY <1>0, <2>1, <3>4, EndEnds DEF SeatsReviewed
      <4>2. \A n \in 1 .. Len(meetups) :
              /\ meetups'[n].partner = meetups[n].partner /\ meetups'[n].request = meetups[n].request
              /\ meetups'[n].seat = meetups[n].seat /\ meetups'[n].member = meetups[n].member
              /\ n = m => meetups'[n].canceled /\ canceled'[n] = 1
              /\ n # m
                    => meetups'[n].canceled = meetups[n].canceled /\ canceled'[n] = canceled[n]
        BY <3>3, <3>4, <3>5
      <4> QED BY <1>0, <2>1, <3>4, <4>1, <4>2 DEF SeatsReviewed
    <3> QED BY <2>3, <3>6, <3>7 DEF PartnerInv
  <2> QED BY <2>4, <2>5
<1>15. ASSUME NEW m \in DOMAIN meetups, Portal!Ask(m) PROVE PartnerInv'
  <2>1. /\ ~meetups[m].seat
        /\ meetups' = [meetups EXCEPT ![m] = [meetups[m] EXCEPT !.request = "pending"]]
        /\ UNCHANGED <<account, partners, live, open, hosts, late, halfway, crossing,
              canceled>>
    BY <1>15 DEF Portal!Ask
  <2>2. m \in 1 .. Len(meetups) /\ meetups[m] \in MeetupRows
    BY <1>00, ElementOfSeq
  <2>3. PICK x \in MeetupRows :
          /\ meetups' = [meetups EXCEPT ![m] = x] /\ x.request = "pending"
          /\ x.partner = meetups[m].partner /\ x.canceled = meetups[m].canceled
          /\ x.seat = meetups[m].seat /\ x.member = meetups[m].member
    <3>1. "pending" \in Verdicts
      BY DEF Verdicts
    <3>2. PICK y \in MeetupRows :
            /\ y = [meetups[m] EXCEPT !.request = "pending"] /\ y.request = "pending"
            /\ y.partner = meetups[m].partner /\ y.canceled = meetups[m].canceled
            /\ y.seat = meetups[m].seat /\ y.member = meetups[m].member
      BY <2>2, <3>1, RowAnswered
    <3> QED BY <2>1, <3>2
  <2>4. /\ meetups' \in Seq(MeetupRows) /\ Len(meetups') = Len(meetups)
        /\ \A n \in 1 .. Len(meetups) : meetups'[n] = IF n = m THEN x ELSE meetups[n]
    BY <1>00, <2>2, <2>3, ExceptSeq
  <2>5. PortalTyped'
    BY <1>0, <2>1, <2>4 DEF PortalTyped
  <2>6. SessionsEnd' /\ OneHost'
    BY <1>0, <2>1, SessionsFrame, HostsFrame
  <2>7. SeatsReviewed'
    <3>1. \A n \in 1 .. Len(meetups) :
            /\ meetups'[n].partner = meetups[n].partner /\ meetups'[n].canceled = meetups[n].canceled
            /\ meetups'[n].seat = meetups[n].seat /\ meetups'[n].member = meetups[n].member
            /\ n = m => meetups'[n].request = "pending" /\ ~meetups'[n].seat
            /\ n # m => meetups'[n].request = meetups[n].request
      BY <2>1, <2>3, <2>4
    <3> QED BY <1>0, <2>1, <2>4, <3>1 DEF SeatsReviewed
  <2> QED BY <2>5, <2>6, <2>7 DEF PartnerInv
<1>16. ASSUME NEW c \in AnyCalls, Portal!Fail(c) PROVE PartnerInv'
  <2>1. /\ Portal!End(c)
        /\ halfway' = IF open[c].at = "revoke"
                      THEN halfway \union {s \in DOMAIN live : live[s]} ELSE halfway
        /\ UNCHANGED <<account, partners, live, meetups, hosts, late, crossing, canceled>>
    BY <1>16 DEF Portal!Fail
  <2>2. PortalTyped'
    BY <1>0, <2>1, EndEnds DEF PortalTyped
  <2>3. OneHost' /\ SeatsReviewed'
    BY <1>0, <2>1, EndEnds, HostsFrame, MeetupsFrame
  <2>4. SessionsEnd'
    <3>1. ASSUME account'.status = "suspended", \A d \in AnyCalls : open'[d].at # "revoke",
                 NEW s \in 1 .. Len(live'), live'[s]
          PROVE  s \in late' \union halfway'
      <4>1. CASE open[c].at = "revoke"
        BY <1>00, <2>1, <3>1, <4>1
      <4>2. CASE open[c].at # "revoke"
        <5>1. \A d \in AnyCalls : open[d].at # "revoke"
          BY <2>1, <3>1, <4>2, EndEnds
        <5> QED BY <1>0, <2>1, <3>1, <5>1 DEF SessionsEnd
      <4> QED BY <4>1, <4>2
    <3>2. \A d \in AnyCalls : open'[d].at = "login" => Registered'
      BY <1>0, <2>1, EndEnds DEF SessionsEnd, Registered
    <3>3. (account = Portal!NoAccount \/ Registered)' /\ (live # <<>> => Registered)'
      BY <1>0, <2>1 DEF SessionsEnd, Registered
    <3> QED BY <3>1, <3>2, <3>3 DEF SessionsEnd
  <2> QED BY <2>2, <2>3, <2>4 DEF PartnerInv
<1>17. CASE Portal!Next
  BY <1>2, <1>3, <1>4, <1>5, <1>6, <1>7, <1>8, <1>9, <1>10, <1>11, <1>12, <1>13, <1>14,
     <1>15,
     <1>16, <1>17 DEF Portal!Next
<1> QED BY <1>1, <1>17

LEMMA PartnersHoldFollows ==
    ASSUME PartnerInv PROVE Portal!PartnersHold
<1>1. /\ DOMAIN live = 1 .. Len(live) /\ DOMAIN partners = 1 .. Len(partners)
      /\ DOMAIN meetups = 1 .. Len(meetups)
  BY LenProperties DEF PartnerInv, PortalTyped
<1>2. Registered => account # Portal!NoAccount
  BY DEF Registered, Portal!NoAccount
<1> QED BY <1>1, <1>2 DEF PartnerInv, SessionsEnd, OneHost, SeatsReviewed,
    Portal!PartnersHold

LEMMA PartnerSteps ==
    ASSUME focus = "partner", [Next]_<<focus, everything>>
    PROVE  [Portal!Next]_Portal!vars
<1>1. CASE UNCHANGED <<focus, everything>>
  BY <1>1 DEF everything, Portal!vars
<1>2. CASE Next
  BY <1>2 DEF Next
<1> QED BY <1>1, <1>2

LEMMA PartnerKept == Spec => [](focus = "partner" => PartnerInv)
<1>1. Init => (focus = "partner" => PartnerInv)
  BY PartnerBegins DEF Init
<1>2. (focus = "partner" => PartnerInv) /\ [Next]_<<focus, everything>>
        => (focus = "partner" => PartnerInv)'
  <2> SUFFICES ASSUME focus = "partner" => PartnerInv, [Next]_<<focus, everything>>,
                      focus' = "partner"
               PROVE  PartnerInv'
    OBVIOUS
  <2>1. focus = "partner" /\ PartnerInv
    BY DEF Next
  <2>2. [Portal!Next]_Portal!vars
    BY <2>1, PartnerSteps
  <2> QED BY <2>1, <2>2, PartnerStepKeeps
<1> QED BY <1>1, <1>2, PTL DEF Spec

(* A code is activated once and counted once; a suspended account has only   *)
(* the sessions named, a partner one host, and seats follow the verdicts.    *)
THEOREM OffersAreHeld == Spec => []OffersHold
<1>1. (focus = "offer" => OfferInv) => CodesHold
  BY CodesHoldFollows DEF CodesHold
<1>2. (focus = "partner" => PartnerInv) => PartnersHold
  BY PartnersHoldFollows DEF PartnersHold
<1>3. CodesHold /\ PartnersHold => OffersHold
  BY DEF OffersHold
<1> QED BY <1>1, <1>2, <1>3, OfferKept, PartnerKept, PTL

-----------------------------------------------------------------------------
(* The relay to the bot, for all updates and faults.                         *)

arrived == v1
confirmed == v2
last == v3
file == v4
poll == v5
dispatched == v6
answered == v7
faults == v8
repeats == v9
USE DEF arrived, confirmed, last, file, poll, dispatched, answered, faults,
        repeats

Polls == [step : {"dispatch", "answer", "end", "save"}, at : Nat, to : Nat]

RelayTyped ==
    /\ arrived \in 0 .. BotUpdates
    /\ confirmed \in 0 .. arrived /\ last \in 0 .. arrived /\ file \in 0 .. arrived
    /\ \/ poll = Relay!Rest
       \/ poll \in Polls /\ 1 <= poll.at /\ poll.at <= poll.to /\ poll.to <= arrived
    /\ dispatched \in [1 .. BotUpdates -> Nat] /\ answered \in [1 .. BotUpdates -> Nat]
    /\ faults \in Nat /\ repeats \in Nat

(* A poll goes on after the last update; all before the one in work are     *)
(* answered.                                                                *)
InOrder ==
    /\ poll # Relay!Rest => \A u \in 1 .. poll.at - 1 : answered[u] > 0
    /\ poll.step \in {"dispatch", "answer", "end"} => confirmed < poll.at /\ last < poll.at
    /\ poll.step = "answer" => answered[poll.at] < dispatched[poll.at]
    /\ poll.step \in {"end", "save"} => poll.at = poll.to /\ answered[poll.at] > 0
    /\ poll.step = "save" => poll.to <= last

(* What the relay has, as it knows, dispatched.                             *)
Passed(u) ==
    \/ u <= confirmed \/ u <= last
    \/ poll.step = "dispatch" /\ u < poll.at
    \/ poll.step \in {"answer", "end", "save"} /\ u <= poll.at

(* Anything else was dispatched by a poll that broke off, or forgotten.     *)
Counted ==
    \A u \in 1 .. BotUpdates : dispatched[u] <= repeats + faults + (IF Passed(u) THEN 1 ELSE 0)

Answered ==
    \A u \in 1 .. BotUpdates :
        /\ u <= confirmed \/ u <= last \/ u <= file => answered[u] > 0
        /\ answered[u] <= dispatched[u]
        /\ dispatched[u] > 0 => \A v \in 1 .. u - 1 : answered[v] > 0

RelayInv == RelayTyped /\ InOrder /\ Counted /\ Answered

LEMMA RelayBegins ==
    ASSUME Relay!Init PROVE RelayInv
BY BoundsFit DEF Relay!Init, RelayInv, RelayTyped, InOrder, Counted, Passed, Answered,
   Relay!Rest

LEMMA RelayTypes ==
    ASSUME RelayTyped
    PROVE  /\ BotUpdates \in Nat /\ arrived \in Nat /\ confirmed \in Nat /\ last \in Nat
           /\ file \in Nat /\ faults \in Nat /\ repeats \in Nat
           /\ arrived <= BotUpdates /\ confirmed <= arrived /\ last <= arrived /\ file <= arrived
           /\ Relay!Rest.step = "rest"
           /\ poll # Relay!Rest =>
                 /\ poll \in Polls /\ poll.at \in Nat /\ poll.to \in Nat
                 /\ poll.step \in {"dispatch", "answer", "end", "save"}
                 /\ 1 <= poll.at /\ poll.at <= poll.to /\ poll.to <= arrived
                 /\ poll.at \in 1 .. BotUpdates
           /\ \A u \in 1 .. BotUpdates : u \in Nat /\ dispatched[u] \in Nat /\ answered[u] \in Nat
<1>1. /\ BotUpdates \in Nat /\ arrived \in Nat /\ confirmed \in Nat /\ last \in Nat
      /\ file \in Nat /\ faults \in Nat /\ repeats \in Nat
      /\ arrived <= BotUpdates /\ confirmed <= arrived /\ last <= arrived /\ file <= arrived
  BY BoundsFit DEF RelayTyped
<1>2. Relay!Rest.step = "rest"
  BY DEF Relay!Rest
<1>3. poll # Relay!Rest =>
      /\ poll \in Polls /\ poll.at \in Nat /\ poll.to \in Nat
      /\ poll.step \in {"dispatch", "answer", "end", "save"}
      /\ 1 <= poll.at /\ poll.at <= poll.to /\ poll.to <= arrived
  BY DEF RelayTyped, Polls
<1>4. poll # Relay!Rest => poll.at \in 1 .. BotUpdates
  BY <1>1, <1>3
<1>5. \A u \in 1 .. BotUpdates : u \in Nat /\ dispatched[u] \in Nat /\ answered[u] \in Nat
  BY <1>1 DEF RelayTyped
<1> QED BY <1>1, <1>2, <1>3, <1>4, <1>5

LEMMA RelayStepKeeps ==
    ASSUME RelayInv, [Relay!Next]_Relay!vars PROVE RelayInv'
<1>0. /\ BotUpdates \in Nat /\ arrived \in Nat /\ confirmed \in Nat /\ last \in Nat
      /\ file \in Nat /\ faults \in Nat /\ repeats \in Nat
      /\ arrived <= BotUpdates /\ confirmed <= arrived /\ last <= arrived /\ file <= arrived
      /\ Relay!Rest.step = "rest"
      /\ poll # Relay!Rest =>
            /\ poll \in Polls /\ poll.at \in Nat /\ poll.to \in Nat
            /\ poll.step \in {"dispatch", "answer", "end", "save"}
            /\ 1 <= poll.at /\ poll.at <= poll.to /\ poll.to <= arrived
            /\ poll.at \in 1 .. BotUpdates
      /\ \A u \in 1 .. BotUpdates : u \in Nat /\ dispatched[u] \in Nat /\ answered[u] \in Nat
  BY RelayTypes DEF RelayInv
<1>00. dispatched \in [1 .. BotUpdates -> Nat] /\ answered \in [1 .. BotUpdates -> Nat]
  BY DEF RelayInv, RelayTyped
<1>1. CASE UNCHANGED Relay!vars
  BY <1>1 DEF Relay!vars, RelayInv, RelayTyped, InOrder, Counted, Passed, Answered
<1>2. CASE Relay!Arrive
  <2>1. arrived' = arrived + 1 /\ arrived < BotUpdates
        /\ UNCHANGED <<confirmed, last, file, poll, dispatched, answered, faults, repeats>>
    BY <1>2 DEF Relay!Arrive
  <2>2. RelayTyped'
    BY <1>0, <1>00, <2>1 DEF RelayTyped
  <2> QED BY <2>1, <2>2 DEF RelayInv, InOrder, Counted, Passed, Answered
<1>3. CASE Relay!Poll
  <2>1. /\ poll.step = "rest" /\ poll = Relay!Rest
        /\ UNCHANGED <<arrived, last, file, dispatched, answered, faults, repeats>>
    BY <1>0, <1>3 DEF Relay!Poll
  <2>2. confirmed' = IF confirmed > last THEN confirmed ELSE last
    BY <1>3 DEF Relay!Poll, Relay!Greater
  <2>3. \/ poll' = Relay!Rest
        \/ /\ poll' = [step |-> "dispatch", at |-> confirmed' + 1, to |-> arrived]
           /\ arrived # confirmed'
    BY <1>3 DEF Relay!Poll
  <2>4. /\ confirmed' \in Nat /\ confirmed' <= arrived
        /\ confirmed <= confirmed' /\ last <= confirmed'
        /\ confirmed' = confirmed \/ confirmed' = last
    BY <1>0, <2>2
  <2>5. \/ poll' = Relay!Rest
        \/ /\ poll' \in Polls /\ poll'.step = "dispatch" /\ poll'.at = confirmed' + 1
           /\ poll'.at <= arrived /\ poll'.to = arrived
    BY <1>0, <2>3, <2>4 DEF Polls
  <2>6. RelayTyped'
    BY <1>0, <1>00, <2>1, <2>4, <2>5 DEF RelayTyped
  <2>7. InOrder'
    BY <1>0, <2>1, <2>4, <2>5 DEF RelayInv, InOrder, Answered
  <2>8. Counted'
    BY <1>0, <2>1, <2>4, <2>5 DEF RelayInv, Counted, Passed
  <2>9. Answered'
    BY <1>0, <2>1, <2>4 DEF RelayInv, Answered
  <2> QED BY <2>6, <2>7, <2>8, <2>9 DEF RelayInv
<1>4. CASE Relay!Dispatch
  <2>1. poll # Relay!Rest /\ poll.step = "dispatch"
    BY <1>0, <1>4 DEF Relay!Dispatch
  <2>2. /\ poll' = [poll EXCEPT !.step = "answer"]
        /\ dispatched' = [dispatched EXCEPT ![poll.at] = dispatched[poll.at] + 1]
        /\ UNCHANGED <<arrived, confirmed, last, file, answered, faults, repeats>>
    BY <1>4 DEF Relay!Dispatch
  <2>3. /\ poll' \in Polls /\ poll'.step = "answer" /\ poll'.at = poll.at /\ poll'.to = poll.to
    BY <1>0, <2>1, <2>2 DEF Polls
  <2>4. /\ \A u \in 1 .. BotUpdates :
              dispatched'[u] = IF u = poll.at THEN dispatched[u] + 1 ELSE dispatched[u]
        /\ dispatched' \in [1 .. BotUpdates -> Nat]
    BY <1>0, <1>00, <2>1, <2>2
  <2>5. RelayTyped'
    BY <1>0, <1>00, <2>1, <2>2, <2>3, <2>4 DEF RelayTyped
  <2>6. answered[poll.at] <= dispatched[poll.at]
    BY <1>0, <2>1 DEF RelayInv, Answered
  <2>7. InOrder'
    BY <1>0, <2>1, <2>2, <2>3, <2>4, <2>6 DEF RelayInv, InOrder
  <2>8. Counted'
    <3> SUFFICES ASSUME NEW u \in 1 .. BotUpdates
                 PROVE  dispatched'[u] <= repeats + faults + (IF Passed(u)' THEN 1 ELSE 0)
      BY <2>2 DEF Counted
    <3>1. Passed(u) \/ u = poll.at => Passed(u)'
      BY <1>0, <2>1, <2>2, <2>3 DEF Passed
    <3>2. dispatched[u] <= repeats + faults + (IF Passed(u) THEN 1 ELSE 0)
      BY DEF RelayInv, Counted
    <3>3. u = poll.at => ~Passed(u)
      BY <1>0, <2>1 DEF Passed, RelayInv, InOrder
    <3> QED BY <1>0, <2>4, <3>1, <3>2, <3>3
  <2>9. Answered'
    <3> SUFFICES ASSUME NEW u \in 1 .. BotUpdates
                 PROVE  /\ u <= confirmed \/ u <= last \/ u <= file => answered[u] > 0
                        /\ answered[u] <= dispatched'[u]
                        /\ dispatched'[u] > 0 => \A v \in 1 .. u - 1 : answered[v] > 0
      BY <2>2 DEF Answered
    <3>1. /\ u <= confirmed \/ u <= last \/ u <= file => answered[u] > 0
          /\ answered[u] <= dispatched[u]
          /\ dispatched[u] > 0 => \A v \in 1 .. u - 1 : answered[v] > 0
      BY DEF RelayInv, Answered
    <3>2. answered[u] <= dispatched'[u]
      <4>1. answered[u] \in Nat /\ dispatched[u] \in Nat
        BY <1>0
      <4>2. dispatched'[u] = dispatched[u] \/ dispatched'[u] = dispatched[u] + 1
        BY <2>4
      <4> QED BY <3>1, <4>1, <4>2
    <3>3. u = poll.at => \A v \in 1 .. u - 1 : answered[v] > 0
      BY <2>1 DEF RelayInv, InOrder
    <3>4. u # poll.at => dispatched'[u] = dispatched[u]
      BY <2>4
    <3> QED BY <3>1, <3>2, <3>3, <3>4
  <2> QED BY <2>5, <2>7, <2>8, <2>9 DEF RelayInv
<1>5. CASE Relay!Answer
  <2>1. poll # Relay!Rest /\ poll.step = "answer"
    BY <1>0, <1>5 DEF Relay!Answer
  <2>2. /\ answered' = [answered EXCEPT ![poll.at] = answered[poll.at] + 1]
        /\ poll' = IF poll.at = poll.to THEN [poll EXCEPT !.step = "end"]
                   ELSE [poll EXCEPT !.step = "dispatch", !.at = poll.at + 1]
        /\ UNCHANGED <<arrived, confirmed, last, file, dispatched, faults, repeats>>
    BY <1>5 DEF Relay!Answer, Relay!Last
  <2>3. /\ poll' \in Polls /\ poll'.to = poll.to
        /\ \/ poll.at = poll.to /\ poll'.step = "end" /\ poll'.at = poll.at
           \/ poll.at < poll.to /\ poll'.step = "dispatch" /\ poll'.at = poll.at + 1
    <3>1. CASE poll.at = poll.to
      BY <1>0, <2>1, <2>2, <3>1 DEF Polls
    <3>2. CASE poll.at # poll.to
      <4>1. poll' = [poll EXCEPT !.step = "dispatch", !.at = poll.at + 1]
        BY <2>2, <3>2
      <4>2. poll \in Polls /\ poll.at + 1 \in Nat /\ poll.at < poll.to
        BY <1>0, <2>1, <3>2
      <4> QED BY <4>1, <4>2 DEF Polls
    <3> QED BY <3>1, <3>2
  <2>4. /\ \A u \in 1 .. BotUpdates :
              answered'[u] = IF u = poll.at THEN answered[u] + 1 ELSE answered[u]
        /\ answered' \in [1 .. BotUpdates -> Nat]
    BY <1>0, <1>00, <2>1, <2>2
  <2>5. RelayTyped'
    <3>1. poll' \in Polls /\ 1 <= poll'.at /\ poll'.at <= poll'.to /\ poll'.to <= arrived
      BY <1>0, <2>1, <2>3
    <3>2. arrived' = arrived /\ confirmed' = confirmed /\ last' = last /\ file' = file
      BY <2>2
    <3>3. answered' \in [1 .. BotUpdates -> Nat] /\ dispatched' \in [1 .. BotUpdates -> Nat]
      BY <1>00, <2>2, <2>4
    <3>4. faults' \in Nat /\ repeats' \in Nat
      BY <1>0, <2>2
    <3>5. arrived' \in 0 .. BotUpdates /\ confirmed' \in 0 .. arrived' /\ last' \in 0 .. arrived'
          /\ file' \in 0 .. arrived'
      BY <1>0, <3>2
    <3> QED BY <3>1, <3>2, <3>3, <3>4, <3>5 DEF RelayTyped
  <2>6. InOrder'
    <3>1. \A u \in 1 .. poll.at : answered'[u] > 0
      <4> TAKE u \in 1 .. poll.at
      <4>1. u \in 1 .. BotUpdates /\ (u = poll.at \/ u \in 1 .. poll.at - 1)
        BY <1>0, <2>1
      <4>2. u # poll.at => answered[u] > 0
        BY <2>1, <4>1 DEF RelayInv, InOrder
      <4> QED BY <1>0, <2>4, <4>1, <4>2
    <3>2. confirmed < poll.at /\ last < poll.at
      BY <2>1 DEF RelayInv, InOrder
    <3> QED BY <1>0, <2>1, <2>2, <2>3, <3>1, <3>2 DEF InOrder
  <2>7. Counted'
    <3> SUFFICES ASSUME NEW u \in 1 .. BotUpdates
                 PROVE  dispatched[u] <= repeats + faults + (IF Passed(u)' THEN 1 ELSE 0)
      BY <2>2 DEF Counted
    <3>1. Passed(u) => Passed(u)'
      BY <1>0, <2>1, <2>2, <2>3 DEF Passed
    <3>2. dispatched[u] <= repeats + faults + (IF Passed(u) THEN 1 ELSE 0)
      BY DEF RelayInv, Counted
    <3> QED BY <1>0, <3>1, <3>2
  <2>8. Answered'
    <3>1. answered[poll.at] < dispatched[poll.at]
      BY <2>1 DEF RelayInv, InOrder
    <3>2. \A u \in 1 .. BotUpdates : answered[u] > 0 => answered'[u] > 0
      BY <1>0, <2>4
    <3>3. \A u \in 1 .. BotUpdates : answered'[u] <= dispatched[u]
      <4>1. \A u \in 1 .. BotUpdates : answered[u] <= dispatched[u]
        BY DEF RelayInv, Answered
      <4> QED BY <1>0, <2>4, <3>1, <4>1
    <3>4. \A u \in 1 .. BotUpdates :
            /\ u <= confirmed \/ u <= last \/ u <= file => answered'[u] > 0
            /\ dispatched[u] > 0 => \A v \in 1 .. u - 1 : answered'[v] > 0
      <4> TAKE u \in 1 .. BotUpdates
      <4>1. /\ u <= confirmed \/ u <= last \/ u <= file => answered[u] > 0
            /\ dispatched[u] > 0 => \A v \in 1 .. u - 1 : answered[v] > 0
        BY DEF RelayInv, Answered
      <4>2. \A v \in 1 .. u - 1 : v \in 1 .. BotUpdates
        BY <1>0
      <4> QED BY <3>2, <4>1, <4>2
    <3> QED BY <2>2, <3>3, <3>4 DEF Answered
  <2> QED BY <2>5, <2>6, <2>7, <2>8 DEF RelayInv
<1>6. CASE Relay!EndOfBatch
  <2>1. poll # Relay!Rest /\ poll.step = "end"
    BY <1>0, <1>6 DEF Relay!EndOfBatch
  <2>2. /\ poll' = [poll EXCEPT !.step = "save"] /\ last' = poll.to
        /\ UNCHANGED <<arrived, confirmed, file, dispatched, answered, faults, repeats>>
    BY <1>6 DEF Relay!EndOfBatch
  <2>3. poll' \in Polls /\ poll'.to = poll.to /\ poll'.at = poll.at /\ poll'.step = "save"
    BY <1>0, <2>1, <2>2 DEF Polls
  <2>4. poll.at = poll.to /\ answered[poll.at] > 0 /\ last < poll.at
        /\ \A u \in 1 .. poll.at - 1 : answered[u] > 0
    BY <2>1 DEF RelayInv, InOrder
  <2>5. RelayTyped'
    BY <1>0, <1>00, <2>1, <2>2, <2>3 DEF RelayTyped
  <2>6. InOrder'
    BY <1>0, <2>1, <2>2, <2>3, <2>4 DEF InOrder
  <2>7. Counted'
    <3> SUFFICES ASSUME NEW u \in 1 .. BotUpdates
                 PROVE  dispatched[u] <= repeats + faults + (IF Passed(u)' THEN 1 ELSE 0)
      BY <2>2 DEF Counted
    <3>1. Passed(u) => Passed(u)'
      BY <1>0, <2>1, <2>2, <2>3, <2>4 DEF Passed
    <3>2. dispatched[u] <= repeats + faults + (IF Passed(u) THEN 1 ELSE 0)
      BY DEF RelayInv, Counted
    <3> QED BY <1>0, <3>1, <3>2
  <2>8. Answered'
    <3>1. \A u \in 1 .. BotUpdates : u <= poll.to => answered[u] > 0
      BY <1>0, <2>1, <2>4
    <3> QED BY <1>0, <2>2, <3>1 DEF RelayInv, Answered
  <2> QED BY <2>5, <2>6, <2>7, <2>8 DEF RelayInv
<1>7. CASE Relay!SaveState
  <2>1. poll # Relay!Rest /\ poll.step = "save"
    BY <1>0, <1>7 DEF Relay!SaveState
  <2>2. /\ poll' = Relay!Rest /\ file' = last
        /\ UNCHANGED <<arrived, confirmed, last, dispatched, answered, faults, repeats>>
    BY <1>7 DEF Relay!SaveState
  <2>3. RelayTyped'
    BY <1>0, <1>00, <2>2 DEF RelayTyped
  <2>4. InOrder'
    BY <1>0, <2>2 DEF InOrder
  <2>5. poll.at = poll.to /\ poll.to <= last
    BY <2>1 DEF RelayInv, InOrder
  <2>6. Counted'
    <3> SUFFICES ASSUME NEW u \in 1 .. BotUpdates
                 PROVE  dispatched[u] <= repeats + faults + (IF Passed(u)' THEN 1 ELSE 0)
      BY <2>2 DEF Counted
    <3>1. Passed(u) => Passed(u)'
      BY <1>0, <2>1, <2>2, <2>5 DEF Passed
    <3>2. dispatched[u] <= repeats + faults + (IF Passed(u) THEN 1 ELSE 0)
      BY DEF RelayInv, Counted
    <3> QED BY <1>0, <3>1, <3>2
  <2>7. Answered'
    BY <2>2 DEF RelayInv, Answered
  <2> QED BY <2>3, <2>4, <2>6, <2>7 DEF RelayInv
<1>8. CASE Relay!Refuse \/ Relay!Lose \/ Relay!Crash
  <2>1. /\ poll' = Relay!Rest
        /\ last' \in {last, file, 0}
        /\ UNCHANGED <<arrived, confirmed, file, answered>>
    BY <1>8 DEF Relay!Refuse, Relay!Lose, Relay!Crash, Relay!Broken
  <2>2. /\ faults' \in {faults, faults + 1} /\ repeats' \in {repeats, repeats + 1}
        /\ faults' = faults + 1 \/ repeats' = repeats + 1
        /\ poll.step = "dispatch" => repeats' = repeats + 1
    BY <1>8 DEF Relay!Refuse, Relay!Lose, Relay!Crash, Relay!Broken, Relay!Fault
  <2>3. \/ dispatched' = dispatched
        \/ /\ poll.step = "dispatch" /\ faults' = faults + 1
           /\ dispatched' = [dispatched EXCEPT ![poll.at] = dispatched[poll.at] + 1]
    BY <1>8 DEF Relay!Refuse, Relay!Lose, Relay!Crash, Relay!Fault
  <2>4. poll.step = "dispatch" => poll # Relay!Rest
    BY <1>0
  <2>5. /\ dispatched' \in [1 .. BotUpdates -> Nat]
        /\ \A u \in 1 .. BotUpdates :
              \/ dispatched'[u] = dispatched[u]
              \/ /\ poll # Relay!Rest /\ u = poll.at /\ dispatched'[u] = dispatched[u] + 1
                 /\ faults' = faults + 1 /\ repeats' = repeats + 1
    <3>1. CASE dispatched' = dispatched
      BY <1>00, <3>1
    <3>2. CASE dispatched' # dispatched
      <4>1. /\ poll # Relay!Rest /\ faults' = faults + 1 /\ repeats' = repeats + 1
            /\ dispatched' = [dispatched EXCEPT ![poll.at] = dispatched[poll.at] + 1]
        BY <2>2, <2>3, <2>4, <3>2
      <4>2. poll.at \in 1 .. BotUpdates /\ dispatched[poll.at] + 1 \in Nat
        BY <1>0, <4>1
      <4> QED BY <1>00, <4>1, <4>2
    <3> QED BY <3>1, <3>2
  <2>6. RelayTyped'
    BY <1>0, <1>00, <2>1, <2>2, <2>5 DEF RelayTyped
  <2>7. InOrder'
    BY <1>0, <2>1 DEF InOrder
  <2>8. Counted'
    <3> SUFFICES ASSUME NEW u \in 1 .. BotUpdates
                 PROVE  dispatched'[u] <= repeats' + faults'
      <4>1. \A u \in 1 .. BotUpdates : dispatched'[u] \in Nat
        BY <2>5
      <4>2. repeats' \in Nat /\ faults' \in Nat
        BY <1>0, <2>2
      <4> QED BY <4>1, <4>2 DEF Counted
    <3>1. dispatched[u] <= repeats + faults + 1
      BY <1>0 DEF RelayInv, Counted
    <3> QED BY <1>0, <2>2, <2>5, <3>1
  <2>9. Answered'
    <3>1. \A u \in 1 .. BotUpdates : dispatched[u] <= dispatched'[u]
      BY <1>0, <2>5
    <3>2. \A u \in 1 .. BotUpdates : dispatched'[u] > 0 =>
              dispatched[u] > 0 \/ (poll # Relay!Rest /\ u = poll.at)
      BY <1>0, <2>5
    <3>3. poll # Relay!Rest => \A v \in 1 .. poll.at - 1 : answered[v] > 0
      BY DEF RelayInv, InOrder
    <3>4. \A u \in 1 .. BotUpdates : u <= last' => u <= last \/ u <= file
      BY <1>0, <2>1
    <3>5. \A u \in 1 .. BotUpdates : answered[u] <= dispatched'[u]
      BY <1>0, <3>1, <2>5 DEF RelayInv, Answered
    <3> QED BY <1>0, <2>1, <3>2, <3>3, <3>4, <3>5 DEF RelayInv, Answered
  <2> QED BY <2>6, <2>7, <2>8, <2>9 DEF RelayInv
<1> QED BY <1>1, <1>2, <1>3, <1>4, <1>5, <1>6, <1>7, <1>8 DEF Relay!Next

LEMMA RelayHoldsFollows ==
    ASSUME RelayInv PROVE Relay!RelayHolds
BY DEF RelayInv, RelayTyped, Counted, Answered, Relay!RelayHolds

LEMMA RelaySteps ==
    ASSUME focus = "relay", [Next]_<<focus, everything>>
    PROVE  [Relay!Next]_Relay!vars
<1>1. CASE UNCHANGED <<focus, everything>>
  BY <1>1 DEF everything, Relay!vars
<1>2. CASE Next
  BY <1>2 DEF Next
<1> QED BY <1>1, <1>2

LEMMA RelayKept == Spec => [](focus = "relay" => RelayInv)
<1>1. Init => (focus = "relay" => RelayInv)
  BY RelayBegins DEF Init
<1>2. (focus = "relay" => RelayInv) /\ [Next]_<<focus, everything>>
        => (focus = "relay" => RelayInv)'
  <2> SUFFICES ASSUME focus = "relay" => RelayInv, [Next]_<<focus, everything>>,
                      focus' = "relay"
               PROVE  RelayInv'
    OBVIOUS
  <2>1. focus = "relay" /\ RelayInv
    BY DEF Next
  <2>2. [Relay!Next]_Relay!vars
    BY <2>1, RelaySteps
  <2> QED BY <2>1, <2>2, RelayStepKeeps
<1> QED BY <1>1, <1>2, PTL DEF Spec

(* An update is confirmed, or counted as handled, only when it is answered,  *)
(* updates are handled in order, and again only after a fault.               *)
THEOREM UpdatesAreHandled == Spec => []RelayHolds
<1>1. (focus = "relay" => RelayInv) => RelayHolds
  BY RelayHoldsFollows DEF RelayHolds
<1> QED BY <1>1, RelayKept, PTL

-----------------------------------------------------------------------------
(* Drafts of evening routes, for any roles, candidates, limits and calls. What *)
(* routeFromGenerated builds step by step is followed by its least step.     *)

draft == v1
routes == v2
drafted == v3
weekMeetups == v4
drafting == v5
draftCallsLeft == v6
shown == v7
agreed == v8
crossedSteps == v9
rushed == v10
twins == v11
undone == v12
USE DEF draft, routes, drafted, weekMeetups, drafting, draftCallsLeft, shown,
        agreed, crossedSteps, rushed, twins, undone

-----------------------------------------------------------------------------
LEMMA DraftCounts == \A S : Draft!Cardinality(S) = Cardinality(S)
BY DEF Draft!Cardinality, Cardinality

DraftRows ==
    [route : Seq(Draft!Candidates), accepted : SUBSET Draft!Steps,
     rejected : SUBSET Draft!Candidates, saved : Nat]
Weeks == Nat \X SUBSET DraftKeys
Openings ==
    {Draft!Idle} \union [op : {"create"}, saw : Weeks]
        \union [op : {"meetup"}, key : DraftKeys, saw : Weeks]
        \union [op : {"accept", "step"}, step : Draft!Steps, read : DraftRows]
        \union [op : {"draft", "confirm"}, step : {0}, read : DraftRows]

DraftTyped ==
    /\ draft \in DraftRows
    /\ routes \in Seq(Seq(Draft!Candidates))
    /\ drafted \in Nat
    /\ weekMeetups \in SUBSET DraftKeys /\ IsFiniteSet(weekMeetups)
    /\ drafting \in [AnyCalls -> Openings]
    /\ shown \in Seq(Draft!Candidates)
    /\ agreed \in [Draft!Steps -> SUBSET Draft!Candidates]
    /\ crossedSteps \in SUBSET Draft!Steps

(* What the row says was accepted is what the user saw, unless it crossed a  *)
(* change.                                                                   *)
Honest(route, accepted) == \A i \in accepted : route[i] \in agreed[i] \/ i \in crossedSteps

RowHonest(row) ==
    /\ Draft!Fits(row.route)
    /\ undone \/ Draft!Used(row.route) \intersect row.rejected = {}
    /\ Honest(row.route, row.accepted)

(* The week as a call saw it has room.                                       *)
HasRoom(saw) == saw[1] + Cardinality(saw[2]) < MaxWeekly

SketchFits(k) ==
    /\ drafting[k].op = "create" =>
         Draft!EnoughFor(Draft!Candidates) /\ drafting[k].saw[1] < MaxDrafts
             /\ HasRoom(drafting[k].saw)
    /\ drafting[k].op = "meetup"
          => drafting[k].key \notin drafting[k].saw[2] /\ HasRoom(drafting[k].saw)
    /\ drafting[k].op \in {"accept", "step", "draft", "confirm"} =>
         draft # Draft!NoDraft /\ RowHonest(drafting[k].read)
    /\ drafting[k].op = "accept" => Honest(drafting[k].read.route, {drafting[k].step})
    /\ drafting[k].op = "confirm" => drafting[k].read.accepted = Draft!Steps

RoutesAgreed ==
    \A n \in DOMAIN routes :
        /\ Draft!Fits(routes[n])
        /\ \A i \in Draft!Steps : routes[n][i] \in agreed[i] \/ i \in crossedSteps

DraftInv ==
    /\ DraftTyped
    /\ draft # Draft!NoDraft => RowHonest(draft) /\ Draft!Fits(shown)
    /\ draft.saved = 0 => routes = <<>>
    /\ RoutesAgreed
    /\ twins \/ Len(routes) <= 1
    /\ rushed \/ Draft!WithinTheWeek
    /\ \A k \in AnyCalls : SketchFits(k)

-----------------------------------------------------------------------------
(* Candidates and routes.                                                    *)

LEMMA SomethingIsLeast ==
    ASSUME NEW S \in SUBSET Nat, IsFiniteSet(S), S # {}
    PROVE  \E x \in S : \A y \in S : x <= y
<1> DEFINE below(m) == {k \in S : k < m}
           T == {below(m) : m \in S}
<1>1. T \subseteq FiniteSubsetsOf(S)
  BY FS_Subset DEF FiniteSubsetsOf
<1>2. T # {}
  OBVIOUS
<1>3. IsWellFoundedOn(StrictSubsetOrdering(S), FiniteSubsetsOf(S))
  BY FS_StrictSubsetOrderingWellFounded
<1>4. \E x \in T : \A y \in T : <<y, x>> \notin StrictSubsetOrdering(S)
  <2> HIDE DEF T
  <2> QED BY <1>1, <1>2, <1>3, WFMin
<1>5. PICK m \in S : \A n \in S : <<below(n), below(m)>> \notin StrictSubsetOrdering(S)
  BY <1>4
<1>6. \A n \in S : m <= n
  <2> SUFFICES ASSUME NEW n \in S, ~(m <= n) PROVE FALSE
    OBVIOUS
  <2>1. n < m /\ m \in Nat /\ n \in Nat
    OBVIOUS
  <2>2. below(n) \subseteq below(m)
    <3>1. \A k \in S : k \in Nat /\ (k < n => k < m)
      BY <2>1
    <3> QED BY <3>1
  <2>3. n \in below(m) /\ n \notin below(n)
    BY <2>1
  <2>4. below(n) \in SUBSET S /\ below(m) \in SUBSET S
    OBVIOUS
  <2> HIDE DEF below
  <2>5. <<below(n), below(m)>> \in StrictSubsetOrdering(S)
    BY <2>2, <2>3, <2>4 DEF StrictSubsetOrdering
  <2> QED BY <2>5, <1>5
<1> QED BY <1>6


LEMMA FirstIsOffered ==
    ASSUME NEW S \in SUBSET Draft!Candidates, S # {} PROVE Draft!Min(S) \in S
<1>1. S \in SUBSET Nat /\ IsFiniteSet(S)
  <2>1. IsFiniteSet(Draft!Candidates) /\ Draft!Candidates \subseteq Nat
    BY DraftsFit, FS_Interval DEF Draft!Candidates
  <2> QED BY <2>1, FS_Subset
<1>2. \E x \in S : \A y \in S : x <= y
  BY <1>1, SomethingIsLeast
<1> QED BY <1>2 DEF Draft!Min

LEMMA StepsAreNumbered ==
    /\ Len(DraftRoles) \in Nat /\ Draft!Steps = 1 .. Len(DraftRoles)
          /\ {0} \union Draft!Steps = 0 .. Len(DraftRoles)
    /\ IsFiniteSet(Draft!Steps)
<1>1. Len(DraftRoles) \in Nat /\ Draft!Steps = 1 .. Len(DraftRoles)
  BY DraftsFit DEF Draft!Steps
<1> QED BY <1>1, FS_Interval

(* What routeFromGenerated puts at step i behind the steps so far.           *)
Chosen(answer, offered, route, i) ==
    IF answer[i] \in offered /\ DraftOffers[answer[i]] = DraftRoles[i]
        /\ answer[i] \notin Draft!Used(route)
    THEN answer[i] ELSE Draft!Substitute(DraftRoles[i], route, offered)

Walks(f, n, answer, offered) ==
    f = [i \in 0 .. n |-> IF i = 0 THEN <<>>
                          ELSE Append(f[i - 1], Chosen(answer, offered, f[i - 1], i))]

LEMMA GoesOnOneStep ==
    ASSUME NEW n \in Nat, NEW answer, NEW offered, NEW f, Walks(f, n, answer, offered)
    PROVE  \E g : Walks(g, n + 1, answer, offered)
<1> DEFINE g == [i \in 0 .. n + 1 |->
                   IF i = n + 1 THEN Append(f[n], Chosen(answer, offered, f[n], n + 1)) ELSE f[i]]
<1>1. \A i \in 0 .. n : f[i] = IF i = 0 THEN <<>>
                               ELSE Append(f[i - 1], Chosen(answer, offered, f[i - 1], i))
  BY DEF Walks
<1>2. \A i \in 0 .. n + 1 : g[i] = IF i = 0 THEN <<>>
                               ELSE Append(g[i - 1], Chosen(answer, offered, g[i - 1], i))
  <2> TAKE i \in 0 .. n + 1
  <2>1. CASE i = 0
    BY <1>1, <2>1
  <2>2. CASE i \in 1 .. n
    <3>1. g[i] = f[i] /\ g[i - 1] = f[i - 1] /\ i # 0 /\ i \in 0 .. n
      BY <2>2
    <3> QED BY <1>1, <3>1
  <2>3. CASE i = n + 1
    <3>1. g[i - 1] = f[n] /\ i # 0 /\ i - 1 = n
      BY <2>3
    <3> QED BY <2>3, <3>1
  <2> QED BY <2>1, <2>2, <2>3
<1>3. g = [i \in 0 .. n + 1 |-> g[i]]
  OBVIOUS
<1> HIDE DEF g
<1>4. Walks(g, n + 1, answer, offered)
  BY <1>2, <1>3 DEF Walks
<1> QED BY <1>4

LEMMA GoesAllTheWay ==
    ASSUME NEW answer, NEW offered
    PROVE  \E f : Walks(f, Len(DraftRoles), answer, offered)
<1> DEFINE Bad == {n \in 0 .. Len(DraftRoles) : ~ \E f : Walks(f, n, answer, offered)}
<1> SUFFICES ASSUME Bad # {} PROVE FALSE
  BY StepsAreNumbered
<1>1. Bad \in SUBSET Nat /\ IsFiniteSet(Bad)
  <2>1. IsFiniteSet(0 .. Len(DraftRoles))
    BY StepsAreNumbered, FS_Interval
  <2> QED BY <2>1, FS_Subset
<1>2. PICK n \in Bad : \A m \in Bad : n <= m
  <2> HIDE DEF Bad
  <2> QED BY <1>1, SomethingIsLeast
<1>3. n # 0
  <2>1. Walks([i \in 0 .. 0 |-> <<>>], 0, answer, offered)
    BY DEF Walks
  <2> QED BY <2>1
<1>4. n - 1 \in 0 .. Len(DraftRoles) /\ n - 1 \in Nat /\ n - 1 + 1 = n
  BY <1>3, StepsAreNumbered
<1>5. PICK f : Walks(f, n - 1, answer, offered)
  BY <1>2, <1>4
<1>6. \E g : Walks(g, n - 1 + 1, answer, offered)
  BY <1>4, <1>5, GoesOnOneStep
<1> QED BY <1>4, <1>6

LEMMA GeneratedGoes ==
    ASSUME NEW answer, NEW offered
    PROVE  \E f : /\ Walks(f, Len(DraftRoles), answer, offered)
                  /\ Draft!FromGenerated(answer, offered) = f[Len(DraftRoles)]
<1> DEFINE Is(f) == f = [i \in {0} \union Draft!Steps |->
                      IF i = 0 THEN <<>>
                      ELSE LET c == answer[i] IN
                           Append(f[i - 1],
                                  IF /\ c \in offered
                                     /\ DraftOffers[c] = DraftRoles[i]
                                     /\ c \notin Draft!Used(f[i - 1])
                                  THEN c ELSE Draft!Substitute(DraftRoles[i], f[i - 1], offered))]
<1>1. \A f : Walks(f, Len(DraftRoles), answer, offered) <=> Is(f)
  BY StepsAreNumbered DEF Walks, Chosen
<1>2. \E f : Is(f)
  BY <1>1, GoesAllTheWay
<1>3. Is(CHOOSE f : Is(f))
  BY <1>2
<1>4. Draft!FromGenerated(answer, offered) = (CHOOSE f : Is(f))[Len(DraftRoles)]
  BY DEF Draft!FromGenerated
<1> QED BY <1>1, <1>3, <1>4

(* The steps so far: offered, of their roles, and each its own.              *)
FitsUpTo(route, n, offered) ==
    /\ route \in Seq(Draft!Candidates) /\ Len(route) = n
    /\ \A i \in 1 .. n : /\ route[i] \in offered
                         /\ DraftOffers[route[i]] = DraftRoles[i]
                         /\ \A j \in 1 .. n : route[j] = route[i] => j = i

(* There are enough candidates of a role for all its steps, so one is left   *)
(* for the next.                                                             *)
LEMMA OneIsLeft ==
    ASSUME NEW offered \in SUBSET Draft!Candidates, Draft!EnoughFor(offered),
           NEW i \in Draft!Steps,
           NEW route, FitsUpTo(route, i - 1, offered)
    PROVE  {c \in offered : DraftOffers[c] = DraftRoles[i]
           /\ c \notin Draft!Used(route)} # {}
<1> DEFINE J == {j \in Draft!Steps : DraftRoles[j] = DraftRoles[i]}
           Before == {j \in 1 .. i - 1 : DraftRoles[j] = DraftRoles[i]}
           C == {c \in offered : DraftOffers[c] = DraftRoles[i]}
<1> SUFFICES ASSUME \A c \in C : c \in Draft!Used(route) PROVE FALSE
  OBVIOUS
<1>1. i \in Nat /\ i \in 1 .. Len(DraftRoles) /\ Len(DraftRoles) \in Nat
          /\ IsFiniteSet(Draft!Steps)
  BY StepsAreNumbered
<1>2. IsFiniteSet(J) /\ IsFiniteSet(Before) /\ Before \subseteq J /\ i \in J
          /\ i \notin Before
  <2>1. Before \subseteq J /\ i \in J /\ i \notin Before
    BY <1>1, StepsAreNumbered
  <2>2. IsFiniteSet(J)
    BY <1>1, FS_Subset
  <2> QED BY <2>1, <2>2, FS_Subset
<1>3. Cardinality(Before) < Cardinality(J)
  <2>1. Cardinality(Before) <= Cardinality(J) /\ (Cardinality(J) = Cardinality(Before) =>
            J = Before)
    BY <1>2, FS_Subset
  <2>2. Cardinality(Before) \in Nat /\ Cardinality(J) \in Nat
    BY <1>2, FS_CardinalityType
  <2> QED BY <1>2, <2>1, <2>2
<1>4. \A c \in C : \E j \in Before : route[j] = c
  <2> TAKE c \in C
  <2>1. DOMAIN route = 1 .. i - 1
    BY <1>1 DEF FitsUpTo
  <2>2. PICK j \in 1 .. i - 1 : route[j] = c
    BY <2>1 DEF Draft!Used
  <2>3. DraftOffers[route[j]] = DraftRoles[j]
    BY DEF FitsUpTo
  <2> QED BY <2>2, <2>3
<1> DEFINE at == [c \in C |-> CHOOSE j \in Before : route[j] = c]
<1>5. \A c \in C : at[c] \in Before /\ route[at[c]] = c
  BY <1>4
<1>6. at \in Injection(C, Before)
  <2>1. at \in [C -> Before]
    BY <1>5
  <2> HIDE DEF at
  <2> QED BY <1>5, <2>1 DEF Injection, IsInjective
<1>7. Cardinality(C) <= Cardinality(Before) /\ IsFiniteSet(C)
  <2> HIDE DEF at, C, Before
  <2> QED BY <1>2, <1>6, FS_Injection
<1>8. Cardinality(J) <= Cardinality(C)
  BY DraftCounts DEF Draft!EnoughFor
<1>9. Cardinality(Before) \in Nat /\ Cardinality(J) \in Nat /\ Cardinality(C) \in Nat
  BY <1>2, <1>7, FS_CardinalityType
<1> HIDE DEF C, J, Before
<1> QED BY <1>3, <1>7, <1>8, <1>9

LEMMA FitsOneMore ==
    ASSUME NEW offered \in SUBSET Draft!Candidates, NEW n \in Nat, NEW route,
           FitsUpTo(route, n, offered),
           NEW c \in offered, DraftOffers[c] = DraftRoles[n + 1], c \notin Draft!Used(route)
    PROVE  FitsUpTo(Append(route, c), n + 1, offered)
<1>1. route \in Seq(Draft!Candidates) /\ Len(route) = n /\ c \in Draft!Candidates
          /\ DOMAIN route = 1 .. n
  BY DEF FitsUpTo
<1>2. Append(route, c) \in Seq(Draft!Candidates) /\ Len(Append(route, c)) = n + 1
        /\ Append(route, c)[n + 1] = c /\ \A i \in 1 .. n : Append(route, c)[i] = route[i]
  BY <1>1
<1>3. \A i \in 1 .. n : route[i] # c
  BY <1>1 DEF Draft!Used
<1>4. \A i \in 1 .. n + 1 : i \in 1 .. n \/ i = n + 1
  OBVIOUS
<1> DEFINE longer == Append(route, c)
<1> HIDE DEF longer
<1>5. \A i \in 1 .. n + 1 : /\ longer[i] \in offered
                            /\ DraftOffers[longer[i]] = DraftRoles[i]
                            /\ \A j \in 1 .. n + 1 : longer[j] = longer[i] => j = i
  BY <1>2, <1>3, <1>4 DEF FitsUpTo, longer
<1> QED BY <1>2, <1>5 DEF FitsUpTo, longer

LEMMA ChosenFits ==
    ASSUME NEW offered \in SUBSET Draft!Candidates, NEW answer, NEW i \in Draft!Steps,
           Draft!EnoughFor(offered),
           NEW route, FitsUpTo(route, i - 1, offered)
    PROVE  FitsUpTo(Append(route, Chosen(answer, offered, route, i)), i, offered)
<1> DEFINE c == Chosen(answer, offered, route, i)
           S == {x \in offered : DraftOffers[x] = DraftRoles[i]
               /\ x \notin Draft!Used(route)}
<1>1. i \in Nat /\ i # 0 /\ i - 1 \in Nat /\ i - 1 + 1 = i
  BY StepsAreNumbered
<1>2. c \in S
  <2>1. CASE answer[i] \in offered /\ DraftOffers[answer[i]] = DraftRoles[i]
            /\ answer[i] \notin Draft!Used(route)
    BY <2>1 DEF Chosen
  <2>2. CASE ~(answer[i] \in offered /\ DraftOffers[answer[i]] = DraftRoles[i]
            /\ answer[i] \notin Draft!Used(route))
    <3>1. c = Draft!Min(S)
      BY <2>2 DEF Chosen, Draft!Substitute
    <3>2. S # {}
      BY OneIsLeft
    <3> QED BY <3>1, <3>2, FirstIsOffered
  <2> QED BY <2>1, <2>2
<1> HIDE DEF c
<1>3. c \in offered /\ DraftOffers[c] = DraftRoles[i - 1 + 1] /\ c \notin Draft!Used(route)
  BY <1>1, <1>2
<1>4. FitsUpTo(Append(route, c), i - 1 + 1, offered)
  BY <1>1, <1>3, FitsOneMore
<1> QED BY <1>1, <1>4 DEF c

(* Induction over a number of steps.                                         *)
LEMMA UpToTheLast ==
    ASSUME NEW N \in Nat, NEW S, 0 \in S, \A n \in 0 .. N - 1 : n \in S => n + 1 \in S
    PROVE  0 .. N \subseteq S
<1> DEFINE Bad == (0 .. N) \ S
<1> SUFFICES ASSUME Bad # {} PROVE FALSE
  OBVIOUS
<1>1. Bad \in SUBSET Nat /\ IsFiniteSet(Bad)
  <2>1. IsFiniteSet(0 .. N)
    BY FS_Interval
  <2> QED BY <2>1, FS_Subset
<1>2. PICK n \in Bad : \A m \in Bad : n <= m
  <2> HIDE DEF Bad
  <2> QED BY <1>1, SomethingIsLeast
<1>3. n # 0 /\ n - 1 \in 0 .. N - 1 /\ n - 1 + 1 = n
  OBVIOUS
<1>4. n - 1 \in S
  BY <1>2, <1>3
<1> QED BY <1>3, <1>4

(* The routes on the way: from none, one candidate more at each step.        *)
LEMMA GoesStepwise ==
    ASSUME NEW f, NEW answer, NEW offered, Walks(f, Len(DraftRoles), answer, offered)
    PROVE  /\ f[0] = <<>>
           /\ \A n \in 0 .. Len(DraftRoles) - 1 :
                  f[n + 1] = Append(f[n], Chosen(answer, offered, f[n], n + 1))
<1>1. \A i \in 0 .. Len(DraftRoles) :
        f[i] = IF i
            = 0 THEN <<>> ELSE Append(f[i - 1], Chosen(answer, offered, f[i - 1], i))
  BY DEF Walks
<1>2. 0 \in 0 .. Len(DraftRoles)
  BY StepsAreNumbered
<1>3. ASSUME NEW n \in 0 .. Len(DraftRoles) - 1
      PROVE  f[n + 1] = Append(f[n], Chosen(answer, offered, f[n], n + 1))
  <2> DEFINE m == n + 1
  <2>1. m \in 0 .. Len(DraftRoles) /\ m # 0 /\ m - 1 = n
    BY StepsAreNumbered
  <2> HIDE DEF m
  <2>2. f[m] = Append(f[n], Chosen(answer, offered, f[n], m))
    BY <1>1, <2>1
  <2> QED BY <2>2 DEF m
<1> QED BY <1>1, <1>2, <1>3

(* Whatever the model answers, what is made of it fits.                      *)
LEMMA GeneratedFits ==
    ASSUME NEW offered \in SUBSET Draft!Candidates, Draft!EnoughFor(offered), NEW answer
    PROVE  FitsUpTo(Draft!FromGenerated(answer, offered), Len(DraftRoles), offered)
<1>1. PICK f : /\ Walks(f, Len(DraftRoles), answer, offered)
               /\ Draft!FromGenerated(answer, offered) = f[Len(DraftRoles)]
  BY GeneratedGoes
<1> DEFINE S == {n \in 0 .. Len(DraftRoles) : FitsUpTo(f[n], n, offered)}
<1>2. 0 \in S
  <2>1. f[0] = <<>> /\ 0 \in 0 .. Len(DraftRoles)
    BY <1>1, GoesStepwise, StepsAreNumbered
  <2>2. FitsUpTo(<<>>, 0, offered)
    BY DEF FitsUpTo
  <2> QED BY <2>1, <2>2
<1>3. ASSUME NEW n \in 0 .. Len(DraftRoles) - 1, n \in S PROVE n + 1 \in S
  <2>1. n + 1 \in Draft!Steps /\ n + 1 \in 0 .. Len(DraftRoles) /\ n + 1 # 0
            /\ n + 1 - 1 = n
    BY StepsAreNumbered
  <2>2. f[n + 1] = Append(f[n], Chosen(answer, offered, f[n], n + 1))
    BY <1>1, GoesStepwise
  <2>3. FitsUpTo(f[n], n, offered)
    BY <1>3
  <2>4. FitsUpTo(f[n], n + 1 - 1, offered)
    BY <2>1, <2>3
  <2>5. FitsUpTo(Append(f[n], Chosen(answer, offered, f[n], n + 1)), n + 1, offered)
    <3> DEFINE i == n + 1
    <3>1. i \in Draft!Steps /\ FitsUpTo(f[n], i - 1, offered)
      BY <2>1, <2>4
    <3> HIDE DEF i
    <3>2. FitsUpTo(Append(f[n], Chosen(answer, offered, f[n], i)), i, offered)
      BY <3>1, ChosenFits
    <3> QED BY <3>2 DEF i
  <2> QED BY <2>1, <2>2, <2>5
<1>4. 0 .. Len(DraftRoles) \subseteq S
  <2> HIDE DEF S
  <2> QED BY <1>2, <1>3, UpToTheLast, StepsAreNumbered
<1> QED BY <1>1, <1>4, StepsAreNumbered

(* A valid answer is taken as it is.                                         *)
Follows(route, n, answer) ==
    /\ route \in Seq(Draft!Candidates) /\ Len(route) = n
    /\ \A i \in 1 .. n : route[i] = answer[i]

LEMMA ValidIsTaken ==
    ASSUME NEW offered \in SUBSET Draft!Candidates, NEW answer, Draft!Valid(answer, offered)
    PROVE  Follows(Draft!FromGenerated(answer, offered), Len(DraftRoles), answer)
<1>1. PICK f : /\ Walks(f, Len(DraftRoles), answer, offered)
               /\ Draft!FromGenerated(answer, offered) = f[Len(DraftRoles)]
  BY GeneratedGoes
<1> DEFINE S == {n \in 0 .. Len(DraftRoles) : Follows(f[n], n, answer)}
<1>2. 0 \in S
  <2>1. f[0] = <<>> /\ 0 \in 0 .. Len(DraftRoles)
    BY <1>1, GoesStepwise, StepsAreNumbered
  <2>2. Follows(<<>>, 0, answer)
    BY DEF Follows
  <2> QED BY <2>1, <2>2
<1>3. ASSUME NEW n \in 0 .. Len(DraftRoles) - 1, n \in S PROVE n + 1 \in S
  <2>1. /\ n + 1 \in Draft!Steps /\ n + 1 \in 0 .. Len(DraftRoles) /\ n + 1 # 0
            /\ n + 1 - 1 = n
        /\ n \in Nat /\ 1 .. n \subseteq Draft!Steps
    BY StepsAreNumbered
  <2>2. f[n + 1] = Append(f[n], Chosen(answer, offered, f[n], n + 1))
    BY <1>1, GoesStepwise
  <2>3. Follows(f[n], n, answer) /\ DOMAIN f[n] = 1 .. n
    BY <1>3 DEF Follows
  <2>4. answer[n + 1] \in offered /\ DraftOffers[answer[n + 1]] = DraftRoles[n + 1]
          /\ \A j \in Draft!Steps : answer[j] = answer[n + 1] => j = n + 1
    BY <2>1 DEF Draft!Valid
  <2>5. answer[n + 1] \notin Draft!Used(f[n])
    BY <2>1, <2>3, <2>4 DEF Draft!Used, Follows
  <2>6. Chosen(answer, offered, f[n], n + 1) = answer[n + 1]
    BY <2>4, <2>5 DEF Chosen
  <2>7. answer[n + 1] \in Draft!Candidates
    BY <2>4
  <2>8. Follows(Append(f[n], answer[n + 1]), n + 1, answer)
    BY <2>1, <2>3, <2>7 DEF Follows
  <2> QED BY <2>1, <2>2, <2>6, <2>8
<1>4. 0 .. Len(DraftRoles) \subseteq S
  <2> HIDE DEF S
  <2> QED BY <1>2, <1>3, UpToTheLast, StepsAreNumbered
<1> QED BY <1>1, <1>4, StepsAreNumbered

(* A route that is made of offered candidates fits, and uses no other.       *)
LEMMA RouteFits ==
    ASSUME NEW offered \in SUBSET Draft!Candidates, Draft!EnoughFor(offered),
           NEW route \in Draft!Generated(offered)
    PROVE  route \in Seq(Draft!Candidates) /\ Draft!Fits(route)
           /\ Draft!Used(route) \subseteq offered
<1>1. PICK answer : route = Draft!FromGenerated(answer, offered)
  BY DEF Draft!Generated
<1>2. FitsUpTo(route, Len(DraftRoles), offered)
  BY <1>1, GeneratedFits
<1>3. Draft!Valid(route, Draft!Candidates)
  BY <1>2, StepsAreNumbered DEF Draft!Valid, FitsUpTo
<1>4. Draft!Used(route) \subseteq offered
  BY <1>2, StepsAreNumbered DEF Draft!Used, FitsUpTo
<1> QED BY <1>2, <1>3, <1>4 DEF Draft!Fits, FitsUpTo

-----------------------------------------------------------------------------
(* What a call holds, by what it does.                                       *)
LEMMA OpeningKinds ==
    ASSUME NEW c \in Openings
    PROVE  /\ c.op = "create" => c \in [op : {"create"}, saw : Weeks]
           /\ c.op = "meetup" => c \in [op : {"meetup"}, key : DraftKeys, saw : Weeks]
           /\ c.op \in {"accept", "step"} =>
                c \in [op : {"accept", "step"}, step : Draft!Steps, read : DraftRows]
           /\ c.op \in {"draft", "confirm"} =>
                c \in [op : {"draft", "confirm"}, step : {0}, read : DraftRows]
BY DEF Openings, Draft!Idle

LEMMA FitsBothWays ==
    ASSUME NEW route \in Seq(Draft!Candidates), Draft!Fits(route)
    PROVE  /\ DOMAIN route = Draft!Steps
           /\ \A i \in Draft!Steps : route[i] \in Draft!Candidates
           /\ route # <<>>
<1>1. Len(route) = Len(DraftRoles) /\ DOMAIN route = 1 .. Len(route) /\ Len(DraftRoles) # 0
  BY DraftsFit DEF Draft!Fits
<1>2. DOMAIN route = Draft!Steps
  BY <1>1, StepsAreNumbered
<1>3. route # <<>>
  BY <1>1
<1>4. \A i \in Draft!Steps : route[i] \in Draft!Candidates
  BY DEF Draft!Fits, Draft!Valid
<1> QED BY <1>2, <1>3, <1>4

(* The histories only grow, so what was honest stays honest.                 *)
HistoryGrows ==
    /\ \A i \in Draft!Steps : agreed[i] \subseteq agreed'[i]
    /\ crossedSteps \subseteq crossedSteps'
    /\ undone => undone'

LEMMA HonestyLasts ==
    ASSUME HistoryGrows
    PROVE  /\ \A route : \A accepted \in SUBSET Draft!Steps :
                Honest(route, accepted) => Honest(route, accepted)'
           /\ \A row \in DraftRows : RowHonest(row) => RowHonest(row)'
           /\ RoutesAgreed /\ routes' = routes => RoutesAgreed'
<1>1. \A route : \A accepted \in SUBSET Draft!Steps :
        Honest(route, accepted) => Honest(route, accepted)'
  BY DEF HistoryGrows, Honest
<1>2. \A row \in DraftRows : RowHonest(row) => RowHonest(row)'
  <2> TAKE row \in DraftRows
  <2>1. row.accepted \in SUBSET Draft!Steps
    BY DEF DraftRows
  <2>2. Honest(row.route, row.accepted) => Honest(row.route, row.accepted)'
    BY <1>1, <2>1
  <2>3. undone => undone'
    BY DEF HistoryGrows
  <2> QED BY <2>2, <2>3 DEF RowHonest
<1>3. ASSUME RoutesAgreed, routes' = routes PROVE RoutesAgreed'
  BY <1>3 DEF RoutesAgreed, HistoryGrows
<1> QED BY <1>1, <1>2, <1>3

LEMMA SketchesKept ==
    ASSUME DraftInv, HistoryGrows, draft # Draft!NoDraft => draft' # Draft!NoDraft,
           NEW d \in AnyCalls, drafting'[d] = drafting[d]
    PROVE  SketchFits(d)'
<1>1. drafting[d] \in Openings
  BY DEF DraftInv, DraftTyped
<1>2. SketchFits(d)
  BY DEF DraftInv
<1>3. ASSUME drafting[d].op \in {"accept", "step", "draft", "confirm"} PROVE RowHonest(drafting[d].read)'
  <2>1. drafting[d].read \in DraftRows
    BY <1>1, <1>3, OpeningKinds
  <2>2. RowHonest(drafting[d].read)
    BY <1>2, <1>3 DEF SketchFits
  <2>3. \A row \in DraftRows : RowHonest(row) => RowHonest(row)'
    BY HonestyLasts
  <2>4. drafting'[d].read = drafting[d].read
    OBVIOUS
  <2> DEFINE row == drafting[d].read
  <2>5. RowHonest(row) /\ row \in DraftRows
    BY <2>1, <2>2
  <2> QED BY <2>3, <2>4, <2>5 DEF RowHonest, Honest
<1>4. ASSUME drafting[d].op
             = "accept" PROVE Honest(drafting[d].read.route, {drafting[d].step})'
  <2>1. {drafting[d].step} \in SUBSET Draft!Steps
    BY <1>1, <1>4, OpeningKinds
  <2>2. Honest(drafting[d].read.route, {drafting[d].step})
    BY <1>2, <1>4 DEF SketchFits
  <2> QED BY <2>1, <2>2, HonestyLasts DEF Honest, HistoryGrows
<1> QED BY <1>2, <1>3, <1>4 DEF SketchFits, HasRoom

LEMMA SketchEnds ==
    ASSUME DraftInv, NEW k \in AnyCalls, Draft!End(k)
    PROVE  /\ SketchFits(k)' /\ drafting' \in [AnyCalls -> Openings]
           /\ \A d \in AnyCalls \ {k} : drafting'[d] = drafting[d]
<1>1. drafting' = [drafting EXCEPT ![k] = Draft!Idle]
          /\ drafting \in [AnyCalls -> Openings] /\ Draft!Idle \in Openings
  BY DEF Draft!End, DraftInv, DraftTyped, Openings
<1>2. drafting'[k] = Draft!Idle
  BY <1>1
<1>3. drafting'[k].op = "idle"
  BY <1>2 DEF Draft!Idle
<1> QED BY <1>1, <1>3 DEF SketchFits

LEMMA SketchBegins ==
    ASSUME DraftInv, NEW k \in AnyCalls, NEW c \in Openings, Draft!Begin(k, c)
    PROVE  /\ drafting'[k] = c /\ drafting' \in [AnyCalls -> Openings]
           /\ \A d \in AnyCalls \ {k} : drafting'[d] = drafting[d]
BY DEF Draft!Begin, DraftInv, DraftTyped

-----------------------------------------------------------------------------
(* The steps.                                                                *)

(* A call begins: it reads the week or the row, nothing else changes.        *)
LEMMA BeginningKeeps ==
    ASSUME DraftInv, NEW k \in AnyCalls, NEW c \in Openings, Draft!Begin(k, c),
           UNCHANGED <<draft, routes, drafted, weekMeetups, shown>>,
           HistoryGrows, agreed' \in [Draft!Steps -> SUBSET Draft!Candidates],
               crossedSteps' \in SUBSET Draft!Steps,
           UNCHANGED <<rushed, twins, undone>>, SketchFits(k)'
    PROVE  DraftInv'
<1>1. drafting' \in [AnyCalls -> Openings]
          /\ \A d \in AnyCalls \ {k} : drafting'[d] = drafting[d]
  BY SketchBegins
<1>2. \A d \in AnyCalls \ {k} : SketchFits(d)'
  BY <1>1, SketchesKept
<1>3. DraftTyped'
  BY <1>1 DEF DraftInv, DraftTyped
<1>4. draft' # Draft!NoDraft => RowHonest(draft)' /\ Draft!Fits(shown)'
  <2>1. draft \in DraftRows
    BY DEF DraftInv, DraftTyped
  <2>2. RowHonest(draft) => RowHonest(draft)'
    <3>1. RowHonest(draft) => Honest(draft.route, draft.accepted)'
      BY <2>1, HonestyLasts DEF RowHonest, DraftRows, Honest, HistoryGrows
    <3> QED BY <3>1 DEF RowHonest
  <2> QED BY <2>2 DEF DraftInv
<1>5. RoutesAgreed'
  BY HonestyLasts DEF DraftInv
<1> QED BY DraftCounts, <1>2, <1>3, <1>4, <1>5 DEF DraftInv, Draft!WithinTheWeek

LEMMA NothingGrows ==
    ASSUME DraftInv, UNCHANGED <<agreed, crossedSteps, undone>>
    PROVE  /\ HistoryGrows
           /\ agreed' \in [Draft!Steps -> SUBSET Draft!Candidates]
                 /\ crossedSteps' \in SUBSET Draft!Steps
BY DEF DraftInv, DraftTyped, HistoryGrows

LEMMA BeginCreateKeeps ==
    ASSUME DraftInv, NEW k \in AnyCalls, Draft!BeginCreate(k) PROVE DraftInv'
<1> DEFINE c == [op |-> "create", saw |-> Draft!Week]
<1>1. c \in Openings /\ c.op = "create" /\ c.saw = Draft!Week
  BY DEF DraftInv, DraftTyped, Draft!Week, Weeks, Openings
<1> HIDE DEF c
<1>2. Draft!Begin(k, c) /\ UNCHANGED <<draft, routes, drafted, weekMeetups, shown>>
        /\ UNCHANGED <<agreed, crossedSteps, rushed, twins, undone>>
  BY DraftCounts DEF Draft!BeginCreate, Draft!history, c
<1>3. drafting'[k] = c
  BY <1>1, <1>2, SketchBegins
<1>4. SketchFits(k)'
  BY DraftCounts, <1>1, <1>3 DEF SketchFits, Draft!BeginCreate, Draft!Week, HasRoom
<1> QED BY <1>1, <1>2, <1>4, NothingGrows, BeginningKeeps

LEMMA BeginMeetupKeeps ==
    ASSUME DraftInv, NEW k \in AnyCalls, NEW key \in DraftKeys, Draft!BeginMeetup(k, key) PROVE DraftInv'
<1> DEFINE c == [op |-> "meetup", key |-> key, saw |-> Draft!Week]
<1>1. c \in Openings /\ c.op = "meetup" /\ c.saw = Draft!Week /\ c.key = key
  BY DEF DraftInv, DraftTyped, Draft!Week, Weeks, Openings
<1> HIDE DEF c
<1>2. Draft!Begin(k, c) /\ UNCHANGED <<draft, routes, drafted, weekMeetups, shown>>
        /\ UNCHANGED <<agreed, crossedSteps, rushed, twins, undone>>
  BY DraftCounts DEF Draft!BeginMeetup, Draft!history, c
<1>3. drafting'[k] = c
  BY <1>1, <1>2, SketchBegins
<1>4. SketchFits(k)'
  BY DraftCounts, <1>1, <1>3 DEF SketchFits, Draft!BeginMeetup, Draft!Week, HasRoom
<1> QED BY <1>1, <1>2, <1>4, NothingGrows, BeginningKeeps

(* A call about the draft begins with the row as it is.                      *)
LEMMA BeginOnFits ==
    ASSUME DraftInv, NEW k \in AnyCalls, NEW op \in {"accept", "step", "draft", "confirm"}, NEW i,
           i \in IF op \in {"accept", "step"} THEN Draft!Steps ELSE {0},
           Draft!BeginOn(k, op, i)
    PROVE  \E c \in Openings : /\ Draft!Begin(k, c) /\ drafting'[k] = c
                                /\ c.op = op /\ c.step = i /\ c.read = draft
<1> DEFINE c == [op |-> op, step |-> i, read |-> draft]
<1>1. c \in Openings /\ c.op = op /\ c.step = i /\ c.read = draft
  <2>1. draft \in DraftRows
    BY DEF DraftInv, DraftTyped
  <2>2. CASE op \in {"accept", "step"}
    BY <2>1, <2>2 DEF Openings
  <2>3. CASE op \in {"draft", "confirm"}
    BY <2>1, <2>3 DEF Openings
  <2> QED BY <2>2, <2>3
<1>2. Draft!Begin(k, c)
  BY DEF Draft!BeginOn
<1> HIDE DEF c
<1>3. drafting'[k] = c
  BY <1>1, <1>2, SketchBegins
<1> QED BY <1>1, <1>2, <1>3

LEMMA BeginOnKeeps ==
    ASSUME DraftInv, NEW k \in AnyCalls, NEW op \in {"step", "draft", "confirm"}, NEW i,
           i \in IF op \in {"accept", "step"} THEN Draft!Steps ELSE {0},
           Draft!BeginOn(k, op, i), op = "confirm" => draft.accepted = Draft!Steps,
           UNCHANGED <<draft, routes, drafted, weekMeetups, shown>>, UNCHANGED Draft!history
    PROVE  DraftInv'
<1>1. PICK c \in Openings : /\ Draft!Begin(k, c) /\ drafting'[k] = c
                            /\ c.op = op /\ c.step = i /\ c.read = draft
  BY BeginOnFits
<1>2. draft # Draft!NoDraft /\ draft' = draft
  BY DEF Draft!BeginOn
<1>3. UNCHANGED <<agreed, crossedSteps, rushed, twins, undone>>
  BY DEF Draft!history
<1>4. SketchFits(k)'
  <2>1. RowHonest(draft)
    BY <1>2 DEF DraftInv
  <2>2. RowHonest(drafting[k].read)'
    BY <1>1, <1>3, <2>1 DEF RowHonest, Honest
  <2> QED BY <1>1, <1>2, <2>2 DEF SketchFits
<1> QED BY <1>1, <1>3, <1>4, NothingGrows, BeginningKeeps

LEMMA BeginAcceptKeeps ==
    ASSUME DraftInv, NEW k \in AnyCalls, NEW i \in Draft!Steps, Draft!BeginAccept(k, i) PROVE DraftInv'
<1>0. Draft!BeginOn(k, "accept", i) /\ draft # Draft!NoDraft
  BY DEF Draft!BeginAccept, Draft!BeginOn
<1>1. PICK c \in Openings : /\ Draft!Begin(k, c) /\ drafting'[k] = c
                            /\ c.op = "accept" /\ c.step = i /\ c.read = draft
  BY <1>0, BeginOnFits
<1>2. UNCHANGED <<draft, routes, drafted, weekMeetups, shown, rushed, twins, undone>>
  BY DEF Draft!BeginAccept
<1>3. shown[i] \in Draft!Candidates
  BY <1>0, FitsBothWays DEF DraftInv, DraftTyped
<1>4. agreed' \in [Draft!Steps -> SUBSET Draft!Candidates]
          /\ crossedSteps' \in SUBSET Draft!Steps
        /\ \A j \in Draft!Steps : agreed[j] \subseteq agreed'[j]
  BY <1>3 DEF Draft!BeginAccept, DraftInv, DraftTyped
<1>5. HistoryGrows
  BY <1>2, <1>4 DEF HistoryGrows, Draft!BeginAccept
<1>6. draft.route[i] \in agreed'[i] \/ i \in crossedSteps'
  BY DEF Draft!BeginAccept, DraftInv, DraftTyped
<1>7. SketchFits(k)'
  <2>1. RowHonest(draft) /\ draft \in DraftRows
    BY <1>0 DEF DraftInv, DraftTyped
  <2>2. RowHonest(draft)'
    <3>1. Honest(draft.route, draft.accepted)'
      BY <1>2, <1>5, <2>1, HonestyLasts DEF RowHonest, DraftRows, Honest, HistoryGrows
    <3> QED BY <1>2, <2>1, <3>1 DEF RowHonest
  <2>3. RowHonest(drafting[k].read)'
    BY <1>1, <1>2, <2>2 DEF RowHonest, Honest
  <2>4. Honest(drafting[k].read.route, {drafting[k].step})'
    BY <1>1, <1>6 DEF Honest
  <2> QED BY <1>0, <1>1, <1>2, <2>3, <2>4 DEF SketchFits
<1> QED BY <1>1, <1>2, <1>4, <1>5, <1>7, BeginningKeeps

(* A call ends, having written what still fits.                              *)
LEMMA EndingKeeps ==
    ASSUME DraftInv, NEW k \in AnyCalls, Draft!End(k),
           HistoryGrows, agreed' \in [Draft!Steps -> SUBSET Draft!Candidates],
               crossedSteps' \in SUBSET Draft!Steps,
           draft' \in DraftRows, shown' \in Seq(Draft!Candidates),
           draft # Draft!NoDraft => draft' # Draft!NoDraft,
           draft' # Draft!NoDraft => RowHonest(draft)' /\ Draft!Fits(shown)',
           routes' \in Seq(Seq(Draft!Candidates)), RoutesAgreed',
           draft'.saved = 0 => routes' = <<>>, twins' \/ Len(routes') <= 1,
           drafted' \in Nat, weekMeetups' \in SUBSET DraftKeys, IsFiniteSet(weekMeetups'),
           rushed' \/ Draft!WithinTheWeek'
    PROVE  DraftInv'
<1>1. /\ SketchFits(k)' /\ drafting' \in [AnyCalls -> Openings]
      /\ \A d \in AnyCalls \ {k} : drafting'[d] = drafting[d]
  BY SketchEnds
<1>2. \A d \in AnyCalls \ {k} : SketchFits(d)'
  BY <1>1, SketchesKept
<1>3. DraftTyped'
  BY <1>1 DEF DraftTyped
<1>4. \A d \in AnyCalls : SketchFits(d)'
  BY <1>1, <1>2
<1> QED BY <1>3, <1>4 DEF DraftInv

(* Unless the week, the routes or the row change they stay as they were.     *)
LEMMA WeekKept ==
    ASSUME DraftInv, UNCHANGED <<drafted, weekMeetups, rushed>>
    PROVE  /\ drafted' \in Nat /\ weekMeetups' \in SUBSET DraftKeys
           /\ IsFiniteSet(weekMeetups')
           /\ rushed' \/ Draft!WithinTheWeek'
BY DraftCounts DEF DraftInv, DraftTyped, Draft!WithinTheWeek

LEMMA RoutesKept ==
    ASSUME DraftInv, HistoryGrows, UNCHANGED <<routes, twins>>, draft'.saved = draft.saved
    PROVE  /\ routes' \in Seq(Seq(Draft!Candidates)) /\ RoutesAgreed'
           /\ draft'.saved = 0 => routes' = <<>>
           /\ twins' \/ Len(routes') <= 1
BY HonestyLasts DEF DraftInv, DraftTyped

LEMMA RowKept ==
    ASSUME DraftInv, HistoryGrows, UNCHANGED <<draft, shown>>
    PROVE  /\ draft' \in DraftRows /\ shown' \in Seq(Draft!Candidates)
           /\ draft # Draft!NoDraft => draft' # Draft!NoDraft
           /\ draft' # Draft!NoDraft => RowHonest(draft)' /\ Draft!Fits(shown)'
           /\ draft'.saved = draft.saved
<1>1. draft \in DraftRows /\ shown \in Seq(Draft!Candidates)
  BY DEF DraftInv, DraftTyped
<1>2. RowHonest(draft) => Honest(draft.route, draft.accepted)'
  BY <1>1, HonestyLasts DEF RowHonest, DraftRows, Honest, HistoryGrows
<1>3. RowHonest(draft) => RowHonest(draft)'
  BY <1>2 DEF RowHonest, HistoryGrows
<1> QED BY <1>1, <1>3 DEF DraftInv

LEMMA DraftFails ==
    ASSUME DraftInv, NEW k \in AnyCalls, Draft!Fail(k) PROVE DraftInv'
<1>1. /\ Draft!End(k) /\ UNCHANGED <<draft, shown>>
          /\ UNCHANGED <<agreed, crossedSteps, undone>>
      /\ UNCHANGED <<routes, twins>> /\ UNCHANGED <<drafted, weekMeetups, rushed>>
  BY DEF Draft!Fail, Draft!history
<1> QED BY <1>1, NothingGrows, WeekKept, RoutesKept, RowKept, EndingKeeps

LEMMA CreateMeetupKeeps ==
    ASSUME DraftInv, NEW k \in AnyCalls, Draft!CreateMeetup(k) PROVE DraftInv'
<1>1. /\ Draft!End(k) /\ UNCHANGED <<draft, shown>>
          /\ UNCHANGED <<agreed, crossedSteps, undone>>
      /\ UNCHANGED <<routes, twins>>
  BY DEF Draft!CreateMeetup
<1>2. drafting[k] \in [op : {"meetup"}, key : DraftKeys, saw : Weeks] /\ SketchFits(k)
        /\ weekMeetups \in SUBSET DraftKeys /\ IsFiniteSet(weekMeetups) /\ drafted \in Nat
  BY OpeningKinds DEF Draft!CreateMeetup, DraftInv, DraftTyped
<1>3. weekMeetups' = weekMeetups \union {drafting[k].key} /\ drafted' = drafted
  BY DEF Draft!CreateMeetup
<1>4. weekMeetups' \in SUBSET DraftKeys /\ IsFiniteSet(weekMeetups') /\ drafted' \in Nat
  BY <1>2, <1>3, FS_AddElement
<1>5. rushed' \/ Draft!WithinTheWeek'
  <2> SUFFICES ASSUME ~rushed' PROVE Draft!WithinTheWeek'
    OBVIOUS
  <2>1. ~rushed /\ (weekMeetups' # weekMeetups => drafting[k].saw = Draft!Week)
    BY DEF Draft!CreateMeetup
  <2>2. Draft!WithinTheWeek
    BY <2>1 DEF DraftInv
  <2>3. CASE weekMeetups' = weekMeetups
    BY DraftCounts, <1>3, <2>2, <2>3 DEF Draft!WithinTheWeek
  <2>4. CASE weekMeetups' # weekMeetups
    <3>1. HasRoom(Draft!Week)
      BY <1>2, <2>1, <2>4 DEF SketchFits, Draft!CreateMeetup
    <3>2. drafted + Cardinality(weekMeetups) < MaxWeekly
      BY <3>1 DEF HasRoom, Draft!Week
    <3>3. drafting[k].key \notin weekMeetups
      BY <1>3, <2>4
    <3>4. Cardinality(weekMeetups \union {drafting[k].key}) = Cardinality(weekMeetups) + 1
      BY <1>2, <3>3, FS_AddElement
    <3>5. Cardinality(weekMeetups') = Cardinality(weekMeetups) + 1
              /\ Cardinality(weekMeetups) \in Nat
      BY <1>2, <1>3, <3>4, FS_CardinalityType
    <3> QED BY DraftCounts, <1>2, <1>3, <2>2, <3>2, <3>5, DraftsFit DEF Draft!WithinTheWeek
  <2> QED BY <2>3, <2>4
<1>6. HistoryGrows /\ agreed' \in [Draft!Steps -> SUBSET Draft!Candidates]
          /\ crossedSteps' \in SUBSET Draft!Steps
  BY <1>1, NothingGrows
<1>7. /\ draft' \in DraftRows /\ shown' \in Seq(Draft!Candidates)
      /\ draft # Draft!NoDraft => draft' # Draft!NoDraft
      /\ draft' # Draft!NoDraft => RowHonest(draft)' /\ Draft!Fits(shown)'
      /\ draft'.saved = draft.saved
  BY <1>1, <1>6, RowKept
<1>8. /\ routes' \in Seq(Seq(Draft!Candidates)) /\ RoutesAgreed'
      /\ draft'.saved = 0 => routes' = <<>>
      /\ twins' \/ Len(routes') <= 1
  BY <1>1, <1>6, <1>7, RoutesKept
<1> QED BY <1>1, <1>4, <1>5, <1>6, <1>7, <1>8, EndingKeeps

LEMMA CreateDraftKeeps ==
    ASSUME DraftInv, NEW k \in AnyCalls, Draft!CreateDraft(k) PROVE DraftInv'
<1>1. /\ Draft!End(k) /\ UNCHANGED <<agreed, crossedSteps, undone>>
          /\ UNCHANGED <<routes, twins>>
      /\ drafted' = drafted + 1 /\ weekMeetups' = weekMeetups
  BY DEF Draft!CreateDraft
<1>2. drafting[k] \in [op : {"create"}, saw : Weeks] /\ SketchFits(k)
          /\ drafting[k].op = "create"
        /\ weekMeetups \in SUBSET DraftKeys /\ IsFiniteSet(weekMeetups) /\ drafted \in Nat
        /\ draft \in DraftRows /\ shown \in Seq(Draft!Candidates)
  BY OpeningKinds DEF Draft!CreateDraft, DraftInv, DraftTyped
<1>3. weekMeetups' \in SUBSET DraftKeys /\ IsFiniteSet(weekMeetups') /\ drafted' \in Nat
  BY <1>1, <1>2
<1>4. rushed' \/ Draft!WithinTheWeek'
  <2> SUFFICES ASSUME ~rushed' PROVE Draft!WithinTheWeek'
    OBVIOUS
  <2>1. ~rushed /\ drafting[k].saw = Draft!Week
    BY DEF Draft!CreateDraft
  <2>2. HasRoom(Draft!Week) /\ Draft!Week[1] < MaxDrafts
    BY <1>2, <2>1 DEF SketchFits
  <2>3. drafted + Cardinality(weekMeetups) < MaxWeekly /\ drafted < MaxDrafts
    BY <2>2 DEF HasRoom, Draft!Week
  <2>4. Cardinality(weekMeetups) \in Nat
    BY <1>2, FS_CardinalityType
  <2> QED BY DraftCounts, <1>1, <1>2, <2>3, <2>4, DraftsFit DEF Draft!WithinTheWeek
<1>5. HistoryGrows /\ agreed' \in [Draft!Steps -> SUBSET Draft!Candidates]
          /\ crossedSteps' \in SUBSET Draft!Steps
  BY <1>1, NothingGrows
<1>6. /\ draft' \in DraftRows /\ shown' \in Seq(Draft!Candidates)
      /\ draft # Draft!NoDraft => draft' # Draft!NoDraft
      /\ draft' # Draft!NoDraft => RowHonest(draft)' /\ Draft!Fits(shown)'
      /\ draft'.saved = draft.saved
  <2>1. CASE draft # Draft!NoDraft
    <3>1. UNCHANGED <<draft, shown>>
      BY <2>1 DEF Draft!CreateDraft
    <3> QED BY <1>5, <3>1, RowKept
  <2>2. CASE draft = Draft!NoDraft
    <3>1. PICK route \in Draft!Generated(Draft!Candidates) :
            draft' = [Draft!NoDraft EXCEPT !.route = route] /\ shown' = route
      BY <2>2 DEF Draft!CreateDraft
    <3>2. Draft!EnoughFor(Draft!Candidates)
      BY <1>2 DEF SketchFits
    <3>3. route \in Seq(Draft!Candidates) /\ Draft!Fits(route)
      BY <3>1, <3>2, RouteFits
    <3>4. Draft!NoDraft \in DraftRows
      BY <1>2, <2>2
    <3>5. draft' \in DraftRows /\ draft'.route = route /\ draft'.accepted = {}
            /\ draft'.rejected = {} /\ draft'.saved = draft.saved
      BY <2>2, <3>1, <3>3, <3>4 DEF DraftRows, Draft!NoDraft
    <3>6. RowHonest(draft)'
      BY <3>3, <3>5 DEF RowHonest, Honest
    <3> QED BY <2>2, <3>1, <3>3, <3>5, <3>6
  <2> QED BY <2>1, <2>2
<1>7. /\ routes' \in Seq(Seq(Draft!Candidates)) /\ RoutesAgreed'
      /\ draft'.saved = 0 => routes' = <<>>
      /\ twins' \/ Len(routes') <= 1
  BY <1>1, <1>5, <1>6, RoutesKept
<1> QED BY <1>1, <1>3, <1>4, <1>5, <1>6, <1>7, EndingKeeps

LEMMA GetDraftKeeps ==
    ASSUME DraftInv, Draft!GetDraft PROVE DraftInv'
<1>1. /\ UNCHANGED <<draft, routes, drafted, weekMeetups, drafting, draftCallsLeft>>
      /\ UNCHANGED <<agreed, crossedSteps, rushed, twins, undone>>
      /\ shown' = draft.route /\ draft # Draft!NoDraft
  BY DEF Draft!GetDraft, Draft!history
<1>2. HistoryGrows
  BY <1>1, NothingGrows
<1>3. \A d \in AnyCalls : SketchFits(d)'
  BY <1>1, <1>2, SketchesKept
<1>4. draft \in DraftRows /\ RowHonest(draft)
  BY <1>1 DEF DraftInv, DraftTyped
<1>5. RowHonest(draft)' /\ Draft!Fits(shown)'
  BY <1>1, <1>4 DEF RowHonest, Honest
<1>6. DraftTyped'
  BY <1>1, <1>4 DEF DraftInv, DraftTyped, DraftRows
<1>7. RoutesAgreed'
  BY <1>1, <1>2, HonestyLasts DEF DraftInv
<1> QED BY DraftCounts, <1>1, <1>3, <1>5, <1>6, <1>7 DEF DraftInv, Draft!WithinTheWeek

LEMMA AcceptStepKeeps ==
    ASSUME DraftInv, NEW k \in AnyCalls, Draft!AcceptStep(k) PROVE DraftInv'
<1> DEFINE c == drafting[k]
           accepted == c.read.accepted \union {c.step}
<1>1. /\ Draft!End(k) /\ UNCHANGED <<agreed, undone>> /\ UNCHANGED <<routes, twins>>
      /\ UNCHANGED <<drafted, weekMeetups, rushed>>
      /\ draft' = [draft EXCEPT !.accepted = accepted]
      /\ crossedSteps'
            = crossedSteps \union {i \in accepted : draft.route[i] # c.read.route[i]}
      /\ shown' \in {shown, draft.route}
  BY DEF Draft!AcceptStep, Draft!Answer
<1>2. /\ c \in [op : {"accept", "step"}, step : Draft!Steps, read : DraftRows]
          /\ SketchFits(k)
      /\ c.op = "accept" /\ draft \in DraftRows /\ shown \in Seq(Draft!Candidates)
      /\ crossedSteps \in SUBSET Draft!Steps
            /\ agreed \in [Draft!Steps -> SUBSET Draft!Candidates]
  BY OpeningKinds DEF Draft!AcceptStep, DraftInv, DraftTyped
<1>3. RowHonest(c.read) /\ Honest(c.read.route, {c.step}) /\ draft # Draft!NoDraft
        /\ RowHonest(draft) /\ Draft!Fits(shown)
  BY <1>2 DEF SketchFits, DraftInv
<1>4. accepted \in SUBSET Draft!Steps /\ Honest(c.read.route, accepted)
  BY <1>2, <1>3 DEF RowHonest, Honest, DraftRows
<1> HIDE DEF accepted
<1>5. HistoryGrows /\ agreed' \in [Draft!Steps -> SUBSET Draft!Candidates]
          /\ crossedSteps' \in SUBSET Draft!Steps
  BY <1>1, <1>2, <1>4 DEF HistoryGrows
<1>6. \A i \in accepted : draft.route[i] \in agreed'[i] \/ i \in crossedSteps'
  <2> SUFFICES ASSUME NEW i \in accepted PROVE draft.route[i] \in agreed[i]
                      \/ i \in crossedSteps'
    BY <1>1
  <2>1. CASE draft.route[i] # c.read.route[i]
    BY <1>1, <2>1
  <2>2. CASE draft.route[i] = c.read.route[i]
    BY <1>1, <1>4, <2>2 DEF Honest
  <2> QED BY <2>1, <2>2
<1>7. draft' \in DraftRows /\ draft'.route = draft.route /\ draft'.accepted = accepted
        /\ draft'.rejected = draft.rejected /\ draft'.saved = draft.saved
  BY <1>1, <1>2, <1>4 DEF DraftRows
<1>8. RowHonest(draft)'
  <2>1. Honest(draft.route, draft.accepted)'
    BY <1>6, <1>7 DEF Honest
  <2>2. undone' \/ Draft!Used(draft'.route) \intersect draft'.rejected = {}
    BY <1>1, <1>3, <1>7 DEF RowHonest
  <2> QED BY <1>3, <1>7, <2>1, <2>2 DEF RowHonest
<1>9. shown' \in Seq(Draft!Candidates) /\ Draft!Fits(shown)' /\ draft' # Draft!NoDraft
  <2>1. draft.route \in Seq(Draft!Candidates) /\ Draft!Fits(draft.route)
    BY <1>2, <1>3 DEF RowHonest, DraftRows
  <2>2. draft'.route # <<>>
    BY <1>7, <2>1, FitsBothWays
  <2> QED BY <1>1, <1>2, <1>3, <2>1, <2>2 DEF Draft!NoDraft
<1> QED BY <1>1, <1>5, <1>7, <1>8, <1>9, WeekKept, RoutesKept, EndingKeeps

LEMMA RewriteKeeps ==
    ASSUME DraftInv, NEW k \in AnyCalls, NEW route \in Seq(Draft!Candidates),
           NEW accepted \in SUBSET Draft!Steps,
           NEW rejected \in SUBSET Draft!Candidates, Draft!Rewrite(k, route, accepted, rejected),
           Draft!Fits(route), undone \/ Draft!Used(route) \intersect rejected = {},
               Honest(route, accepted),
           draft # Draft!NoDraft
    PROVE  DraftInv'
<1>1. /\ Draft!End(k) /\ UNCHANGED <<agreed, crossedSteps, undone>>
          /\ UNCHANGED <<routes, twins>>
      /\ UNCHANGED <<drafted, weekMeetups, rushed>>
      /\ draft' = [draft EXCEPT !.route = route, !.accepted = accepted,
            !.rejected = rejected]
      /\ shown' \in {shown, route}
  BY DEF Draft!Rewrite, Draft!Answer, Draft!history
<1>2. draft \in DraftRows /\ shown \in Seq(Draft!Candidates) /\ Draft!Fits(shown)
  BY DEF DraftInv, DraftTyped
<1>3. HistoryGrows /\ agreed' \in [Draft!Steps -> SUBSET Draft!Candidates]
          /\ crossedSteps' \in SUBSET Draft!Steps
  BY <1>1, NothingGrows
<1>4. draft' \in DraftRows /\ draft'.route = route /\ draft'.accepted = accepted
        /\ draft'.rejected = rejected /\ draft'.saved = draft.saved
  BY <1>1, <1>2 DEF DraftRows
<1>5. RowHonest(draft)'
  BY <1>1, <1>4 DEF RowHonest, Honest
<1>6. shown' \in Seq(Draft!Candidates) /\ Draft!Fits(shown)' /\ draft' # Draft!NoDraft
  <2>1. draft'.route # <<>>
    BY <1>4, FitsBothWays
  <2> QED BY <1>1, <1>2, <2>1 DEF Draft!NoDraft
<1> QED BY <1>1, <1>3, <1>4, <1>5, <1>6, WeekKept, RoutesKept, EndingKeeps

LEMMA RegenerateStepKeeps ==
    ASSUME DraftInv, NEW k \in AnyCalls, Draft!RegenerateStep(k) PROVE DraftInv'
<1> DEFINE c == drafting[k]
           route == c.read.route
           rejected == c.read.rejected \union {route[c.step]}
<1>1. PICK new \in Draft!Candidates \ (rejected \union Draft!Used(route)) :
          /\ DraftOffers[new] = DraftRoles[c.step]
          /\ Draft!Rewrite(k, Draft!FromGenerated([route EXCEPT ![c.step] = new],
                Draft!Candidates),
                     c.read.accepted \ {c.step}, rejected)
  BY DEF Draft!RegenerateStep
<1>2. c \in [op : {"accept", "step"}, step : Draft!Steps, read : DraftRows] /\ SketchFits(k)
        /\ c.op = "step"
  BY OpeningKinds DEF Draft!RegenerateStep, DraftInv, DraftTyped
<1>3. RowHonest(c.read) /\ draft # Draft!NoDraft /\ c.read \in DraftRows
          /\ c.step \in Draft!Steps
  BY <1>2 DEF SketchFits
<1>4. route \in Seq(Draft!Candidates) /\ Draft!Fits(route)
          /\ c.read.accepted \in SUBSET Draft!Steps
        /\ c.read.rejected \in SUBSET Draft!Candidates
        /\ (undone \/ Draft!Used(route) \intersect c.read.rejected = {})
        /\ Honest(route, c.read.accepted)
  BY <1>3 DEF RowHonest, DraftRows
<1> DEFINE i == c.step
           accepted == c.read.accepted
           before == c.read.rejected
<1> HIDE DEF c, i, accepted, before, route
<1>5. DOMAIN route = Draft!Steps
          /\ (\A j \in Draft!Steps : route[j] \in Draft!Candidates)
                /\ Len(route) = Len(DraftRoles)
        /\ i \in Draft!Steps
  BY <1>3, <1>4, FitsBothWays DEF Draft!Fits, i
<1> DEFINE answer == [route EXCEPT ![i] = new]
<1>6. /\ answer[i] = new /\ \A j \in Draft!Steps \ {i} : answer[j] = route[j]
      /\ DOMAIN answer = Draft!Steps
  BY <1>5
<1>7. new \in Draft!Candidates /\ new \notin Draft!Used(route)
          /\ DraftOffers[new] = DraftRoles[i] /\ new \notin before
        /\ new # route[i]
  BY <1>1, <1>5 DEF i, before
<1>8. \A j \in Draft!Steps : route[j] # new /\ route[j] \in Draft!Used(route)
  BY <1>5, <1>7 DEF Draft!Used
<1> HIDE DEF answer
<1>9. Draft!Valid(answer, Draft!Candidates)
  <2>1. Draft!Valid(route, Draft!Candidates)
    BY <1>4 DEF Draft!Fits
  <2> SUFFICES ASSUME NEW j \in Draft!Steps
               PROVE  /\ answer[j] \in Draft!Candidates
                      /\ DraftOffers[answer[j]] = DraftRoles[j]
                      /\ \A l \in Draft!Steps : answer[l] = answer[j] => l = j
    BY DEF Draft!Valid
  <2>2. CASE j = i
    BY <1>6, <1>7, <1>8, <2>2
  <2>3. CASE j # i
    <3>1. answer[j] = route[j]
      BY <1>6, <2>3
    <3>2. \A l \in Draft!Steps : answer[l] = answer[j] => l = j
      BY <1>6, <1>8, <2>1, <3>1 DEF Draft!Valid
    <3> QED BY <2>1, <3>1, <3>2 DEF Draft!Valid
  <2> QED BY <2>2, <2>3
<1> DEFINE made == Draft!FromGenerated(answer, Draft!Candidates)
<1>10. made \in Seq(Draft!Candidates) /\ Len(made) = Len(DraftRoles)
           /\ \A j \in Draft!Steps : made[j] = answer[j]
  BY <1>9, ValidIsTaken, StepsAreNumbered DEF Follows
<1>11. Draft!Rewrite(k, made, accepted \ {i}, before \union {route[i]})
  BY <1>1 DEF answer, i, accepted, before, route, c
<1> HIDE DEF made
<1>12. Draft!Fits(made)
  <2>1. Draft!Valid(made, Draft!Candidates)
    BY <1>9, <1>10 DEF Draft!Valid
  <2> QED BY <1>10, <2>1 DEF Draft!Fits
<1>13. undone \/ Draft!Used(made) \intersect (before \union {route[i]}) = {}
  <2> SUFFICES ASSUME ~undone, NEW x \in Draft!Used(made),
                      x \in before \union {route[i]} PROVE FALSE
    OBVIOUS
  <2>1. DOMAIN made = Draft!Steps
    BY <1>10, <1>12, FitsBothWays
  <2>2. PICK j \in Draft!Steps : x = made[j]
    BY <2>1 DEF Draft!Used
  <2>3. CASE j = i
    BY <1>6, <1>7, <1>10, <2>2, <2>3
  <2>4. CASE j # i
    <3>1. x = route[j] /\ x \in Draft!Used(route)
      BY <1>6, <1>8, <1>10, <2>2, <2>4
    <3>2. x \notin before
      BY <1>4, <3>1 DEF before, route
    <3>3. x = route[i]
      BY <3>2
    <3> QED BY <1>4, <1>5, <2>4, <3>1, <3>3 DEF Draft!Fits, Draft!Valid
  <2> QED BY <2>3, <2>4
<1>14. Honest(made, accepted \ {i})
  <2> SUFFICES ASSUME NEW j \in accepted \ {i} PROVE made[j] \in agreed[j]
                      \/ j \in crossedSteps
    BY DEF Honest
  <2>1. j \in Draft!Steps /\ made[j] = route[j]
    BY <1>4, <1>6, <1>10 DEF accepted
  <2> QED BY <1>4, <2>1 DEF Honest, accepted
<1>15. accepted \ {i} \in SUBSET Draft!Steps
           /\ before \union {route[i]} \in SUBSET Draft!Candidates
  BY <1>4, <1>5 DEF accepted, before
<1> QED BY <1>3, <1>10, <1>11, <1>12, <1>13, <1>14, <1>15, RewriteKeeps

LEMMA DraftAnewKeeps ==
    ASSUME DraftInv, NEW k \in AnyCalls, Draft!RegenerateDraft(k) PROVE DraftInv'
<1> DEFINE rejected == drafting[k].read.rejected \union Draft!Used(drafting[k].read.route)
<1>1. Draft!EnoughFor(Draft!Candidates \ rejected) /\ drafting[k].op = "draft"
  BY DEF Draft!RegenerateDraft
<1>2. PICK route \in Draft!Generated(Draft!Candidates \ rejected) : Draft!Rewrite(k, route, {}, rejected)
  BY DEF Draft!RegenerateDraft
<1>3. drafting[k] \in [op : {"draft", "confirm"}, step : {0}, read : DraftRows]
          /\ SketchFits(k)
  BY <1>1, OpeningKinds DEF DraftInv, DraftTyped
<1>4. RowHonest(drafting[k].read) /\ draft # Draft!NoDraft /\ drafting[k].read \in DraftRows
  BY <1>1, <1>3 DEF SketchFits
<1>5. rejected \in SUBSET Draft!Candidates
  <2>1. drafting[k].read.route \in Seq(Draft!Candidates)
            /\ Draft!Fits(drafting[k].read.route)
          /\ drafting[k].read.rejected \in SUBSET Draft!Candidates
    BY <1>4 DEF RowHonest, DraftRows
  <2>2. Draft!Used(drafting[k].read.route) \subseteq Draft!Candidates
    BY <2>1, FitsBothWays DEF Draft!Used
  <2> QED BY <2>1, <2>2
<1> HIDE DEF rejected
<1>6. route \in Seq(Draft!Candidates) /\ Draft!Fits(route)
          /\ Draft!Used(route) \subseteq Draft!Candidates \ rejected
  BY <1>1, <1>2, RouteFits
<1>7. Honest(route, {}) /\ Draft!Used(route) \intersect rejected = {}
  BY <1>6 DEF Honest
<1> QED BY <1>2, <1>4, <1>5, <1>6, <1>7, RewriteKeeps

LEMMA ConfirmDraftKeeps ==
    ASSUME DraftInv, NEW k \in AnyCalls, Draft!ConfirmDraft(k) PROVE DraftInv'
<1> DEFINE route == drafting[k].read.route
<1>1. /\ Draft!End(k) /\ UNCHANGED <<agreed, crossedSteps>>
          /\ UNCHANGED <<drafted, weekMeetups, rushed>>
      /\ routes' = Append(routes, route)
      /\ draft' = [draft EXCEPT !.route = route, !.saved = Len(routes) + 1]
      /\ twins' = (twins \/ draft.saved # 0)
      /\ undone' = (undone \/ draft.route # route)
      /\ shown' \in {shown, route} /\ drafting[k].op = "confirm"
  BY DEF Draft!ConfirmDraft, Draft!Answer
<1>2. /\ drafting[k] \in [op : {"draft", "confirm"}, step : {0}, read : DraftRows]
          /\ SketchFits(k)
      /\ draft \in DraftRows /\ shown \in Seq(Draft!Candidates)
            /\ routes \in Seq(Seq(Draft!Candidates))
      /\ crossedSteps \in SUBSET Draft!Steps
            /\ agreed \in [Draft!Steps -> SUBSET Draft!Candidates]
  BY <1>1, OpeningKinds DEF DraftInv, DraftTyped
<1>3. /\ RowHonest(drafting[k].read) /\ draft # Draft!NoDraft
          /\ drafting[k].read.accepted = Draft!Steps
      /\ drafting[k].read \in DraftRows /\ RowHonest(draft) /\ Draft!Fits(shown)
  BY <1>1, <1>2 DEF SketchFits, DraftInv
<1>4. route \in Seq(Draft!Candidates) /\ Draft!Fits(route)
          /\ Honest(route, Draft!Steps) /\ draft.accepted \in SUBSET Draft!Steps
  BY <1>2, <1>3 DEF RowHonest, DraftRows
<1> HIDE DEF route
<1>5. HistoryGrows /\ agreed' \in [Draft!Steps -> SUBSET Draft!Candidates]
          /\ crossedSteps' \in SUBSET Draft!Steps
  BY <1>1, <1>2 DEF HistoryGrows
<1>6. Len(routes) \in Nat /\ Len(routes') = Len(routes) + 1
          /\ routes' \in Seq(Seq(Draft!Candidates))
  BY <1>1, <1>2, <1>4
<1>7. draft' \in DraftRows /\ draft'.route = route /\ draft'.accepted = draft.accepted
        /\ draft'.rejected = draft.rejected /\ draft'.saved = Len(routes) + 1
  <2> DEFINE saved == Len(routes) + 1
  <2>1. saved \in Nat
    BY <1>6
  <2>2. draft' = [draft EXCEPT !.route = route, !.saved = saved]
    BY <1>1
  <2> HIDE DEF saved
  <2>3. draft' \in DraftRows /\ draft'.route = route /\ draft'.accepted = draft.accepted
          /\ draft'.rejected = draft.rejected /\ draft'.saved = saved
    BY <1>2, <1>4, <2>1, <2>2 DEF DraftRows
  <2> QED BY <2>3 DEF saved
<1>8. RowHonest(draft)'
  <2>1. Honest(draft.route, draft.accepted)'
    BY <1>1, <1>4, <1>7 DEF Honest
  <2>2. undone' \/ Draft!Used(draft'.route) \intersect draft'.rejected = {}
    BY <1>1, <1>3, <1>7 DEF RowHonest
  <2> QED BY <1>4, <1>7, <2>1, <2>2 DEF RowHonest
<1>9. shown' \in Seq(Draft!Candidates) /\ Draft!Fits(shown)' /\ draft' # Draft!NoDraft
  <2>1. draft'.route # <<>>
    BY <1>4, <1>7, FitsBothWays
  <2> QED BY <1>1, <1>2, <1>3, <1>4, <2>1 DEF Draft!NoDraft
<1>10. RoutesAgreed'
  <2> SUFFICES ASSUME NEW n \in DOMAIN routes'
               PROVE  /\ Draft!Fits(routes'[n])
                      /\ \A i \in Draft!Steps : routes'[n][i] \in agreed'[i]
                            \/ i \in crossedSteps'
    BY DEF RoutesAgreed
  <2>1. CASE n \in DOMAIN routes
    <3>1. routes'[n] = routes[n]
      BY <1>1, <1>2, <1>4, <2>1
    <3>2. RoutesAgreed
      BY DEF DraftInv
    <3> QED BY <1>1, <2>1, <3>1, <3>2 DEF RoutesAgreed
  <2>2. CASE n \notin DOMAIN routes
    <3>1. routes'[n] = route
      BY <1>1, <1>2, <1>4, <1>6, <2>2
    <3> QED BY <1>1, <1>4, <3>1 DEF Honest
  <2> QED BY <2>1, <2>2
<1>11. twins' \/ Len(routes') <= 1
  <2>1. draft.saved = 0 => routes = <<>>
    BY DEF DraftInv
  <2>2. CASE draft.saved = 0
    BY <1>6, <2>1, <2>2
  <2>3. CASE draft.saved # 0
    BY <1>1, <2>3
  <2> QED BY <2>2, <2>3
<1>12. draft'.saved # 0
  BY <1>6, <1>7
<1> QED BY <1>1, <1>5, <1>6, <1>7, <1>8, <1>9, <1>10, <1>11, <1>12, WeekKept, EndingKeeps

-----------------------------------------------------------------------------
LEMMA DraftBegins == Draft!Init => DraftInv
<1> SUFFICES ASSUME Draft!Init PROVE DraftInv
  OBVIOUS
<1>1. DraftTyped
  <2>1. Draft!NoDraft \in DraftRows
    BY DEF Draft!NoDraft, DraftRows
  <2>2. IsFiniteSet({})
    BY FS_EmptySet
  <2> QED BY <2>1, <2>2 DEF Draft!Init, DraftTyped, Openings
<1>2. Cardinality({}) = 0
  BY FS_EmptySet
<1>3. RoutesAgreed
  BY DEF Draft!Init, RoutesAgreed
<1>4. \A k \in AnyCalls : SketchFits(k)
  <2>1. \A k \in AnyCalls : drafting[k].op = "idle"
    BY DEF Draft!Init, Draft!Idle
  <2> QED BY <2>1 DEF SketchFits
<1>5. rushed \/ Draft!WithinTheWeek
  BY DraftCounts, <1>2, DraftsFit DEF Draft!Init, Draft!WithinTheWeek
<1>6. twins \/ Len(routes) <= 1
  BY DEF Draft!Init
<1> QED BY <1>1, <1>3, <1>4, <1>5, <1>6 DEF Draft!Init, DraftInv

LEMMA DraftStepKeeps ==
    ASSUME DraftInv, [Draft!Next]_Draft!vars PROVE DraftInv'
<1>0. CASE UNCHANGED Draft!vars
  <2>1. UNCHANGED <<draft, routes, drafted, weekMeetups, shown, drafting>>
          /\ UNCHANGED <<agreed, crossedSteps, rushed, twins, undone>>
    BY <1>0 DEF Draft!vars
  <2>2. HistoryGrows /\ agreed' \in [Draft!Steps -> SUBSET Draft!Candidates]
            /\ crossedSteps' \in SUBSET Draft!Steps
    BY <2>1, NothingGrows
  <2>3. \A d \in AnyCalls : SketchFits(d)'
    BY <2>1, <2>2, SketchesKept
  <2>4. DraftTyped'
    BY <2>1 DEF DraftInv, DraftTyped
  <2> QED BY <2>1, <2>2, <2>3, <2>4, RowKept, RoutesKept, WeekKept DEF DraftInv
<1>1. ASSUME NEW k \in AnyCalls, NEW key \in DraftKeys, Draft!BeginMeetup(k, key) PROVE DraftInv'
  BY <1>1, BeginMeetupKeeps
<1>2. ASSUME NEW k \in AnyCalls, NEW i \in Draft!Steps, Draft!BeginRegenerateStep(k, i) PROVE DraftInv'
  BY <1>2, BeginOnKeeps DEF Draft!BeginRegenerateStep
<1>3. ASSUME NEW k \in AnyCalls, Draft!BeginRegenerateDraft(k) PROVE DraftInv'
  BY <1>3, BeginOnKeeps DEF Draft!BeginRegenerateDraft
<1>4. ASSUME NEW k \in AnyCalls, Draft!BeginConfirm(k) PROVE DraftInv'
  BY <1>4, BeginOnKeeps DEF Draft!BeginConfirm
<1> QED BY <1>0, <1>1, <1>2, <1>3, <1>4, BeginCreateKeeps, CreateDraftKeeps,
    CreateMeetupKeeps,
            BeginAcceptKeeps, AcceptStepKeeps, RegenerateStepKeeps, DraftAnewKeeps,
            ConfirmDraftKeeps, DraftFails, GetDraftKeeps DEF Draft!Next

LEMMA SavedAsAgreedFollows ==
    ASSUME DraftInv PROVE Draft!SavedAsAgreed
<1>1. \A n \in DOMAIN routes : /\ Draft!Fits(routes[n])
                               /\ \A i \in Draft!Steps : routes[n][i] \in agreed[i]
                                     \/ i \in crossedSteps
  BY DEF DraftInv, RoutesAgreed
<1>2. undone \/ Draft!Used(draft.route) \intersect draft.rejected = {}
  <2>1. CASE draft = Draft!NoDraft
    BY <2>1 DEF Draft!NoDraft
  <2> QED BY <2>1 DEF DraftInv, RowHonest
<1> QED BY <1>1, <1>2 DEF DraftInv, RowHonest, Draft!SavedAsAgreed

LEMMA DraftSteps ==
    ASSUME focus = "draft", [Next]_<<focus, everything>>
    PROVE  [Draft!Next]_Draft!vars
<1>1. CASE UNCHANGED <<focus, everything>>
  BY <1>1 DEF everything, Draft!vars
<1>2. CASE Next
  BY <1>2 DEF Next
<1> QED BY <1>1, <1>2

LEMMA DraftKept == Spec => [](focus = "draft" => DraftInv)
<1>1. Init => (focus = "draft" => DraftInv)
  BY DraftBegins DEF Init
<1>2. (focus = "draft" => DraftInv) /\ [Next]_<<focus, everything>>
        => (focus = "draft" => DraftInv)'
  <2> SUFFICES ASSUME focus = "draft" => DraftInv, [Next]_<<focus, everything>>,
                      focus' = "draft"
               PROVE  DraftInv'
    OBVIOUS
  <2>1. focus = "draft" /\ DraftInv
    BY DEF Next
  <2>2. [Draft!Next]_Draft!vars
    BY <2>1, DraftSteps
  <2> QED BY <2>1, <2>2, DraftStepKeeps
<1> QED BY <1>1, <1>2, PTL DEF Spec

-----------------------------------------------------------------------------
(* The meetups of a host, for any calls, keys, bodies and limits.            *)

bound == v1
events == v2
seats == v3
week == v4
has == v5
creating == v6
usedUp == v7
answers == v8
squeezed == v9
USE DEF bound, events, seats, week, has, creating, usedUp, answers, squeezed

-----------------------------------------------------------------------------
LEMMA CreationCounts == \A S : Creation!Cardinality(S) = Cardinality(S)
BY DEF Creation!Cardinality, Cardinality

Modes == {"default", "dating", "afterdark", "edited"}
Visibilities == {"public", "friends"}
Accesses == {"open", "request", "free"}
JoinModes == {"open", "request"}
Origins == {"form", "route", "steps", "affiche", "place", "admin"}
Editors == {"host", "admin"}
Meetups ==
    [key : MeetupKeys \union {"none"}, mode : Modes, visibility : Visibilities, access : Accesses,
     join : JoinModes, capacity : Int, at : BOOLEAN, from : Origins, week : {0, 1},
     by : Editors, free : BOOLEAN, alone : BOOLEAN]
Creations == [phase : {"idle", "find", "check", "premium", "count", "require", "insert", "again",
                       "refuse", "editRequire", "editWrite"},
              key : MeetupKeys \union {"none"}, body : MeetupBodies, premium : BOOLEAN,
                  alone : BOOLEAN,
              counted : {0, 1}, id : Nat, seats : Nat]

CreationTyped ==
    /\ bound \in MeetupBounds
    /\ events \in Seq(Meetups)
    /\ seats \in Seq(Nat) /\ Len(seats) = Len(events)
    /\ week \in {0, 1}
    /\ creating \in [AnyCalls -> Creations]
    /\ answers \in [MeetupKeys -> SUBSET Nat]

(* A key has one row, and it is the answer.                                  *)
KeysAreUnique ==
    /\ \A d, e \in Creation!Ids :
          events[d].key = events[e].key /\ events[d].key # "none" => d = e
    /\ \A k \in MeetupKeys \ {"none"} : answers[k] \subseteq Creation!Stored(k)

(* What the limit counts.                                                    *)
MadeIn(w) == {e \in Creation!Ids : events[e].week = w}
CountedIn(w) == Cardinality(MadeIn(w)) + (IF w = 0 THEN DraftsMade ELSE 0)

(* A call that runs alone is the only one that creates: what it has counted  *)
(* is still true when it inserts.                                            *)
CreationAlone(c) ==
    creating[c].alone /\ Creation!Creating(c) =>
        /\ \A d \in AnyCalls : Creation!Creating(d) => d = c
        /\ /\ creating[c].phase \in {"require", "insert"}
           /\ ~creating[c].premium
           /\ creating[c].counted = week
           => CountedIn(week) < WeeklyMeetups

CreationFitsCall(c) ==
    /\ creating[c].phase \in {"find", "again"} => creating[c].key # "none"
    /\ Creation!Creating(c) => creating[c].key \in MeetupKeys
    /\ creating[c].phase = "again" => Creation!Stored(creating[c].key) # {}
    /\ creating[c].counted <= week
    /\ creating[c].phase \in {"premium", "count", "require", "insert", "again"}
          => Creation!Valid(creating[c].body)
    /\ creating[c].phase \in {"editRequire", "editWrite"} =>
         /\ creating[c].id \in Creation!Ids
         /\ creating[c].alone => creating[c].seats = seats[creating[c].id]

CreationInv ==
    /\ CreationTyped
    /\ KeysAreUnique
    /\ \A c \in AnyCalls : CreationAlone(c)
    /\ \A c \in AnyCalls : CreationFitsCall(c)
    /\ Creation!WithinLimit
    /\ Creation!AdmissionAgrees
    /\ Creation!SeatsWithinCapacity
    /\ Creation!PointKnown

-----------------------------------------------------------------------------
LEMMA CreationHoldsFollows ==
    ASSUME CreationInv PROVE Creation!CreationHolds
<1>1. Creation!OnceForAKey
  <2> SUFFICES ASSUME NEW k \in MeetupKeys \ {"none"}
               PROVE  Cardinality(answers[k] \union Creation!Stored(k)) <= 1
    BY CreationCounts DEF Creation!OnceForAKey
  <2>1. answers[k] \union Creation!Stored(k) = Creation!Stored(k)
    BY DEF CreationInv, KeysAreUnique
  <2>2. CASE Creation!Stored(k) = {}
    BY <2>1, <2>2, FS_EmptySet
  <2>3. CASE Creation!Stored(k) # {}
    <3>1. PICK e : e \in Creation!Stored(k)
      BY <2>3
    <3>2. Creation!Stored(k) = {e}
      BY <3>1 DEF Creation!Stored, CreationInv, KeysAreUnique
    <3> QED BY <2>1, <3>2, FS_Singleton
  <2> QED BY <2>2, <2>3
<1> QED BY <1>1 DEF CreationInv, Creation!CreationHolds

-----------------------------------------------------------------------------
(* Rows made and rows counted.                                               *)

LEMMA EventsHaveRows ==
    ASSUME CreationTyped
    PROVE  /\ Len(events) \in Nat /\ Creation!Ids = 1 .. Len(events)
           /\ DOMAIN seats = Creation!Ids
           /\ \A e \in Creation!Ids : events[e] \in Meetups /\ seats[e] \in Nat
           /\ \A w : IsFiniteSet(MadeIn(w)) /\ Cardinality(MadeIn(w)) \in Nat
           /\ \A w : CountedIn(w) \in Nat
<1>1. Len(events) \in Nat /\ Creation!Ids = 1 .. Len(events) /\ DOMAIN seats = Creation!Ids
  BY DEF CreationTyped, Creation!Ids
<1>2. \A e \in Creation!Ids : events[e] \in Meetups /\ seats[e] \in Nat
  BY <1>1 DEF CreationTyped, Creation!Ids
<1>3. IsFiniteSet(Creation!Ids)
  BY <1>1, FS_Interval
<1>4. \A w : IsFiniteSet(MadeIn(w)) /\ Cardinality(MadeIn(w)) \in Nat
  BY <1>3, FS_Subset, FS_CardinalityType DEF MadeIn
<1> QED BY <1>1, <1>2, <1>4, MeetupsFit DEF CountedIn

Adds(row) == events' = Append(events, row) /\ seats' = Append(seats, 1)

LEMMA EventAdded ==
    ASSUME CreationTyped, NEW row \in Meetups, Adds(row)
    PROVE  /\ events' \in Seq(Meetups) /\ seats' \in Seq(Nat) /\ Len(seats') = Len(events')
           /\ Creation!Ids' = Creation!Ids \union {Len(events) + 1}
                 /\ Len(events) + 1 \notin Creation!Ids
           /\ Creation!Ids' = 1 .. Len(events) + 1
           /\ \A e \in Creation!Ids : events'[e] = events[e] /\ seats'[e] = seats[e]
           /\ events'[Len(events) + 1] = row /\ seats'[Len(events) + 1] = 1
<1>1. events \in Seq(Meetups) /\ seats \in Seq(Nat) /\ Len(seats) = Len(events)
  BY DEF CreationTyped
<1>2. events' \in Seq(Meetups) /\ seats' \in Seq(Nat)
  BY <1>1 DEF Adds
<1>3. Len(events') = Len(events) + 1 /\ Len(seats') = Len(events) + 1
  BY <1>1 DEF Adds
<1>4. Creation!Ids = 1 .. Len(events) /\ Creation!Ids' = 1 .. Len(events) + 1
  BY <1>1, <1>2, <1>3 DEF Creation!Ids
<1>5. Len(events) \in Nat
  BY <1>1
<1>6. \A e \in Creation!Ids : events'[e] = events[e] /\ seats'[e] = seats[e]
  BY <1>1, <1>4 DEF Adds
<1>7. events'[Len(events) + 1] = row /\ seats'[Len(events) + 1] = 1
  BY <1>1 DEF Adds
<1> QED BY <1>2, <1>3, <1>4, <1>5, <1>6, <1>7

(* The meetups up to one that has been made stay those they were.            *)
WeeksStay ==
    /\ Creation!Ids \subseteq Creation!Ids'
    /\ \A e \in Creation!Ids : /\ events'[e].week = events[e].week
                               /\ events'[e].key = events[e].key
                               /\ events'[e].free = events[e].free
                                     /\ events'[e].alone = events[e].alone

LEMMA LimitStays ==
    ASSUME CreationTyped, Creation!WithinLimit, WeeksStay, NEW e \in Creation!Ids,
           events'[e].free, events'[e].alone
    PROVE  Cardinality({d \in 1 .. e : events'[d].week = events'[e].week})
             + (IF events'[e].week = 0 THEN DraftsMade ELSE 0) <= WeeklyMeetups
<1>1. Creation!Ids = 1 .. Len(events) /\ Len(events) \in Nat
  BY EventsHaveRows
<1>2. 1 .. e \subseteq Creation!Ids
  BY <1>1
<1>3. {d \in 1 .. e : events'[d].week = events'[e].week}
        = {d \in 1 .. e : events[d].week = events[e].week}
  BY <1>2 DEF WeeksStay
<1>4. events[e].free /\ events[e].alone /\ events'[e].week = events[e].week
  BY DEF WeeksStay
<1> QED BY CreationCounts, <1>3, <1>4 DEF Creation!WithinLimit

LEMMA CountsStay ==
    ASSUME WeeksStay, Creation!Ids' = Creation!Ids, NEW w PROVE CountedIn(w)' = CountedIn(w)
<1>1. {e \in Creation!Ids' : events'[e].week = w} = {e \in Creation!Ids : events[e].week
          = w}
  BY DEF WeeksStay
<1> QED BY <1>1 DEF CountedIn, MadeIn

LEMMA KeysStay ==
    ASSUME WeeksStay, Creation!Ids' = Creation!Ids,
           NEW k PROVE Creation!Stored(k)' = Creation!Stored(k)
<1>1. {e \in Creation!Ids' : events'[e].key = k} = {e \in Creation!Ids : events[e].key = k}
  BY DEF WeeksStay
<1> QED BY <1>1 DEF Creation!Stored

-----------------------------------------------------------------------------
(* Steps of a call that leave the rows alone.                                *)

CallMoves(c) ==
    /\ creating' \in [AnyCalls -> Creations]
    /\ \A d \in AnyCalls \ {c} : creating'[d] = creating[d]
    /\ Creation!Creating(c)' => Creation!Creating(c)
    /\ UNCHANGED <<bound, events, seats, week, squeezed>>

LEMMA RowsStay ==
    ASSUME UNCHANGED <<bound, events, seats, week, squeezed>>
    PROVE  /\ Creation!WithinLimit' <=> Creation!WithinLimit
           /\ Creation!AdmissionAgrees' <=> Creation!AdmissionAgrees
           /\ Creation!SeatsWithinCapacity' <=> Creation!SeatsWithinCapacity
           /\ Creation!PointKnown' <=> Creation!PointKnown
           /\ \A k : Creation!Stored(k)' = Creation!Stored(k)
           /\ \A w : CountedIn(w)' = CountedIn(w)
           /\ Creation!Ids' = Creation!Ids /\ CountedIn(week)' = CountedIn(week)
<1>1. Creation!Ids' = Creation!Ids
  BY DEF Creation!Ids
<1>2. (Creation!WithinLimit' <=> Creation!WithinLimit)
          /\ (Creation!AdmissionAgrees' <=> Creation!AdmissionAgrees)
        /\ (Creation!SeatsWithinCapacity' <=> Creation!SeatsWithinCapacity)
              /\ (Creation!PointKnown' <=> Creation!PointKnown)
  BY CreationCounts, <1>1 DEF Creation!WithinLimit, Creation!AdmissionAgrees,
      Creation!SeatsWithinCapacity,
     Creation!PointKnown
<1> QED BY <1>1, <1>2 DEF Creation!Stored, CountedIn, MadeIn

LEMMA CallMoved ==
    ASSUME CreationInv, NEW c \in AnyCalls, CallMoves(c),
           answers' \in [MeetupKeys -> SUBSET Nat],
               \A k \in MeetupKeys \ {"none"} : answers'[k] \subseteq Creation!Stored(k),
           CreationFitsCall(c)', CreationAlone(c)'
    PROVE  CreationInv'
<1>1. CreationTyped'
  BY DEF CreationInv, CreationTyped, CallMoves
<1>2. KeysAreUnique'
  BY RowsStay DEF CreationInv, KeysAreUnique, CallMoves
<1>3. \A d \in AnyCalls \ {c} : CreationFitsCall(d)'
  BY RowsStay DEF CreationInv, CreationFitsCall, CallMoves, Creation!Creating
<1>4. \A d \in AnyCalls : Creation!Creating(d)' => Creation!Creating(d)
  BY DEF CallMoves, Creation!Creating
<1>5. \A d \in AnyCalls \ {c} : CreationAlone(d)'
  <2> TAKE d \in AnyCalls \ {c}
  <2>1. CreationAlone(d)
    BY DEF CreationInv
  <2>2. creating'[d] = creating[d] /\ (Creation!Creating(d)' <=> Creation!Creating(d))
    BY DEF CallMoves, Creation!Creating
  <2>3. week' = week /\ CountedIn(week)' = CountedIn(week)
    BY RowsStay DEF CallMoves
  <2> QED BY <1>4, <2>1, <2>2, <2>3 DEF CreationAlone
<1>6. Creation!WithinLimit' /\ Creation!AdmissionAgrees'
          /\ Creation!SeatsWithinCapacity' /\ Creation!PointKnown'
  BY RowsStay DEF CallMoves, CreationInv
<1> QED BY <1>1, <1>2, <1>3, <1>5, <1>6 DEF CreationInv

LEMMA IdleFits == Creation!Idle \in Creations
<1>1. Creation!NoBody \in MeetupBodies
  BY DEF Creation!NoBody, MeetupBodies
<1> QED BY <1>1 DEF Creation!Idle, Creations

(* A call that learns something goes on as what it is.                       *)
LEMMA CallLearns ==
    ASSUME CreationInv, NEW c \in AnyCalls, Creation!Creating(c), CallMoves(c),
           answers' = answers,
           creating'[c].phase \in {"count", "require", "refuse"},
               creating[c].phase \in {"premium", "count"},
           creating'[c].key = creating[c].key, creating'[c].body = creating[c].body,
           creating'[c].alone = creating[c].alone, creating'[c].counted <= week,
           creating'[c].phase = "require" /\ ~creating'[c].premium =>
               CountedIn(week) < WeeklyMeetups
    PROVE  CreationInv'
<1>1. UNCHANGED <<bound, events, seats, week, squeezed>>
  BY DEF CallMoves
<1>2. answers' \in [MeetupKeys -> SUBSET Nat]
          /\ \A k \in MeetupKeys \ {"none"} : answers'[k] \subseteq Creation!Stored(k)
  BY DEF CreationInv, CreationTyped, KeysAreUnique
<1>3. CreationFitsCall(c) /\ CreationAlone(c)
  BY DEF CreationInv
<1>4. CreationFitsCall(c)'
  BY <1>1, <1>3, RowsStay DEF CreationFitsCall
<1>5. CreationAlone(c)'
  <2>1. creating'[c].alone => \A d \in AnyCalls : Creation!Creating(d)' => d = c
    BY <1>3 DEF CreationAlone, CallMoves, Creation!Creating
  <2>2. CountedIn(week)' = CountedIn(week) /\ week' = week
    BY <1>1, RowsStay
  <2> QED BY <2>1, <2>2 DEF CreationAlone
<1> QED BY <1>2, <1>4, <1>5, CallMoved

LEMMA CreationEntered ==
    ASSUME CreationInv, NEW c \in AnyCalls, NEW key \in MeetupKeys,
           NEW body \in bound.bodies,
           Creation!Begin(c, key, body)
    PROVE  CreationInv'
<1> DEFINE phase == IF key = "none" THEN "check" ELSE "find"
           Begun(b) == [Creation!Idle EXCEPT !.phase = phase, !.key = key, !.body
               = body, !.alone = b]
<1>1. \E b \in BOOLEAN :
        /\ b => \A d \in AnyCalls : ~Creation!Creating(d)
        /\ creating' = [d \in AnyCalls |-> IF d = c THEN Begun(b)
                      ELSE IF Creation!Creating(d) THEN [creating[d] EXCEPT !.alone
                          = FALSE] ELSE creating[d]]
  <2> DEFINE a == \A d \in AnyCalls : ~Creation!Creating(d)
  <2> WITNESS a \in BOOLEAN
  <2> QED BY DEF Creation!Begin
<1>c. PICK alone \in BOOLEAN :
        /\ alone => \A d \in AnyCalls : ~Creation!Creating(d)
        /\ creating' = [d \in AnyCalls |-> IF d = c THEN Begun(alone)
                      ELSE IF Creation!Creating(d) THEN [creating[d] EXCEPT !.alone
                          = FALSE] ELSE creating[d]]
  BY <1>1
<1> DEFINE begun == Begun(alone)
<1>2. creating[c].phase = "idle"
          /\ UNCHANGED <<bound, events, seats, week, squeezed, answers>>
  BY DEF Creation!Begin, Creation!Rows
<1>4. body \in MeetupBodies
  BY MeetupsFit DEF CreationInv, CreationTyped
<1>b. phase \in {"check", "find"} /\ (phase = "find" => key # "none")
  OBVIOUS
<1> HIDE DEF phase
<1>5. begun \in Creations /\ begun.phase \in {"check", "find"} /\ begun.alone = alone
        /\ begun.key = key /\ (begun.phase = "find" => key # "none") /\ begun.counted = 0
  <2>1. begun \in Creations
    BY <1>4, <1>b, IdleFits DEF Creations
  <2>2. begun.phase = phase /\ begun.key = key /\ begun.alone = alone /\ begun.counted = 0
    BY DEF Creation!Idle
  <2> QED BY <1>b, <2>1, <2>2
<1> HIDE DEF begun, Begun
<1>6. creating'[c] = begun
  BY <1>c DEF begun
<1>7. \A d \in AnyCalls \ {c} :
        /\ creating'[d] \in Creations
        /\ Creation!Creating(d) => creating'[d] = [creating[d] EXCEPT !.alone = FALSE]
        /\ ~Creation!Creating(d) => creating'[d] = creating[d]
  <2> TAKE d \in AnyCalls \ {c}
  <2>1. creating[d] \in Creations
    BY DEF CreationInv, CreationTyped
  <2>2. [creating[d] EXCEPT !.alone = FALSE] \in Creations
    BY <2>1 DEF Creations
  <2>3. creating'[d] = IF Creation!Creating(d) THEN [creating[d] EXCEPT !.alone
            = FALSE] ELSE creating[d]
    BY <1>c
  <2> QED BY <2>1, <2>2, <2>3
<1>8. \A d \in AnyCalls \ {c} :
        /\ creating'[d].phase = creating[d].phase /\ creating'[d].key = creating[d].key
        /\ creating'[d].body = creating[d].body
              /\ creating'[d].counted = creating[d].counted
        /\ creating'[d].id = creating[d].id /\ creating'[d].seats = creating[d].seats
        /\ creating'[d].alone => creating[d].alone /\ ~Creation!Creating(d)
        /\ Creation!Creating(d)' <=> Creation!Creating(d)
  <2> TAKE d \in AnyCalls \ {c}
  <2>1. creating[d] \in Creations
    BY DEF CreationInv, CreationTyped
  <2>2. CASE Creation!Creating(d)
    <3>1. creating'[d] = [creating[d] EXCEPT !.alone = FALSE]
      BY <1>7, <2>2
    <3>2. /\ creating'[d].phase = creating[d].phase /\ creating'[d].key = creating[d].key
          /\ creating'[d].body = creating[d].body
                /\ creating'[d].counted = creating[d].counted
          /\ creating'[d].id = creating[d].id /\ creating'[d].seats = creating[d].seats
          /\ creating'[d].alone = FALSE
      BY <2>1, <3>1 DEF Creations
    <3> QED BY <2>2, <3>2 DEF Creation!Creating
  <2>3. CASE ~Creation!Creating(d)
    BY <1>7, <2>1, <2>3 DEF Creation!Creating
  <2> QED BY <2>2, <2>3
<1>9. creating' \in [AnyCalls -> Creations]
  BY <1>c, <1>5, <1>6, <1>7
<1>10. CreationTyped'
  BY <1>2, <1>9 DEF CreationInv, CreationTyped
<1>11. KeysAreUnique'
  BY <1>2, RowsStay DEF CreationInv, KeysAreUnique
<1>12. \A d \in AnyCalls : CreationFitsCall(d)'
  <2>1. CreationFitsCall(c)'
    <3>1. creating'[c].counted <= week'
      BY <1>2, <1>5, <1>6 DEF CreationInv, CreationTyped
    <3> QED BY <1>5, <1>6, <3>1 DEF CreationFitsCall
  <2>2. \A d \in AnyCalls \ {c} : CreationFitsCall(d)'
    <3> TAKE d \in AnyCalls \ {c}
    <3>1. CreationFitsCall(d)
      BY DEF CreationInv
    <3> QED BY <1>2, <1>8, <3>1, RowsStay DEF CreationFitsCall, Creation!Creating
  <2> QED BY <2>1, <2>2
<1>13. \A d \in AnyCalls : CreationAlone(d)'
  <2>1. CreationAlone(c)'
    <3>1. alone => \A d \in AnyCalls : Creation!Creating(d)' => d = c
      BY <1>8, <1>c
    <3> QED BY <1>5, <1>6, <3>1 DEF CreationAlone
  <2>2. \A d \in AnyCalls \ {c} : CreationAlone(d)'
    BY <1>8 DEF CreationAlone
  <2> QED BY <2>1, <2>2
<1>14. Creation!WithinLimit' /\ Creation!AdmissionAgrees'
           /\ Creation!SeatsWithinCapacity' /\ Creation!PointKnown'
  BY <1>2, RowsStay DEF CreationInv
<1> QED BY <1>10, <1>11, <1>12, <1>13, <1>14 DEF CreationInv

(* A call whose fields but the phase stay.                                   *)
LEMMA PhaseMoves ==
    ASSUME CreationInv, NEW c \in AnyCalls, NEW phase, Creation!Go(c, phase),
           phase \in {"check", "premium", "require", "insert", "again", "refuse", "editWrite"}
    PROVE  /\ creating' \in [AnyCalls -> Creations]
           /\ \A d \in AnyCalls \ {c} : creating'[d] = creating[d]
           /\ creating'[c] = [creating[c] EXCEPT !.phase = phase]
           /\ creating'[c].phase = phase /\ creating'[c].key = creating[c].key
           /\ creating'[c].body = creating[c].body
                 /\ creating'[c].counted = creating[c].counted
           /\ creating'[c].id = creating[c].id /\ creating'[c].seats = creating[c].seats
           /\ creating'[c].alone = creating[c].alone
                 /\ creating'[c].premium = creating[c].premium
<1>1. creating \in [AnyCalls -> Creations]
  BY DEF CreationInv, CreationTyped
<1>2. creating'[c] = [creating[c] EXCEPT !.phase = phase]
          /\ \A d \in AnyCalls \ {c} : creating'[d] = creating[d]
  BY <1>1 DEF Creation!Go
<1>3. creating[c] \in Creations
  BY <1>1
<1>4. creating'[c] \in Creations
  BY <1>2, <1>3 DEF Creations
<1>5. creating' \in [AnyCalls -> Creations]
  BY <1>1, <1>4 DEF Creation!Go
<1> QED BY <1>2, <1>3, <1>5 DEF Creations

(* It is what it was alone, or is no creation.                               *)
LEMMA PhaseKeeps ==
    ASSUME CreationInv, NEW c \in AnyCalls, NEW phase, Creation!Go(c, phase),
           phase \in {"check", "premium", "require", "insert", "again", "refuse", "editWrite"},
           UNCHANGED <<Creation!Rows, usedUp>>,
           phase \in {"check", "premium", "require", "insert", "again"} =>
               Creation!Creating(c),
           phase = "require" => FALSE,
           phase = "insert" => creating[c].phase = "require",
           phase = "again" =>
               Creation!Stored(creating[c].key) # {} /\ creating[c].key # "none",
           phase \in {"premium", "insert", "again"} => Creation!Valid(creating[c].body),
           phase = "editWrite" => creating[c].phase = "editRequire"
    PROVE  CreationInv'
<1>1. creating' \in [AnyCalls -> Creations]
  BY PhaseMoves
<1>2. UNCHANGED <<bound, events, seats, week, squeezed>> /\ answers' = answers
  BY DEF Creation!Rows
<1>3. Creation!Creating(c)' => Creation!Creating(c)
  BY PhaseMoves DEF Creation!Creating
<1>4. CallMoves(c)
  BY <1>1, <1>2, <1>3, PhaseMoves DEF CallMoves
<1>5. answers' \in [MeetupKeys -> SUBSET Nat]
          /\ \A k \in MeetupKeys \ {"none"} : answers'[k] \subseteq Creation!Stored(k)
  BY <1>2 DEF CreationInv, CreationTyped, KeysAreUnique
<1>6. CreationFitsCall(c) /\ CreationAlone(c)
  BY DEF CreationInv
<1>7. CreationFitsCall(c)'
  <2>1. (\A k : Creation!Stored(k)' = Creation!Stored(k))
            /\ Creation!Ids' = Creation!Ids /\ week' = week /\ seats' = seats
    BY <1>2, RowsStay
  <2>2. Creation!Creating(c)' => creating'[c].key \in MeetupKeys
    BY <1>3, <1>6, PhaseMoves DEF CreationFitsCall
  <2>3. creating'[c].phase = phase /\ creating'[c].key = creating[c].key
          /\ creating'[c].body = creating[c].body
                /\ creating'[c].counted = creating[c].counted
          /\ creating'[c].id = creating[c].id /\ creating'[c].seats = creating[c].seats
          /\ creating'[c].alone = creating[c].alone
    BY PhaseMoves
  <2> QED BY <1>6, <2>1, <2>2, <2>3 DEF CreationFitsCall
<1>8. CreationAlone(c)'
  <2> SUFFICES ASSUME creating'[c].alone, Creation!Creating(c)'
               PROVE  /\ \A d \in AnyCalls : Creation!Creating(d)' => d = c
                      /\ creating'[c].phase \in {"require",
                            "insert"} /\ ~creating'[c].premium
                           /\ creating'[c].counted = week'
                                 => CountedIn(week)' < WeeklyMeetups
    BY DEF CreationAlone
  <2>1. creating[c].alone /\ Creation!Creating(c)
    BY <1>3, PhaseMoves
  <2>2. \A d \in AnyCalls : Creation!Creating(d)' => d = c
    BY <1>4, <1>6, <2>1 DEF CreationAlone, CallMoves, Creation!Creating
  <2>3. week' = week /\ CountedIn(week)' = CountedIn(week)
    BY <1>2, RowsStay
  <2>4. creating'[c].phase = phase /\ creating'[c].premium = creating[c].premium
          /\ creating'[c].counted = creating[c].counted
    BY PhaseMoves
  <2> QED BY <1>6, <2>1, <2>2, <2>3, <2>4 DEF CreationAlone
<1> QED BY <1>4, <1>5, <1>7, <1>8, CallMoved

(* A call that ends.                                                         *)
Ends(c) == creating' = [creating EXCEPT ![c] = Creation!Idle]

LEMMA CreationEnds ==
    ASSUME CreationInv, NEW c \in AnyCalls, Ends(c), week' = week
    PROVE  /\ creating' \in [AnyCalls -> Creations]
           /\ \A d \in AnyCalls \ {c} : creating'[d] = creating[d]
           /\ ~Creation!Creating(c)'
           /\ CreationFitsCall(c)' /\ CreationAlone(c)'
<1>1. creating \in [AnyCalls -> Creations] /\ week \in {0, 1}
  BY DEF CreationInv, CreationTyped
<1>2. creating' \in [AnyCalls -> Creations] /\ creating'[c] = Creation!Idle
          /\ \A d \in AnyCalls \ {c} : creating'[d] = creating[d]
  BY <1>1, IdleFits DEF Ends
<1>3. Creation!Idle.phase = "idle" /\ Creation!Idle.counted = 0
  BY DEF Creation!Idle
<1>4. ~Creation!Creating(c)'
  BY <1>2, <1>3 DEF Creation!Creating
<1> QED BY <1>1, <1>2, <1>3, <1>4 DEF CreationFitsCall, CreationAlone

LEMMA CreationAnswered ==
    ASSUME CreationInv, NEW c \in AnyCalls, Creation!Creating(c),
           NEW e \in Creation!Stored(creating[c].key), Creation!Answer(c, e),
           UNCHANGED <<bound, events, seats, week, has, usedUp, squeezed>>
    PROVE  CreationInv'
<1>1. Ends(c)
  BY DEF Creation!Answer, Ends
<1>2. CallMoves(c)
  BY <1>1, CreationEnds DEF CallMoves
<1>3. creating[c].key \in MeetupKeys /\ answers \in [MeetupKeys -> SUBSET Nat] /\ e \in Nat
  <2>1. e \in Creation!Ids /\ Creation!Ids = 1 .. Len(events) /\ Len(events) \in Nat
    BY EventsHaveRows DEF Creation!Stored, CreationInv
  <2> QED BY <2>1 DEF CreationInv, CreationFitsCall, CreationTyped
<1>4. answers' \in [MeetupKeys -> SUBSET Nat]
  BY <1>3 DEF Creation!Answer
<1>5. \A k \in MeetupKeys \ {"none"} : answers'[k] \subseteq Creation!Stored(k)
  BY <1>3 DEF Creation!Answer, CreationInv, KeysAreUnique
<1> QED BY <1>1, <1>2, <1>4, <1>5, CallMoved, CreationEnds

LEMMA FoundStored ==
    ASSUME CreationInv, NEW c \in AnyCalls, Creation!FindStored(c) PROVE CreationInv'
<1>1. CreationFitsCall(c) /\ CreationAlone(c) /\ creating[c].phase = "find"
          /\ Creation!Creating(c)
  BY DEF CreationInv, Creation!FindStored, Creation!Creating
<1>2. CASE Creation!Stored(creating[c].key) # {}
  <2>1. PICK e \in Creation!Stored(creating[c].key) : Creation!Answer(c, e)
    BY <1>2 DEF Creation!FindStored
  <2> QED BY <2>1, <1>1, CreationAnswered DEF Creation!FindStored
<1>3. CASE Creation!Stored(creating[c].key) = {}
  <2>1. Creation!Go(c, "check") /\ UNCHANGED answers
    BY <1>3 DEF Creation!FindStored
  <2>2. UNCHANGED <<Creation!Rows, usedUp>>
    BY <2>1 DEF Creation!FindStored, Creation!Rows
  <2> QED BY <1>1, <2>1, <2>2, PhaseKeeps
<1> QED BY <1>2, <1>3

LEMMA AfterDarkAsserted ==
    ASSUME CreationInv, NEW c \in AnyCalls,
           Creation!AssertAfterDarkUnlocked(c) PROVE CreationInv'
<1>1. creating[c].phase = "check" /\ Creation!Creating(c)
          /\ UNCHANGED <<Creation!Rows, usedUp>>
  BY DEF Creation!AssertAfterDarkUnlocked, Creation!Creating
<1>2. \/ Creation!Go(c, "premium") /\ Creation!Valid(creating[c].body)
      \/ Creation!Go(c, "refuse")
  BY DEF Creation!AssertAfterDarkUnlocked
<1> QED BY <1>1, <1>2, PhaseKeeps

LEMMA RequirementsAsserted ==
    ASSUME CreationInv, NEW c \in AnyCalls,
           Creation!AssertHostCanUseEntryRequirements(c) PROVE CreationInv'
<1>1. creating[c].phase \in {"require", "editRequire"}
          /\ UNCHANGED <<Creation!Rows, usedUp>>
  BY DEF Creation!AssertHostCanUseEntryRequirements
<1>2. \/ Creation!Go(c, "refuse")
      \/ Creation!Go(c, "insert") /\ creating[c].phase = "require"
      \/ Creation!Go(c, "editWrite") /\ creating[c].phase = "editRequire"
  BY <1>1 DEF Creation!AssertHostCanUseEntryRequirements
<1>3. creating[c].phase = "require" =>
          Creation!Creating(c) /\ Creation!Valid(creating[c].body)
  BY DEF CreationInv, CreationFitsCall, Creation!Creating
<1> QED BY <1>1, <1>2, <1>3, PhaseKeeps

LEMMA CreationRefused ==
    ASSUME CreationInv, NEW c \in AnyCalls, Creation!Refuse(c) PROVE CreationInv'
<1>1. Ends(c) /\ UNCHANGED <<bound, events, seats, week, squeezed>> /\ answers' = answers
  BY DEF Creation!Refuse, Ends, Creation!Rows
<1>2. CallMoves(c)
  BY <1>1, CreationEnds DEF CallMoves
<1>3. answers' \in [MeetupKeys -> SUBSET Nat]
          /\ \A k \in MeetupKeys \ {"none"} : answers'[k] \subseteq Creation!Stored(k)
  BY <1>1 DEF CreationInv, CreationTyped, KeysAreUnique
<1> QED BY <1>1, <1>2, <1>3, CallMoved, CreationEnds

LEMMA TakenFound ==
    ASSUME CreationInv, NEW c \in AnyCalls, Creation!FindTaken(c) PROVE CreationInv'
<1>1. Creation!Creating(c)
          /\ UNCHANGED <<bound, events, seats, week, has, usedUp, squeezed>>
  BY DEF Creation!FindTaken, Creation!Creating
<1>2. PICK e \in Creation!Stored(creating[c].key) : Creation!Answer(c, e)
  BY DEF Creation!FindTaken
<1> QED BY <1>1, <1>2, CreationAnswered

(* What the call has learnt of the host, and of his week.                    *)
LEMMA PremiumAsked ==
    ASSUME CreationInv, NEW c \in AnyCalls, Creation!HasPremiumAccess(c) PROVE CreationInv'
<1>1. creating[c].phase = "premium" /\ Creation!Creating(c)
          /\ UNCHANGED <<Creation!Rows, usedUp>>
  BY DEF Creation!HasPremiumAccess, Creation!Creating
<1>2. creating \in [AnyCalls -> Creations] /\ creating[c] \in Creations
  BY DEF CreationInv, CreationTyped
<1>3. PICK plus \in BOOLEAN :
        creating' = [creating EXCEPT ![c].premium = plus, ![c].phase = "count"]
  <2> DEFINE plus == "plus" \in has
  <2>1. \E b \in BOOLEAN : creating' = [creating EXCEPT ![c].premium = b, ![c].phase
            = "count"]
    <3> WITNESS plus \in BOOLEAN
    <3> QED BY DEF Creation!HasPremiumAccess
  <2> QED BY <2>1
<1>4. creating'[c] = [creating[c] EXCEPT !.premium = plus, !.phase = "count"]
        /\ \A d \in AnyCalls \ {c} : creating'[d] = creating[d]
  BY <1>2, <1>3
<1>5. creating'[c] \in Creations
  BY <1>2, <1>4 DEF Creations
<1>6. creating' \in [AnyCalls -> Creations]
  BY <1>2, <1>3, <1>5
<1>7. creating'[c].phase = "count" /\ creating'[c].key = creating[c].key
          /\ creating'[c].body = creating[c].body
        /\ creating'[c].counted = creating[c].counted
              /\ creating'[c].alone = creating[c].alone
  BY <1>2, <1>4 DEF Creations
<1>8. CallMoves(c)
  BY <1>1, <1>4, <1>6 DEF CallMoves, Creation!Rows
<1>9. creating'[c].counted <= week
  BY <1>7 DEF CreationInv, CreationFitsCall
<1> QED BY <1>1, <1>7, <1>8, <1>9, CallLearns DEF Creation!Rows

LEMMA LimitAsserted ==
    ASSUME CreationInv, NEW c \in AnyCalls,
           Creation!AssertCanCreateWeeklyMeetup(c) PROVE CreationInv'
<1>1. creating[c].phase = "count" /\ Creation!Creating(c)
          /\ UNCHANGED <<Creation!Rows, usedUp>>
  BY CreationCounts DEF Creation!AssertCanCreateWeeklyMeetup, Creation!Creating
<1>2. creating \in [AnyCalls -> Creations] /\ creating[c] \in Creations /\ week \in {0, 1}
  BY DEF CreationInv, CreationTyped
<1>3. PICK phase \in {"require", "refuse"} :
        /\ creating' = [creating EXCEPT ![c].counted = week, ![c].phase = phase]
        /\ phase = "require" => creating[c].premium \/ ~(CountedIn(week) >= WeeklyMeetups)
  <2>1. creating' = [creating EXCEPT ![c].counted = week,
                    ![c].phase = IF creating[c].premium
                        \/ ~Creation!Reached(CountedIn(week)) THEN "require"
                                 ELSE "refuse"]
    BY CreationCounts DEF Creation!AssertCanCreateWeeklyMeetup, CountedIn, MadeIn
  <2> QED BY <2>1 DEF Creation!Reached
<1>4. creating'[c] = [creating[c] EXCEPT !.counted = week, !.phase = phase]
        /\ \A d \in AnyCalls \ {c} : creating'[d] = creating[d]
  BY <1>2, <1>3
<1>5. creating'[c] \in Creations
  BY <1>2, <1>4 DEF Creations
<1>6. creating' \in [AnyCalls -> Creations]
  BY <1>2, <1>3, <1>5
<1>7. creating'[c].phase = phase /\ creating'[c].key = creating[c].key
          /\ creating'[c].body = creating[c].body
        /\ creating'[c].counted = week /\ creating'[c].alone = creating[c].alone
        /\ creating'[c].premium = creating[c].premium
  BY <1>2, <1>4 DEF Creations
<1>8. CallMoves(c)
  BY <1>1, <1>4, <1>6 DEF CallMoves, Creation!Rows
<1>9. phase = "require" /\ ~creating'[c].premium => CountedIn(week) < WeeklyMeetups
  BY <1>3, <1>7, EventsHaveRows, MeetupsFit DEF CreationInv
<1> QED BY <1>1, <1>2, <1>7, <1>8, <1>9, CallLearns DEF Creation!Rows

-----------------------------------------------------------------------------
(* A row is added.                                                           *)

LEMMA CountsGrow ==
    ASSUME CreationTyped, NEW row \in Meetups, Adds(row)
    PROVE  /\ CountedIn(row.week)' = CountedIn(row.week) + 1
           /\ \A w : w # row.week => CountedIn(w)' = CountedIn(w)
<1> DEFINE n == Len(events) + 1
<1>1. Creation!Ids' = Creation!Ids \union {n} /\ n \notin Creation!Ids /\ events'[n] = row
        /\ \A e \in Creation!Ids : events'[e] = events[e]
  BY EventAdded
<1> HIDE DEF n
<1>2. ASSUME NEW w, w # row.week PROVE MadeIn(w)' = MadeIn(w)
  <2>1. {e \in Creation!Ids' : events'[e].week = w}
            = {e \in Creation!Ids : events[e].week = w}
    BY <1>1, <1>2
  <2> QED BY <2>1 DEF MadeIn
<1>3. MadeIn(row.week)' = MadeIn(row.week) \union {n} /\ n \notin MadeIn(row.week)
  <2>1. {e \in Creation!Ids' : events'[e].week = row.week}
          = {e \in Creation!Ids : events[e].week = row.week} \union {n}
    BY <1>1
  <2> QED BY <1>1, <2>1 DEF MadeIn
<1>4. IsFiniteSet(MadeIn(row.week)) /\ Cardinality(MadeIn(row.week)) \in Nat
  BY EventsHaveRows
<1>5. Cardinality(MadeIn(row.week))' = Cardinality(MadeIn(row.week)) + 1
  BY <1>3, <1>4, FS_AddElement
<1> QED BY <1>2, <1>4, <1>5, MeetupsFit DEF CountedIn

(* A row that is made alone is within the limit, and so are the others.      *)
LEMMA LimitKept ==
    ASSUME CreationInv, NEW row \in Meetups, Adds(row),
           row.free /\ row.alone => CountedIn(row.week) < WeeklyMeetups
    PROVE  Creation!WithinLimit'
<1>1. CreationTyped /\ Creation!WithinLimit
  BY DEF CreationInv
<1> DEFINE n == Len(events) + 1
<1>2. Creation!Ids' = Creation!Ids \union {n} /\ n \notin Creation!Ids
          /\ Creation!Ids' = 1 .. n /\ events'[n] = row
        /\ \A e \in Creation!Ids : events'[e] = events[e]
  BY <1>1, EventAdded
<1> HIDE DEF n
<1>3. WeeksStay
  BY <1>2 DEF WeeksStay
<1>4. ASSUME row.free, row.alone
      PROVE  Cardinality({d \in 1 .. n : events'[d].week = row.week})
               + (IF row.week = 0 THEN DraftsMade ELSE 0) <= WeeklyMeetups
  <2>1. {d \in 1 .. n : events'[d].week = row.week} = MadeIn(row.week)'
    BY <1>2 DEF MadeIn
  <2>2. Cardinality({d \in 1 .. n : events'[d].week = row.week})
          + (IF row.week = 0 THEN DraftsMade ELSE 0) = CountedIn(row.week)'
    BY <2>1 DEF CountedIn
  <2>3. CountedIn(row.week)' = CountedIn(row.week) + 1 /\ CountedIn(row.week) \in Nat
    BY <1>1, CountsGrow, EventsHaveRows
  <2> QED BY <1>4, <2>2, <2>3, MeetupsFit
<1>5. ASSUME NEW e \in Creation!Ids', events'[e].free, events'[e].alone
      PROVE  Cardinality({d \in 1 .. e : events'[d].week = events'[e].week})
               + (IF events'[e].week = 0 THEN DraftsMade ELSE 0) <= WeeklyMeetups
  BY <1>1, <1>2, <1>3, <1>4, <1>5, LimitStays
<1> QED BY CreationCounts, <1>5 DEF Creation!WithinLimit

(* The row is seen by all that speaks of rows.                               *)
LEMMA RowHolds ==
    ASSUME CreationInv, NEW row \in Meetups, Adds(row), squeezed' = squeezed,
           row.capacity >= 1,
           row.by = "host" =>
             /\ row.visibility = "friends" => row.access = "request"
             /\ row.access = "request" => row.join = "request"
             /\ row.mode = "dating" => row.capacity = 2 /\ row.visibility = "friends",
           row.at \/ row.from \in {"affiche", "admin"}
    PROVE  Creation!AdmissionAgrees' /\ Creation!SeatsWithinCapacity'
           /\ Creation!PointKnown'
<1> DEFINE n == Len(events) + 1
<1>1. Creation!Ids' = Creation!Ids \union {n} /\ n \notin Creation!Ids
          /\ events'[n] = row /\ seats'[n] = 1
        /\ \A e \in Creation!Ids : events'[e] = events[e] /\ seats'[e] = seats[e]
  BY EventAdded DEF CreationInv
<1> HIDE DEF n
<1>2. Creation!AdmissionAgrees'
  BY <1>1 DEF CreationInv, Creation!AdmissionAgrees
<1>3. row.capacity \in Int
  BY DEF Meetups
<1>4. Creation!SeatsWithinCapacity'
  BY <1>1, <1>3 DEF CreationInv, Creation!SeatsWithinCapacity
<1>5. Creation!PointKnown'
  BY <1>1 DEF CreationInv, Creation!PointKnown
<1> QED BY <1>2, <1>4, <1>5

(* A call that goes on as it was, though perhaps no longer alone.            *)
GoesOn(d) ==
    /\ creating'[d].phase = creating[d].phase /\ creating'[d].key = creating[d].key
    /\ creating'[d].body = creating[d].body /\ creating'[d].counted = creating[d].counted
    /\ creating'[d].id = creating[d].id /\ creating'[d].seats = creating[d].seats
    /\ creating'[d].alone => creating[d].alone

LEMMA RowAdded ==
    ASSUME CreationInv, NEW row \in Meetups, Adds(row),
           UNCHANGED <<bound, week, squeezed>>,
           creating' \in [AnyCalls -> Creations],
           \A d \in AnyCalls : creating'[d] = Creation!Idle \/ GoesOn(d),
           \A d \in AnyCalls : Creation!Creating(d)' => ~creating'[d].alone,
           answers' \in [MeetupKeys -> SUBSET Nat],
           row.key # "none" => Creation!Stored(row.key) = {},
           \A k \in MeetupKeys \ {"none"} : answers'[k] \subseteq Creation!Stored(k)
                                    \/ (k = row.key
                                          /\ answers'[k] \subseteq {Len(events) + 1}),
           Creation!WithinLimit', Creation!AdmissionAgrees',
               Creation!SeatsWithinCapacity', Creation!PointKnown'
    PROVE  CreationInv'
<1> DEFINE n == Len(events) + 1
<1>1. /\ events' \in Seq(Meetups) /\ seats' \in Seq(Nat) /\ Len(seats') = Len(events')
      /\ Creation!Ids' = Creation!Ids \union {n} /\ n \notin Creation!Ids
            /\ events'[n] = row
      /\ \A e \in Creation!Ids : events'[e] = events[e] /\ seats'[e] = seats[e]
  BY EventAdded DEF CreationInv
<1>2. \A k \in MeetupKeys \ {"none"} : answers'[k] \subseteq Creation!Stored(k)
                               \/ (k = row.key /\ answers'[k] \subseteq {n})
  OBVIOUS
<1> HIDE DEF n
<1>3. \A k : Creation!Stored(k)' = IF k
          = row.key THEN Creation!Stored(k) \union {n} ELSE Creation!Stored(k)
  <2> TAKE k
  <2>1. {e \in Creation!Ids' : events'[e].key = k}
          = IF k = row.key THEN {e \in Creation!Ids : events[e].key = k} \union {n}
            ELSE {e \in Creation!Ids : events[e].key = k}
    BY <1>1
  <2> QED BY <2>1 DEF Creation!Stored
<1>4. CreationTyped'
  BY <1>1 DEF CreationInv, CreationTyped
<1>5. KeysAreUnique'
  <2>1. ASSUME NEW d \in Creation!Ids', NEW e \in Creation!Ids',
               events'[d].key = events'[e].key, events'[d].key # "none"
        PROVE  d = e
    <3>1. row.key # "none" => \A f \in Creation!Ids : events[f].key # row.key
      BY DEF Creation!Stored
    <3> QED BY <1>1, <2>1, <3>1 DEF CreationInv, KeysAreUnique
  <2>2. \A k \in MeetupKeys \ {"none"} : answers'[k] \subseteq Creation!Stored(k)'
    BY <1>2, <1>3
  <2> QED BY <2>1, <2>2 DEF KeysAreUnique
<1>6. \A d \in AnyCalls : CreationFitsCall(d)'
  <2> TAKE d \in AnyCalls
  <2>1. CreationFitsCall(d) /\ week \in {0, 1}
    BY DEF CreationInv, CreationTyped
  <2>2. CASE creating'[d] = Creation!Idle
    <3>1. creating'[d].phase = "idle" /\ creating'[d].counted = 0 /\ week' = week
      BY <2>2 DEF Creation!Idle
    <3> QED BY <2>1, <3>1 DEF CreationFitsCall, Creation!Creating
  <2>3. CASE GoesOn(d)
    <3>1. \A k : Creation!Stored(k) \subseteq Creation!Stored(k)'
      BY <1>3
    <3>2. Creation!Creating(d)' <=> Creation!Creating(d)
      BY <2>3 DEF GoesOn, Creation!Creating
    <3> QED BY <1>1, <2>1, <2>3, <3>1, <3>2 DEF CreationFitsCall, GoesOn
  <2> QED BY <2>2, <2>3
<1>7. \A d \in AnyCalls : CreationAlone(d)'
  BY DEF CreationAlone
<1> QED BY <1>4, <1>5, <1>6, <1>7 DEF CreationInv

LEMMA RowFits ==
    ASSUME NEW c \in AnyCalls, creating[c] \in Creations, week \in {0, 1},
           Creation!Valid(creating[c].body),
           NEW at \in Creation!Locations(creating[c].body)
    PROVE  LET row == Creation!Row(creating[c].body, at, c)
           IN  /\ row \in Meetups /\ row.key = creating[c].key /\ row.week = week
               /\ row.free => ~creating[c].premium
               /\ row.alone => creating[c].alone /\ creating[c].counted = week
               /\ row.capacity >= 1 /\ row.by = "host"
               /\ row.visibility = "friends" => row.access = "request"
               /\ row.access = "request" => row.join = "request"
               /\ row.mode = "dating" => row.capacity = 2 /\ row.visibility = "friends"
               /\ row.at \/ row.from \in {"affiche", "admin"}
<1> DEFINE body == creating[c].body
           admission == Creation!Admission(body)
<1>1. body \in MeetupBodies /\ creating[c].key \in MeetupKeys \union {"none"}
  BY DEF Creations
<1>2. /\ body.mode \in {"default", "dating", "afterdark"}
      /\ body.visibility \in {"public", "friends"}
      /\ body.access \in {"open", "request", "free"} /\ body.capacity \in Int
      /\ body.from \in {"form", "route", "steps", "affiche",
            "place"} /\ body.point \in BOOLEAN
  BY <1>1 DEF MeetupBodies
<1>3. at \in BOOLEAN /\ (at \/ body.from = "affiche")
  BY <1>2 DEF Creation!Locations
<1>4. /\ admission.visibility \in {"public", "friends"}
      /\ admission.access \in {"open", "request", "free"}
      /\ admission.join \in {"open", "request"}
      /\ admission.visibility = "friends" => admission.access = "request"
      /\ admission.access = "request" => admission.join = "request"
      /\ body.mode = "dating" => admission.visibility = "friends"
  BY <1>2 DEF Creation!Admission
<1>5. /\ Creation!Capacity(body) \in Int /\ Creation!Capacity(body) >= 1
      /\ body.mode = "dating" => Creation!Capacity(body) = 2
  BY <1>2 DEF Creation!Capacity, Creation!Valid
<1>6. PICK free \in BOOLEAN, alone \in BOOLEAN :
        /\ free => ~creating[c].premium
        /\ alone => creating[c].alone /\ creating[c].counted = week
        /\ Creation!Row(body, at, c) =
             [key |-> creating[c].key, mode |-> body.mode, visibility |-> admission.visibility,
              access |-> admission.access, join |-> admission.join,
              capacity |-> Creation!Capacity(body), at |-> at, from |-> body.from,
                  week |-> week,
              by |-> "host", free |-> free, alone |-> alone]
  <2> DEFINE f == ~creating[c].premium
             a == creating[c].alone /\ creating[c].counted = week
  <2>1. \E g \in BOOLEAN, b \in BOOLEAN :
          /\ g => ~creating[c].premium
          /\ b => creating[c].alone /\ creating[c].counted = week
          /\ Creation!Row(body, at, c) =
             [key |-> creating[c].key, mode |-> body.mode, visibility |-> admission.visibility,
              access |-> admission.access, join |-> admission.join,
              capacity |-> Creation!Capacity(body), at |-> at, from |-> body.from,
                  week |-> week,
              by |-> "host", free |-> g, alone |-> b]
    <3> WITNESS f \in BOOLEAN, a \in BOOLEAN
    <3> QED BY DEF Creation!Row
  <2> QED BY <2>1
<1> HIDE DEF body, admission
<1>7. Creation!Row(body, at, c) \in Meetups
  BY <1>1, <1>2, <1>3, <1>4, <1>5, <1>6 DEF Meetups, Modes, Visibilities, Accesses,
        JoinModes, Origins, Editors
<1> QED BY <1>2, <1>3, <1>4, <1>5, <1>6, <1>7 DEF body

LEMMA CreationInserted ==
    ASSUME CreationInv, NEW c \in AnyCalls, Creation!Insert(c) PROVE CreationInv'
<1>1. /\ creating[c].phase = "insert" /\ Creation!Creating(c)
      /\ UNCHANGED <<bound, week, has, usedUp, squeezed>>
  BY DEF Creation!Insert, Creation!Creating
<1>2. /\ creating \in [AnyCalls -> Creations] /\ week \in {0, 1}
          /\ answers \in [MeetupKeys -> SUBSET Nat]
      /\ creating[c] \in Creations /\ CreationTyped
  BY DEF CreationInv, CreationTyped
<1>3. CreationFitsCall(c) /\ Creation!Valid(creating[c].body)
          /\ creating[c].key \in MeetupKeys
  BY <1>1 DEF CreationInv, CreationFitsCall
<1>4. PICK at \in Creation!Locations(creating[c].body) :
         IF creating[c].key # "none" /\ Creation!Stored(creating[c].key) # {}
         THEN Creation!Go(c, "again") /\ UNCHANGED <<events, seats, answers>>
         ELSE /\ events' = Append(events, Creation!Row(creating[c].body, at, c))
              /\ seats' = Append(seats, 1)
              /\ Creation!Answer(c, Len(events) + 1)
  BY DEF Creation!Insert
<1>5. CASE creating[c].key # "none" /\ Creation!Stored(creating[c].key) # {}
  BY <1>1, <1>3, <1>4, <1>5, PhaseKeeps DEF Creation!Rows
<1>6. CASE ~(creating[c].key # "none" /\ Creation!Stored(creating[c].key) # {})
  <2> DEFINE row == Creation!Row(creating[c].body, at, c)
  <2>1. /\ row \in Meetups /\ row.key = creating[c].key /\ row.week = week
        /\ row.free => ~creating[c].premium
        /\ row.alone => creating[c].alone /\ creating[c].counted = week
        /\ row.capacity >= 1 /\ row.by = "host"
        /\ row.visibility = "friends" => row.access = "request"
        /\ row.access = "request" => row.join = "request"
        /\ row.mode = "dating" => row.capacity = 2 /\ row.visibility = "friends"
        /\ row.at \/ row.from \in {"affiche", "admin"}
    BY <1>2, <1>3, RowFits
  <2>2. Adds(row) /\ Creation!Answer(c, Len(events) + 1)
    BY <1>4, <1>6 DEF Adds
  <2> HIDE DEF row
  <2>3. row.free /\ row.alone => CountedIn(row.week) < WeeklyMeetups
    BY <1>1, <2>1 DEF CreationInv, CreationAlone
  <2>4. Creation!WithinLimit'
    BY <2>1, <2>2, <2>3, LimitKept
  <2>5. Creation!AdmissionAgrees' /\ Creation!SeatsWithinCapacity' /\ Creation!PointKnown'
    BY <1>1, <2>1, <2>2, RowHolds
  <2>6. creating' = [creating EXCEPT ![c] = Creation!Idle]
          /\ answers' = [answers EXCEPT ![creating[c].key] = @ \union {Len(events) + 1}]
    BY <2>2 DEF Creation!Answer
  <2>7. creating' \in [AnyCalls -> Creations]
    BY <1>2, <2>6, IdleFits
  <2>8. \A d \in AnyCalls : creating'[d] = Creation!Idle \/ GoesOn(d)
    BY <1>2, <2>6 DEF GoesOn
  <2>9. \A d \in AnyCalls : Creation!Creating(d)' => ~creating'[d].alone
    <3> SUFFICES ASSUME NEW d \in AnyCalls, Creation!Creating(d)',
                        creating'[d].alone PROVE FALSE
      OBVIOUS
    <3>1. d # c /\ creating'[d] = creating[d]
      BY <1>2, <2>6 DEF Creation!Creating, Creation!Idle
    <3>2. Creation!Creating(d) /\ creating[d].alone
      BY <3>1 DEF Creation!Creating
    <3> QED BY <1>1, <3>1, <3>2 DEF CreationInv, CreationAlone
  <2>10. Len(events) + 1 \in Nat
    BY <1>2, EventsHaveRows
  <2>11. answers' \in [MeetupKeys -> SUBSET Nat]
    BY <1>2, <1>3, <2>6, <2>10
  <2>12. row.key # "none" => Creation!Stored(row.key) = {}
    BY <1>6, <2>1
  <2>13. \A k \in MeetupKeys \ {"none"} : answers'[k] \subseteq Creation!Stored(k)
                             \/ (k = row.key /\ answers'[k] \subseteq {Len(events) + 1})
    <3> TAKE k \in MeetupKeys \ {"none"}
    <3>1. answers[k] \subseteq Creation!Stored(k)
      BY DEF CreationInv, KeysAreUnique
    <3>2. answers'[k] = IF k
              = row.key THEN answers[k] \union {Len(events) + 1} ELSE answers[k]
      BY <1>2, <1>3, <2>1, <2>6
    <3> QED BY <2>12, <3>1, <3>2
  <2> QED BY <1>1, <2>1, <2>2, <2>4, <2>5, <2>7, <2>8, <2>9, <2>11, <2>12, <2>13, RowAdded
<1> QED BY <1>5, <1>6

(* A call that is no longer alone.                                           *)
LEMMA AloneEnds ==
    ASSUME NEW c \in AnyCalls, creating[c] \in Creations, NEW touched \in BOOLEAN,
           creating'[c] = IF touched THEN [creating[c] EXCEPT !.alone
               = FALSE] ELSE creating[c]
    PROVE  /\ creating'[c] \in Creations /\ GoesOn(c)
           /\ creating'[c].premium = creating[c].premium
           /\ touched => ~creating'[c].alone
<1>1. CASE touched
  <2>1. creating'[c] = [creating[c] EXCEPT !.alone = FALSE]
    BY <1>1
  <2> QED BY <2>1 DEF Creations, GoesOn
<1>2. CASE ~touched
  <2>1. creating'[c] = creating[c]
    BY <1>2
  <2> QED BY <1>2, <2>1 DEF GoesOn
<1> QED BY <1>1, <1>2

LEMMA AdminCreates ==
    ASSUME CreationInv, NEW visibility \in {"public", "friends"}, NEW join \in {"open", "request"},
           Creation!AdminCreateMeetup(visibility, join)
    PROVE  CreationInv'
<1> DEFINE row == [key |-> "none", mode |-> "default", visibility |-> visibility,
           access |-> join, join |-> join, capacity |-> 20, at |-> FALSE, from |-> "admin",
           week |-> week, by |-> "admin", free |-> FALSE, alone |-> FALSE]
<1>1. Adds(row) /\ UNCHANGED <<bound, week, squeezed>> /\ answers' = answers
  BY DEF Creation!AdminCreateMeetup, Adds
<1>2. /\ creating \in [AnyCalls -> Creations] /\ week \in {0, 1}
          /\ answers \in [MeetupKeys -> SUBSET Nat]
      /\ CreationTyped
  BY DEF CreationInv, CreationTyped
<1>3. row \in Meetups
  BY <1>2 DEF Meetups, Modes, Visibilities, Accesses, JoinModes, Origins, Editors
<1>4. row.key = "none" /\ row.by = "admin" /\ row.capacity = 20 /\ row.from = "admin"
        /\ ~row.free
  OBVIOUS
<1> HIDE DEF row
<1>5. Creation!WithinLimit'
  BY <1>1, <1>3, <1>4, LimitKept
<1>6. Creation!AdmissionAgrees' /\ Creation!SeatsWithinCapacity' /\ Creation!PointKnown'
  BY <1>1, <1>3, <1>4, RowHolds
<1>7. creating'
          = [c \in AnyCalls |-> IF Creation!Creating(c) THEN [creating[c] EXCEPT !.alone
              = FALSE] ELSE creating[c]]
  BY DEF Creation!AdminCreateMeetup
<1>8. \A c \in AnyCalls : creating'[c] \in Creations /\ GoesOn(c)
          /\ (Creation!Creating(c)' => ~creating'[c].alone)
  <2> TAKE c \in AnyCalls
  <2>1. creating[c] \in Creations
    BY <1>2
  <2>2. CASE Creation!Creating(c)
    <3>1. creating'[c] = IF TRUE THEN [creating[c] EXCEPT !.alone = FALSE] ELSE creating[c]
      BY <1>7, <2>2
    <3> QED BY <2>1, <3>1, AloneEnds
  <2>3. CASE ~Creation!Creating(c)
    <3>1. creating'[c] = creating[c]
      BY <1>7, <2>3
    <3> QED BY <2>1, <2>3, <3>1 DEF GoesOn, Creation!Creating
  <2> QED BY <2>2, <2>3
<1>9. creating' \in [AnyCalls -> Creations]
  BY <1>7, <1>8
<1>10. answers' \in [MeetupKeys -> SUBSET Nat]
           /\ \A k \in MeetupKeys \ {"none"} : answers'[k] \subseteq Creation!Stored(k)
  BY <1>1, <1>2 DEF CreationInv, KeysAreUnique
<1> QED BY <1>1, <1>3, <1>4, <1>5, <1>6, <1>8, <1>9, <1>10, RowAdded

-----------------------------------------------------------------------------
(* Rows are edited, and joined.                                              *)

(* Whatever happens to rows that stay: calls and keys do not mind.           *)
LEMMA RowsEdited ==
    ASSUME CreationInv, UNCHANGED <<bound, week, answers>>,
           events' \in Seq(Meetups), seats' \in Seq(Nat), Len(events') = Len(events),
           Len(seats') = Len(seats), WeeksStay,
           creating' \in [AnyCalls -> Creations],
           \A d \in AnyCalls : creating'[d] = Creation!Idle \/ (GoesOn(d)
               /\ creating'[d].premium = creating[d].premium),
           \A d \in AnyCalls : creating'[d].phase \in {"editRequire", "editWrite"}
               /\ creating'[d].alone =>
                              seats'[creating'[d].id] = seats[creating'[d].id],
           Creation!AdmissionAgrees', Creation!SeatsWithinCapacity', Creation!PointKnown'
    PROVE  CreationInv'
<1>1. Creation!Ids' = Creation!Ids
  BY EventsHaveRows DEF Creation!Ids, CreationInv, CreationTyped
<1>2. (\A k : Creation!Stored(k)' = Creation!Stored(k))
          /\ (\A w : CountedIn(w)' = CountedIn(w))
  BY <1>1, KeysStay, CountsStay
<1>3. CreationTyped'
  BY DEF CreationInv, CreationTyped
<1>4. KeysAreUnique'
  BY <1>1, <1>2 DEF CreationInv, KeysAreUnique, WeeksStay
<1>5. \A d \in AnyCalls : Creation!Creating(d)' =>
          creating'[d] # Creation!Idle /\ GoesOn(d) /\ Creation!Creating(d)
                                       /\ creating'[d].premium = creating[d].premium
  BY DEF Creation!Creating, GoesOn, Creation!Idle
<1>6. \A d \in AnyCalls : CreationFitsCall(d)'
  <2> TAKE d \in AnyCalls
  <2>1. CreationFitsCall(d) /\ week \in {0, 1}
    BY DEF CreationInv, CreationTyped
  <2>2. CASE creating'[d] = Creation!Idle
    <3>1. creating'[d].phase = "idle" /\ creating'[d].counted = 0 /\ week' = week
      BY <2>2 DEF Creation!Idle
    <3> QED BY <2>1, <3>1 DEF CreationFitsCall, Creation!Creating
  <2>3. CASE GoesOn(d)
    BY <1>1, <1>2, <1>5, <2>1, <2>3 DEF CreationFitsCall, GoesOn
  <2> QED BY <2>2, <2>3
<1>7. \A d \in AnyCalls : CreationAlone(d)'
  <2> SUFFICES ASSUME NEW d \in AnyCalls, creating'[d].alone, Creation!Creating(d)'
               PROVE  /\ \A e \in AnyCalls : Creation!Creating(e)' => e = d
                      /\ creating'[d].phase \in {"require",
                            "insert"} /\ ~creating'[d].premium
                           /\ creating'[d].counted = week'
                                 => CountedIn(week)' < WeeklyMeetups
    BY DEF CreationAlone
  <2>1. GoesOn(d) /\ Creation!Creating(d) /\ creating'[d].premium = creating[d].premium
            /\ creating[d].alone
    BY <1>5 DEF GoesOn
  <2>2. CreationAlone(d)
    BY DEF CreationInv
  <2>3. week' = week /\ CountedIn(week)' = CountedIn(week)
    BY <1>2
  <2> QED BY <1>5, <2>1, <2>2, <2>3 DEF CreationAlone, GoesOn
<1>8. Creation!WithinLimit'
  <2>1. CreationTyped /\ Creation!WithinLimit
    BY DEF CreationInv
  <2> QED BY CreationCounts, <1>1, <2>1, LimitStays DEF Creation!WithinLimit
<1> QED BY <1>3, <1>4, <1>6, <1>7, <1>8 DEF CreationInv

LEMMA EditBegins ==
    ASSUME CreationInv, NEW c \in AnyCalls, NEW e \in Creation!Ids,
           NEW edit \in bound.edits,
           Creation!ReadHostedEvent(c, e, edit)
    PROVE  CreationInv'
<1> DEFINE begun == [Creation!Idle EXCEPT !.phase = "editRequire", !.body = edit, !.id = e,
                                 !.seats = seats[e], !.alone = TRUE]
<1>1. creating' = [creating EXCEPT ![c] = begun]
        /\ UNCHANGED <<bound, events, seats, week, squeezed>> /\ answers' = answers
  BY DEF Creation!ReadHostedEvent, Creation!Rows
<1>2. edit \in MeetupBodies /\ e \in Nat /\ seats[e] \in Nat /\ week \in {0, 1}
        /\ creating \in [AnyCalls -> Creations]
  BY MeetupsFit, EventsHaveRows DEF CreationInv, CreationTyped
<1>3. begun \in Creations /\ begun.phase = "editRequire" /\ begun.id = e
        /\ begun.seats = seats[e] /\ begun.counted = 0
  <2>1. begun \in Creations
    BY <1>2, IdleFits DEF Creations
  <2> QED BY <2>1 DEF Creation!Idle
<1> HIDE DEF begun
<1>4. creating' \in [AnyCalls -> Creations] /\ creating'[c] = begun
          /\ \A d \in AnyCalls \ {c} : creating'[d] = creating[d]
  BY <1>1, <1>2, <1>3
<1>5. ~Creation!Creating(c)'
  BY <1>3, <1>4 DEF Creation!Creating
<1>6. CallMoves(c)
  BY <1>1, <1>4, <1>5 DEF CallMoves
<1>7. answers' \in [MeetupKeys -> SUBSET Nat]
          /\ \A k \in MeetupKeys \ {"none"} : answers'[k] \subseteq Creation!Stored(k)
  BY <1>1 DEF CreationInv, CreationTyped, KeysAreUnique
<1>8. CreationFitsCall(c)' /\ CreationAlone(c)'
  <2>1. Creation!Ids' = Creation!Ids
    BY <1>1 DEF Creation!Ids
  <2> QED BY <1>1, <1>2, <1>3, <1>4, <1>5, <2>1 DEF CreationFitsCall, CreationAlone
<1> QED BY <1>6, <1>7, <1>8, CallMoved

LEMMA HostEdits ==
    ASSUME CreationInv, NEW c \in AnyCalls, Creation!UpdateHostedEvent(c) PROVE CreationInv'
<1> DEFINE e == creating[c].id
           body == creating[c].body
           to == Creation!ParseHostedEventUpdate(body)
           row == [events[e] EXCEPT !.visibility = to.visibility, !.access = to.access,
                                    !.join = to.join, !.capacity = body.capacity,
                                    !.at = body.point, !.mode = "edited", !.by = "host"]
<1>1. /\ creating[c].phase = "editWrite" /\ Ends(c)
      /\ UNCHANGED <<bound, seats, week, has, usedUp, answers>>
      /\ IF body.capacity < creating[c].seats THEN UNCHANGED <<events, squeezed>>
         ELSE /\ events' = [events EXCEPT ![e].visibility = to.visibility,
                                            ![e].access = to.access, ![e].join = to.join,
                                            ![e].capacity = body.capacity,
                                            ![e].at = body.point,
                                            ![e].mode = "edited", ![e].by = "host"]
              /\ squeezed' = IF creating[c].alone THEN squeezed \ {e} ELSE squeezed \cup {e}
  BY DEF Creation!UpdateHostedEvent, Ends
<1>2. /\ e \in Creation!Ids /\ (creating[c].alone => creating[c].seats = seats[e])
      /\ CreationTyped /\ creating[c] \in Creations
  BY <1>1 DEF CreationInv, CreationFitsCall, CreationTyped
<1>3. \A d \in AnyCalls : creating'[d] = Creation!Idle \/ (GoesOn(d)
          /\ creating'[d].premium = creating[d].premium)
  BY <1>1, CreationEnds DEF GoesOn, Ends, CreationInv, CreationTyped
<1>4. creating' \in [AnyCalls -> Creations] /\ seats' = seats
  BY <1>1, CreationEnds
<1>5. CASE body.capacity < creating[c].seats
  <2>1. events' = events /\ squeezed' = squeezed
    BY <1>1, <1>5
  <2>2. WeeksStay
    BY <2>1 DEF WeeksStay, Creation!Ids
  <2>3. Creation!AdmissionAgrees' /\ Creation!SeatsWithinCapacity' /\ Creation!PointKnown'
    BY <1>1, <2>1, RowsStay DEF CreationInv
  <2> QED BY <1>1, <1>2, <1>3, <1>4, <2>1, <2>2, <2>3, RowsEdited DEF CreationTyped
<1>6. CASE ~(body.capacity < creating[c].seats)
  <2>1. body \in MeetupBodies /\ events[e] \in Meetups /\ seats[e] \in Nat
            /\ creating[c].seats \in Nat
    BY <1>2, EventsHaveRows DEF Creations
  <2>2. /\ body.visibility \in {"public", "friends"}
        /\ body.access \in {"open", "request", "free"} /\ body.capacity \in Int
        /\ body.point \in BOOLEAN
    BY <2>1 DEF MeetupBodies
  <2>3. /\ to.visibility \in {"public", "friends"}
            /\ to.access \in {"open", "request", "free"}
        /\ to.join \in {"open", "request"}
        /\ to.visibility = "friends" => to.access = "request"
        /\ to.access = "request" => to.join = "request"
    BY <2>2 DEF Creation!ParseHostedEventUpdate
  <2>4. events' = [events EXCEPT ![e] = row]
    BY <1>1, <1>6
  <2> HIDE DEF to
  <2>5. row \in Meetups
    <3>1. to.visibility \in Visibilities /\ to.access \in Accesses /\ to.join \in JoinModes
            /\ "edited" \in Modes /\ "host" \in Editors
      BY <2>3 DEF Visibilities, Accesses, JoinModes, Modes, Editors
    <3> QED BY <2>1, <2>2, <3>1 DEF Meetups
  <2>6. /\ row.week = events[e].week /\ row.key = events[e].key
        /\ row.free = events[e].free /\ row.alone = events[e].alone
        /\ row.visibility = to.visibility /\ row.access = to.access /\ row.join = to.join
        /\ row.capacity = body.capacity /\ row.mode = "edited" /\ row.by = "host"
    BY <2>1 DEF Meetups
  <2> HIDE DEF row
  <2>7. /\ events' \in Seq(Meetups) /\ Len(events') = Len(events)
            /\ Creation!Ids' = Creation!Ids
        /\ events'[e] = row /\ \A d \in Creation!Ids \ {e} : events'[d] = events[d]
    BY <1>2, <2>4, <2>5 DEF CreationTyped, Creation!Ids
  <2>8. WeeksStay
    BY <2>6, <2>7 DEF WeeksStay
  <2>9. Creation!AdmissionAgrees'
    BY <2>3, <2>6, <2>7 DEF CreationInv, Creation!AdmissionAgrees
  <2>10. Creation!SeatsWithinCapacity'
    <3>1. squeezed' = IF creating[c].alone THEN squeezed \ {e} ELSE squeezed \cup {e}
      BY <1>1, <1>6
    <3>2. creating[c].alone => seats[e] <= row.capacity
      BY <1>2, <1>6, <2>1, <2>2, <2>6
    <3> QED BY <1>4, <2>7, <3>1, <3>2 DEF CreationInv, Creation!SeatsWithinCapacity
  <2>11. Creation!PointKnown'
    BY <2>6, <2>7 DEF CreationInv, Creation!PointKnown
  <2> QED BY <1>1, <1>2, <1>3, <1>4, <2>7, <2>8, <2>9, <2>10, <2>11, RowsEdited
      DEF CreationTyped
<1> QED BY <1>5, <1>6

LEMMA SeatTaken ==
    ASSUME CreationInv, NEW e \in Creation!Ids, Creation!Seat(e) PROVE CreationInv'
<1>1. /\ seats[e] < events[e].capacity /\ seats' = [seats EXCEPT ![e] = @ + 1]
      /\ creating' = [c \in AnyCalls |-> IF creating[c].id
            = e THEN [creating[c] EXCEPT !.alone = FALSE]
                                ELSE creating[c]]
      /\ UNCHANGED <<bound, events, week, has, answers, squeezed>>
  BY DEF Creation!Seat
<1>2. CreationTyped /\ creating \in [AnyCalls -> Creations] /\ seats \in Seq(Nat)
  BY DEF CreationInv, CreationTyped
<1>3. \A c \in AnyCalls : /\ creating'[c] \in Creations
                          /\ GoesOn(c)
                          /\ creating'[c].premium = creating[c].premium
                          /\ creating[c].id = e => ~creating'[c].alone
  <2> TAKE c \in AnyCalls
  <2>1. creating[c] \in Creations /\ (creating[c].id = e) \in BOOLEAN
    BY <1>2
  <2>2. creating'[c] = IF creating[c].id = e THEN [creating[c] EXCEPT !.alone
            = FALSE] ELSE creating[c]
    BY <1>1
  <2> QED BY <2>1, <2>2, AloneEnds
<1>4. creating' \in [AnyCalls -> Creations]
  BY <1>1, <1>3
<1>5. /\ seats[e] \in Nat /\ events[e].capacity \in Int /\ e \in DOMAIN seats
      /\ seats' \in Seq(Nat) /\ Len(seats') = Len(seats)
      /\ seats'[e] = seats[e] + 1 /\ \A d \in Creation!Ids \ {e} : seats'[d] = seats[d]
  BY <1>1, <1>2, EventsHaveRows DEF Meetups
<1>6. WeeksStay
  BY <1>1 DEF WeeksStay, Creation!Ids
<1>7. \A d \in AnyCalls : creating'[d].phase \in {"editRequire", "editWrite"}
          /\ creating'[d].alone =>
                              seats'[creating'[d].id] = seats[creating'[d].id]
  <2> TAKE d \in AnyCalls
  <2>1. creating[d].phase \in {"editRequire", "editWrite"} =>
            creating[d].id \in Creation!Ids
    BY DEF CreationInv, CreationFitsCall
  <2> QED BY <1>3, <1>5, <2>1 DEF GoesOn
<1>8. Creation!Ids' = Creation!Ids
  BY <1>1 DEF Creation!Ids
<1>9. Creation!AdmissionAgrees' /\ Creation!PointKnown'
  BY <1>1, <1>8 DEF CreationInv, Creation!AdmissionAgrees, Creation!PointKnown
<1>10. Creation!SeatsWithinCapacity'
  BY <1>1, <1>5, <1>8 DEF CreationInv, Creation!SeatsWithinCapacity
<1>11. events' \in Seq(Meetups) /\ Len(events') = Len(events)
  BY <1>1, <1>2 DEF CreationTyped
<1> QED BY <1>1, <1>3, <1>4, <1>5, <1>6, <1>7, <1>9, <1>10, <1>11, RowsEdited

LEMMA AdminEdits ==
    ASSUME CreationInv, NEW e \in Creation!Ids, NEW visibility \in {"public", "friends"},
           NEW capacity \in {2, 3}, Creation!AdminUpdateMeetup(e, visibility, capacity)
    PROVE  CreationInv'
<1> DEFINE row == [events[e] EXCEPT !.visibility = visibility, !.capacity = capacity,
                                    !.by = "admin"]
<1>1. /\ events' = [events EXCEPT ![e] = row] /\ squeezed' = squeezed \union {e}
      /\ UNCHANGED <<bound, seats, week, has, creating, answers>>
  BY DEF Creation!AdminUpdateMeetup
<1>2. CreationTyped /\ events[e] \in Meetups /\ creating \in [AnyCalls -> Creations]
  BY EventsHaveRows DEF CreationInv, CreationTyped
<1>3. row \in Meetups
  <2>1. visibility \in Visibilities /\ capacity \in Int /\ "admin" \in Editors
    BY DEF Visibilities, Editors
  <2> QED BY <1>2, <2>1 DEF Meetups
<1>4. /\ row.week = events[e].week /\ row.key = events[e].key
      /\ row.free = events[e].free /\ row.alone = events[e].alone
      /\ row.at = events[e].at /\ row.from = events[e].from /\ row.mode = events[e].mode
      /\ row.by = "admin"
  BY <1>2 DEF Meetups
<1> HIDE DEF row
<1>5. /\ events' \in Seq(Meetups) /\ Len(events') = Len(events)
          /\ Creation!Ids' = Creation!Ids
      /\ events'[e] = row /\ \A d \in Creation!Ids \ {e} : events'[d] = events[d]
  BY <1>1, <1>2, <1>3 DEF CreationTyped, Creation!Ids
<1>6. WeeksStay
  BY <1>4, <1>5 DEF WeeksStay
<1>7. \A d \in AnyCalls : GoesOn(d) /\ creating'[d] = creating[d]
  BY <1>1 DEF GoesOn
<1>8. Creation!AdmissionAgrees'
  BY <1>4, <1>5 DEF CreationInv, Creation!AdmissionAgrees
<1>9. Creation!SeatsWithinCapacity'
  BY <1>1, <1>5 DEF CreationInv, Creation!SeatsWithinCapacity
<1>10. Creation!PointKnown'
  BY <1>4, <1>5 DEF CreationInv, Creation!PointKnown
<1> QED BY <1>1, <1>2, <1>5, <1>6, <1>7, <1>8, <1>9, <1>10, RowsEdited DEF CreationTyped

-----------------------------------------------------------------------------
LEMMA HostChanges ==
    ASSUME CreationInv, UNCHANGED <<bound, events, seats, week, creating, answers, squeezed>>
    PROVE  CreationInv'
<1>1. Creation!Ids' = Creation!Ids
  BY DEF Creation!Ids
<1>2. CreationTyped' /\ KeysAreUnique'
  BY <1>1, RowsStay DEF CreationInv, CreationTyped, KeysAreUnique
<1>3. \A c \in AnyCalls : CreationAlone(c)' /\ CreationFitsCall(c)'
  BY <1>1, RowsStay DEF CreationInv, CreationAlone, CreationFitsCall, Creation!Creating
<1> QED BY <1>2, <1>3, RowsStay DEF CreationInv

LEMMA WeekPasses ==
    ASSUME CreationInv, Creation!NextWeek PROVE CreationInv'
<1>1. week = 0 /\ week' = 1
          /\ UNCHANGED <<bound, events, seats, has, creating, answers, squeezed>>
  BY DEF Creation!NextWeek
<1>2. Creation!Ids' = Creation!Ids /\ \A k : Creation!Stored(k)' = Creation!Stored(k)
  BY <1>1 DEF Creation!Ids, Creation!Stored
<1>3. CreationTyped' /\ KeysAreUnique'
  BY <1>1, <1>2 DEF CreationInv, CreationTyped, KeysAreUnique
<1>4. \A c \in AnyCalls : CreationFitsCall(c)'
  <2> TAKE c \in AnyCalls
  <2>1. creating[c].counted \in {0, 1} /\ CreationFitsCall(c)
    BY DEF CreationInv, CreationTyped, Creations
  <2> QED BY <1>1, <1>2, <2>1 DEF CreationFitsCall, Creation!Creating
<1>5. \A c \in AnyCalls : CreationAlone(c)'
  <2> TAKE c \in AnyCalls
  <2>1. creating[c].counted \in {0, 1} /\ CreationFitsCall(c) /\ CreationAlone(c)
    BY DEF CreationInv, CreationTyped, Creations
  <2>2. creating'[c].counted # week'
    BY <1>1, <2>1 DEF CreationFitsCall
  <2>3. \A d \in AnyCalls : Creation!Creating(d)' <=> Creation!Creating(d)
    BY <1>1 DEF Creation!Creating
  <2> QED BY <1>1, <2>1, <2>2, <2>3 DEF CreationAlone
<1>6. Creation!WithinLimit' /\ Creation!AdmissionAgrees'
          /\ Creation!SeatsWithinCapacity' /\ Creation!PointKnown'
  BY CreationCounts, <1>1, <1>2 DEF CreationInv, Creation!WithinLimit,
      Creation!AdmissionAgrees,
     Creation!SeatsWithinCapacity, Creation!PointKnown
<1> QED BY <1>3, <1>4, <1>5, <1>6 DEF CreationInv

LEMMA CreationBegins == Creation!Init => CreationInv
<1> SUFFICES ASSUME Creation!Init PROVE CreationInv
  OBVIOUS
<1>1. events = <<>> /\ seats = <<>> /\ Creation!Ids = {} /\ week = 0
  BY DEF Creation!Init, Creation!Ids
<1>2. \A c \in AnyCalls : creating[c] = Creation!Idle
  BY DEF Creation!Init
<1>3. \A c \in AnyCalls : ~Creation!Creating(c) /\ creating[c].counted = 0
          /\ creating[c].phase = "idle"
  BY <1>2 DEF Creation!Creating, Creation!Idle
<1>4. CreationTyped
  BY <1>1, IdleFits DEF Creation!Init, CreationTyped
<1>5. KeysAreUnique
  BY <1>1 DEF Creation!Init, KeysAreUnique
<1>6. \A c \in AnyCalls : CreationAlone(c) /\ CreationFitsCall(c)
  BY <1>1, <1>3 DEF CreationAlone, CreationFitsCall
<1> QED BY CreationCounts, <1>1, <1>4, <1>5, <1>6 DEF CreationInv, Creation!WithinLimit,
    Creation!AdmissionAgrees,
        Creation!SeatsWithinCapacity, Creation!PointKnown

LEMMA CreationStepKeeps == CreationInv /\ [Creation!Next]_Creation!vars => CreationInv'
<1> SUFFICES ASSUME CreationInv, [Creation!Next]_Creation!vars PROVE CreationInv'
  OBVIOUS
<1>1. CASE UNCHANGED Creation!vars
  BY <1>1, HostChanges DEF Creation!vars
<1>2. ASSUME NEW c \in AnyCalls, NEW key \in MeetupKeys, NEW body \in bound.bodies,
             Creation!Begin(c, key, body)
      PROVE  CreationInv'
  BY <1>2, CreationEntered
<1>3. ASSUME NEW c \in AnyCalls,
             Creation!FindStored(c) \/ Creation!AssertAfterDarkUnlocked(c)
                 \/ Creation!HasPremiumAccess(c)
               \/ Creation!AssertCanCreateWeeklyMeetup(c)
                     \/ Creation!AssertHostCanUseEntryRequirements(c)
      PROVE  CreationInv'
  BY <1>3, FoundStored, AfterDarkAsserted, PremiumAsked, LimitAsserted, RequirementsAsserted
<1>4. ASSUME NEW c \in AnyCalls,
             Creation!Insert(c) \/ Creation!FindTaken(c) \/ Creation!Refuse(c)
                 \/ Creation!UpdateHostedEvent(c)
      PROVE  CreationInv'
  BY <1>4, CreationInserted, TakenFound, CreationRefused, HostEdits
<1>5. ASSUME NEW c \in AnyCalls, NEW e \in Creation!Ids, NEW edit \in bound.edits,
             Creation!ReadHostedEvent(c, e, edit)
      PROVE  CreationInv'
  BY <1>5, EditBegins
<1>6. ASSUME NEW e \in Creation!Ids, Creation!Seat(e) PROVE CreationInv'
  BY <1>6, SeatTaken
<1>7. ASSUME NEW visibility \in {"public", "friends"}, NEW join \in {"open", "request"},
             Creation!AdminCreateMeetup(visibility, join)
      PROVE  CreationInv'
  BY <1>7, AdminCreates
<1>8. ASSUME NEW visibility \in {"public", "friends"}, NEW e \in Creation!Ids,
             NEW capacity \in {2, 3},
             Creation!AdminUpdateMeetup(e, visibility, capacity)
      PROVE  CreationInv'
  BY <1>8, AdminEdits
<1>9. ASSUME NEW what \in {"verification", "plus"}, Creation!Change(what) PROVE CreationInv'
  BY <1>9, HostChanges DEF Creation!Change
<1>10. CASE Creation!NextWeek
  BY <1>10, WeekPasses
<1> QED BY <1>1, <1>2, <1>3, <1>4, <1>5, <1>6, <1>7, <1>8, <1>9, <1>10 DEF Creation!Next

LEMMA CreationSteps ==
    ASSUME focus = "create", [Next]_<<focus, everything>>
    PROVE  [Creation!Next]_Creation!vars
<1>1. CASE UNCHANGED <<focus, everything>>
  BY <1>1 DEF everything, Creation!vars
<1>2. CASE Next
  BY <1>2 DEF Next
<1> QED BY <1>1, <1>2

LEMMA CreationKept == Spec => [](focus = "create" => CreationInv)
<1>1. Init => (focus = "create" => CreationInv)
  BY CreationBegins DEF Init
<1>2. (focus = "create" => CreationInv) /\ [Next]_<<focus, everything>>
        => (focus = "create" => CreationInv)'
  <2> SUFFICES ASSUME focus = "create" => CreationInv, [Next]_<<focus, everything>>,
                      focus' = "create"
               PROVE  CreationInv'
    OBVIOUS
  <2>1. focus = "create" /\ CreationInv
    BY DEF Next
  <2>2. [Creation!Next]_Creation!vars
    BY <2>1, CreationSteps
  <2> QED BY <2>1, <2>2, CreationStepKeeps
<1> QED BY <1>1, <1>2, PTL DEF Spec

-----------------------------------------------------------------------------
(* Meetups, by hand or from a draft. A saved route fits the draft's roles,   *)
(* and each of its steps was accepted as the user saw it, unless the step    *)
(* was changed behind his back; a key has one meetup, the week's limit holds *)
(* but for calls that overlapped, a meetup is closed as its body asks, and   *)
(* its seats fit its capacity but where it was written over a join.          *)
THEOREM MeetupsAreRight == Spec => []MeetupsHold
<1>1. (focus = "draft" => DraftInv) => SavedAsAgreed
  BY SavedAsAgreedFollows DEF SavedAsAgreed
<1>2. (focus = "create" => CreationInv) => CreationHolds
  BY CreationHoldsFollows DEF CreationHolds
<1>3. /\ focus = "draft" => DraftInv
      /\ focus = "create" => CreationInv
      => MeetupsHold
  BY <1>1, <1>2 DEF MeetupsHold
<1> QED BY <1>3, DraftKept, CreationKept, PTL

-----------------------------------------------------------------------------
(* The realtime log of a chat, for any clients, messages, calls, pages and   *)
(* bounds: who follows it live misses nothing but what he may be denied.     *)

nextId == v1
log == v2
row == v3
writing == v4
relay == v5
bus == v6
out == v7
pc == v8
cursor == v9
since == v10
heard == v11
page == v12
seen == v13
excuse == v14
lost == v15
USE DEF nextId, log, row, writing, relay, bus, out, pc, cursor, since, heard,
        page, seen, excuse, lost

-----------------------------------------------------------------------------
LEMMA SyncCounts == \A S : Sync!Cardinality(S) = Cardinality(S)
BY DEF Sync!Cardinality, Cardinality

(* A page holds something, and no message has the name of none.              *)
LEMMA LogKnown ==
    LogPage \in Nat \ {0} /\ MaxLogEvents \in Nat /\ Sync!NoMsg \notin LogMessages
BY LogFits DEF Sync!NoMsg

(* The inductive invariant.                                                 *)

(* What calls, cursors and answers hold, as far as it is needed.            *)
Writings ==
    [st : {"open", "committed", "acked"}, id : Nat, kind : Sync!Kinds,
     msg : LogMessages \union {Sync!NoMsg}, via : {"bus", "outbox"},
     by : LogClients \union {Sync!NoMsg}]

LogTyped ==
    /\ writing \in [AnyCalls -> Writings \union {Sync!Idle}]
    /\ pc \in [LogClients -> {"off", "loading", "syncing", "live"}]
    /\ cursor \in [LogClients -> Int]
    /\ since \in [LogClients -> Int]
    /\ heard \in [LogClients -> Int]
    /\ page \in [LogClients -> [msgs : {"unread", "read"}, last : Int]]
    /\ seen \in [LogClients -> SUBSET Nat]
    /\ excuse \in [LogClients -> SUBSET Nat]

WriteOpen(k) == writing[k].st = "open"
WriteDone(k) == writing[k].st \in {"committed", "acked"}

(* Ids on their way are committed, and the sequence is ahead of them.       *)
IdsFit ==
    /\ nextId \in Nat
    /\ \A i \in Sync!Committed : i \in Nat /\ i < nextId
    /\ relay \subseteq Sync!Committed /\ lost \subseteq Sync!Committed
    /\ bus \in [LogClients -> SUBSET Sync!Committed]
    /\ out \in [LogClients -> SUBSET Sync!Committed]
    /\ \A k \in AnyCalls : WriteDone(k) => writing[k].id \in Sync!Committed

(* An open call holds its message alone, and its id is new: to the log, to  *)
(* other open calls, and greater than any about its message.                *)
OpenFits(k) ==
    /\ writing[k].id \in Nat /\ writing[k].id < nextId
    /\ writing[k].id \notin Sync!Committed
    /\ writing[k].msg \in LogMessages =>
          \A i \in Sync!Committed : log[i].msg = writing[k].msg => i < writing[k].id
    /\ \A l \in AnyCalls :
          WriteOpen(l) /\ l # k =>
              /\ writing[l].id # writing[k].id
              /\ writing[k].msg \in LogMessages => writing[l].msg # writing[k].msg

WritesFit == \A k \in AnyCalls : WriteOpen(k) => OpenFits(k)

(* A message is as its last event says.                                     *)
Replays(m) ==
    \/ /\ \A i \in Sync!Committed : log[i].msg # m
       /\ row[m] = Sync!Absent
    \/ \E b \in Sync!Committed :
          /\ log[b].msg = m
          /\ \A i \in Sync!Committed : log[i].msg = m => i <= b
          /\ row[m] = [by |-> b, live |-> log[b].kind # "deleted"]

(* What a client has, or will be sent, or may be denied.                    *)
Held(c) == Sync!UnderWay(c) \union excuse[c] \union lost \union seen[c]

(* A live client holds every event, one that syncs or is away those up to   *)
(* its cursors.                                                             *)
KeepsUp(c) ==
    /\ pc[c] = "live" => Sync!Committed \subseteq Held(c)
    /\ pc[c] = "syncing" =>
          \A i \in Sync!Committed : i <= since[c] \/ i <= cursor[c] => i \in Held(c)
    /\ pc[c] = "off" /\ cursor[c] # -1 =>
          \A i \in Sync!Committed : i <= cursor[c] => i \in Held(c)

SyncInv ==
    /\ LogTyped
    /\ IdsFit
    /\ WritesFit
    /\ \A m \in LogMessages : Replays(m)
    /\ \A c \in LogClients : KeepsUp(c)

-----------------------------------------------------------------------------
(* Sets of numbers, and pages.                                              *)

LEMMA MaxIsGreatest ==
    ASSUME NEW S \in SUBSET Int, IsFiniteSet(S), S # {}
    PROVE  Sync!Max(S) \in S /\ \A y \in S : y <= Sync!Max(S)
<1> DEFINE above(m) == {k \in S : k > m}
           T == {above(m) : m \in S}
<1>1. T \subseteq FiniteSubsetsOf(S)
  BY FS_Subset DEF FiniteSubsetsOf
<1>2. \E x \in T : \A y \in T : <<y, x>> \notin StrictSubsetOrdering(S)
  <2>1. T # {}
    OBVIOUS
  <2> HIDE DEF T
  <2> QED BY <1>1, <2>1, FS_StrictSubsetOrderingWellFounded, WFMin
<1>3. PICK m \in S : \A n \in S : <<above(n), above(m)>> \notin StrictSubsetOrdering(S)
  BY <1>2
<1>4. \A n \in S : m >= n
  <2> SUFFICES ASSUME NEW n \in S, n > m PROVE FALSE
    OBVIOUS
  <2>1. \A k \in S : k > n => k > m
    OBVIOUS
  <2>2. above(n) \subseteq above(m)
    BY <2>1
  <2>3. n \in above(m) /\ n \notin above(n)
    OBVIOUS
  <2>4. above(n) \in SUBSET S /\ above(m) \in SUBSET S
    OBVIOUS
  <2> HIDE DEF above
  <2> QED BY <1>3, <2>2, <2>3, <2>4 DEF StrictSubsetOrdering
<1> QED BY <1>4 DEF Sync!Max

LEMMA GreatestIsMax ==
    ASSUME NEW S \in SUBSET Int, NEW b \in S, \A y \in S : y <= b
    PROVE  Sync!Max(S) = b
<1>1. \E x \in S : \A y \in S : x >= y
  OBVIOUS
<1>2. \A x \in S : (\A y \in S : x >= y) => x = b
  OBVIOUS
<1> QED BY <1>1, <1>2 DEF Sync!Max

(* What is lower than something of a page is of the page.                   *)
LEMMA LowestIsDownward ==
    ASSUME NEW S \in SUBSET Nat, IsFiniteSet(S), NEW n \in Nat,
           NEW x \in Sync!Lowest(n, S), NEW i \in S, i <= x
    PROVE  i \in Sync!Lowest(n, S)
<1> DEFINE below(m) == {j \in S : j < m}
<1>1. x \in S /\ Cardinality(below(x)) < n
  BY SyncCounts DEF Sync!Lowest
<1>2. below(i) \in SUBSET below(x) /\ below(x) \in SUBSET S
  <2>1. \A j \in S : j < i => j < x
    BY <1>1
  <2> QED BY <2>1
<1>3. IsFiniteSet(below(x))
  <2> HIDE DEF below
  <2> QED BY <1>2, FS_Subset
<1>4. /\ Cardinality(below(i)) <= Cardinality(below(x))
      /\ Cardinality(below(i)) \in Nat /\ Cardinality(below(x)) \in Nat
  <2> HIDE DEF below
  <2> QED BY <1>2, <1>3, FS_Subset, FS_CardinalityType
<1>5. Cardinality(below(i)) < n
  <2> HIDE DEF below
  <2> QED BY <1>1, <1>4
<1> QED BY SyncCounts, <1>5 DEF Sync!Lowest

(* A page with room left is all there is.                                   *)
LEMMA PageIsWhole ==
    ASSUME NEW S \in SUBSET Nat, IsFiniteSet(S), NEW n \in Nat,
           Cardinality(Sync!Lowest(n, S)) < n
    PROVE  Sync!Lowest(n, S) = S
<1> DEFINE below(m) == {j \in S : j < m}
           rest == S \ Sync!Lowest(n, S)
<1> SUFFICES ASSUME rest # {} PROVE FALSE
  BY SyncCounts DEF Sync!Lowest
<1>1. rest \in SUBSET Nat /\ rest \in SUBSET S /\ Sync!Lowest(n, S) \in SUBSET S
  BY SyncCounts DEF Sync!Lowest
<1>2. IsFiniteSet(rest) /\ IsFiniteSet(Sync!Lowest(n, S))
  <2> HIDE DEF rest
  <2> QED BY <1>1, FS_Subset
<1>3. PICK x \in rest : \A y \in rest : x <= y
  <2> HIDE DEF rest
  <2> QED BY <1>1, <1>2, SomethingIsLeast
<1>4. below(x) \in SUBSET Sync!Lowest(n, S)
  BY <1>1, <1>3
<1>5. /\ Cardinality(below(x)) <= Cardinality(Sync!Lowest(n, S))
      /\ Cardinality(below(x)) \in Nat /\ Cardinality(Sync!Lowest(n, S)) \in Nat
  <2> HIDE DEF below
  <2> QED BY <1>2, <1>4, FS_Subset, FS_CardinalityType
<1>6. Cardinality(below(x)) < n
  <2> HIDE DEF below
  <2> QED BY <1>5
<1> QED BY SyncCounts, <1>3, <1>6 DEF Sync!Lowest

(* A page that leaves something out shows something, and all up to it.      *)
LEMMA PageShows ==
    ASSUME NEW S \in SUBSET Nat, IsFiniteSet(S), NEW n \in Nat, NEW p \in Nat \ {0},
           Sync!Lowest(n, S) # {}
    PROVE  LET given == Sync!Lowest(p, Sync!Lowest(n, S)) IN
           /\ given \in SUBSET S
           /\ Sync!Max(given) \in given
           /\ \A i \in S : i <= Sync!Max(given) => i \in given
<1> DEFINE found == Sync!Lowest(n, S)
           given == Sync!Lowest(p, found)
<1>1. found \in SUBSET S /\ found \in SUBSET Nat /\ given \in SUBSET found
  BY SyncCounts DEF Sync!Lowest
<1>2. IsFiniteSet(found)
  <2> HIDE DEF found
  <2> QED BY <1>1, FS_Subset
<1>3. IsFiniteSet(given)
  <2> HIDE DEF found, given
  <2> QED BY <1>1, <1>2, FS_Subset
<1>4. PICK x \in found : \A y \in found : x <= y
  <2> HIDE DEF found
  <2>1. found # {}
    BY DEF found
  <2> QED BY <1>1, <1>2, <2>1, SomethingIsLeast
<1>5. x \in given
  <2>1. {j \in found : j < x} = {}
    BY <1>1, <1>4
  <2>2. Cardinality({j \in found : j < x}) < p
    BY <2>1, FS_EmptySet
  <2> QED BY SyncCounts, <1>4, <2>2 DEF Sync!Lowest
<1>6. Sync!Max(given) \in given
  <2> HIDE DEF given
  <2>1. given \in SUBSET Int /\ given # {}
    BY <1>1, <1>5
  <2> QED BY <1>3, <2>1, MaxIsGreatest
<1>7. ASSUME NEW i \in S, i <= Sync!Max(given) PROVE i \in given
  <2>1. i \in found
    <3> HIDE DEF given
    <3> QED BY <1>1, <1>6, <1>7, LowestIsDownward DEF found
  <2> HIDE DEF found
  <2>2. Sync!Max(Sync!Lowest(p, found)) \in Sync!Lowest(p, found)
            /\ i <= Sync!Max(Sync!Lowest(p, found))
    BY <1>6, <1>7
  <2> QED BY <1>1, <1>2, <2>1, <2>2, LowestIsDownward
<1> QED BY <1>1, <1>6, <1>7

LEMMA CommittedIsFinite ==
    ASSUME IdsFit
    PROVE  IsFiniteSet(Sync!Committed)
<1>1. nextId \in Nat /\ \A i \in Sync!Committed : i \in 0 .. nextId
  BY DEF IdsFit
<1>2. Sync!Committed \in SUBSET (0 .. nextId)
  BY <1>1
<1>3. IsFiniteSet(0 .. nextId)
  BY <1>1, FS_Interval
<1> QED BY <1>2, <1>3, FS_Subset

-----------------------------------------------------------------------------
(* What stays.                                                              *)

(* A client that stays where it is follows on, as long as what it holds     *)
(* grows with the log.                                                      *)
LEMMA FollowsOn ==
    ASSUME NEW c, KeepsUp(c), pc'[c] = pc[c], since'[c] = since[c],
           pc[c] = "live" \/ cursor'[c] = cursor[c],
           Held(c) \subseteq Held(c)', Sync!Committed' \ Sync!Committed \subseteq Held(c)'
    PROVE  KeepsUp(c)'
BY DEF KeepsUp

(* The steps of clients leave log and calls alone.                          *)
LEMMA LogUntouched ==
    ASSUME SyncInv, UNCHANGED <<nextId, log, row, writing, relay, lost>>,
           bus' \in [LogClients -> SUBSET Sync!Committed],
               out' \in [LogClients -> SUBSET Sync!Committed]
    PROVE  IdsFit' /\ WritesFit' /\ \A m \in LogMessages : Replays(m)'
<1>1. IdsFit'
  BY DEF SyncInv, IdsFit, Sync!Committed, WriteDone
<1>2. WritesFit'
  BY DEF SyncInv, WritesFit, WriteOpen, OpenFits, Sync!Committed
<1>3. \A m \in LogMessages : Replays(m)'
  BY DEF SyncInv, Replays, Sync!Committed
<1> QED BY <1>1, <1>2, <1>3

-----------------------------------------------------------------------------
(* Transactions.                                                            *)

LEMMA OpenKeepsLog ==
    ASSUME SyncInv, NEW k \in AnyCalls, NEW kind \in Sync!Kinds,
           NEW m \in LogMessages \union {Sync!NoMsg},
           NEW via \in {"bus", "outbox"}, NEW by \in LogClients \union {Sync!NoMsg},
           Sync!Open(k, kind, m, via, by), m \in LogMessages => Sync!RowFree(m)
    PROVE  SyncInv'
<1> DEFINE t == [st |-> "open", id |-> nextId, kind |-> kind, msg |-> m, via |-> via, by |-> by]
<1>1. /\ writing' = [writing EXCEPT ![k] = t] /\ DOMAIN writing = AnyCalls
      /\ nextId' = nextId + 1
      /\ writing[k] = Sync!Idle /\ nextId \in Nat
      /\ UNCHANGED <<log, row, relay, bus, out, lost>> /\ UNCHANGED Sync!clientVars
  BY DEF Sync!Open, SyncInv, LogTyped, IdsFit
<1>2. /\ t.st = "open" /\ t.id = nextId /\ t.msg = m /\ t \in Writings
      /\ writing'[k] = t /\ DOMAIN writing' = AnyCalls
      /\ \A l \in AnyCalls : l # k => writing'[l] = writing[l]
  BY <1>1 DEF Writings
<1>3. ~WriteOpen(k) /\ ~WriteDone(k)
  BY <1>1 DEF Sync!Idle, WriteOpen, WriteDone
<1> HIDE DEF t
<1>4. LogTyped'
  BY <1>1, <1>2 DEF SyncInv, LogTyped, Sync!clientVars
<1>5. nextId \in Nat /\ \A i \in Sync!Committed : i \in Nat /\ i < nextId
  BY DEF SyncInv, IdsFit
<1>6. IdsFit'
  <2>1. \A l \in AnyCalls : WriteDone(l)' => writing'[l].id \in Sync!Committed
    BY <1>2 DEF SyncInv, IdsFit, WriteDone
  <2>2. nextId' \in Nat /\ \A i \in Sync!Committed : i \in Nat /\ i < nextId'
    BY <1>1, <1>5
  <2>3. relay \subseteq Sync!Committed /\ lost \subseteq Sync!Committed
            /\ bus \in [LogClients -> SUBSET Sync!Committed]
        /\ out \in [LogClients -> SUBSET Sync!Committed]
    BY DEF SyncInv, IdsFit
  <2> QED BY <1>1, <2>1, <2>2, <2>3 DEF IdsFit, Sync!Committed
<1>7. WritesFit'
  <2>1. \A l \in AnyCalls : WriteOpen(l)' <=> l = k \/ WriteOpen(l)
    BY <1>2 DEF WriteOpen
  <2>2. \A l \in AnyCalls : WriteOpen(l) => OpenFits(l)
    BY DEF SyncInv, WritesFit
  <2>3. OpenFits(k)'
    <3>1. \A l \in AnyCalls : WriteOpen(l)' /\ l # k =>
              writing'[l].id # t.id /\ (m \in LogMessages => writing'[l].msg # m)
      BY <1>2, <1>5, <2>1, <2>2 DEF OpenFits, Sync!RowFree, WriteOpen
    <3>2. t.id \in Nat /\ t.id < nextId' /\ t.id \notin Sync!Committed
      BY <1>1, <1>2, <1>5
    <3> QED BY <1>1, <1>2, <1>5, <3>1, <3>2 DEF OpenFits, Sync!Committed
  <2>4. ASSUME NEW l \in AnyCalls, l # k, WriteOpen(l) PROVE OpenFits(l)'
    <3>1. OpenFits(l) /\ writing'[l] = writing[l]
      BY <1>2, <2>2, <2>4
    <3>2. writing[l].id < nextId' /\ writing[l].id # nextId
      BY <1>1, <1>5, <3>1 DEF OpenFits
    <3>3. writing[l].msg \in LogMessages => m # writing[l].msg
      BY <2>4 DEF Sync!RowFree, WriteOpen
    <3>4. \A j \in AnyCalls : WriteOpen(j)' /\ j # l =>
              writing'[j].id # writing[l].id /\ (writing[l].msg \in LogMessages =>
                  writing'[j].msg # writing[l].msg)
      BY <1>2, <2>1, <3>1, <3>2, <3>3 DEF OpenFits
    <3> QED BY <1>1, <3>1, <3>2, <3>4 DEF OpenFits, Sync!Committed
  <2> QED BY <2>1, <2>3, <2>4 DEF WritesFit
<1>8. \A n \in LogMessages : Replays(n)'
  BY <1>1 DEF SyncInv, Replays, Sync!Committed
<1>9. \A c \in LogClients : KeepsUp(c)'
  <2> TAKE c \in LogClients
  <2>1. Held(c) \subseteq Held(c)'
    BY <1>1, <1>2, <1>3 DEF Held, Sync!UnderWay, WriteDone, Sync!clientVars
  <2>2. KeepsUp(c)
    BY DEF SyncInv
  <2> QED BY <1>1, <2>1, <2>2, FollowsOn DEF Sync!clientVars, Sync!Committed
<1> QED BY <1>4, <1>6, <1>7, <1>8, <1>9 DEF SyncInv

(* The id that is committed is the greatest about its message.              *)
LEMMA CommitKeepsLog ==
    ASSUME SyncInv, NEW k \in AnyCalls, Sync!Commit(k)
    PROVE  SyncInv'
<1> DEFINE t == writing[k]
           e == [kind |-> t.kind, msg |-> t.msg]
<1>1. /\ t.st = "open"
      /\ log' = [i \in Sync!Committed \union {t.id} |-> IF i = t.id THEN e ELSE log[i]]
      /\ row' = [m \in LogMessages |->
                    IF m = t.msg THEN [by |-> t.id, live |-> t.kind # "deleted"] ELSE row[m]]
      /\ \/ relay' = relay \union {t.id} /\ writing' = [writing EXCEPT ![k] = Sync!Idle]
         \/ relay' = relay /\ writing' = [writing EXCEPT ![k].st = "committed"]
      /\ UNCHANGED <<nextId, bus, out, lost>> /\ UNCHANGED Sync!clientVars
  BY DEF Sync!Commit
<1>2. /\ t.id \in Nat /\ t.id < nextId /\ t.id \notin Sync!Committed
      /\ t.msg \in LogMessages => \A i \in Sync!Committed : log[i].msg = t.msg => i < t.id
      /\ \A l \in AnyCalls : WriteOpen(l) /\ l # k =>
            writing[l].id # t.id /\ (t.msg \in LogMessages => writing[l].msg # t.msg)
  BY <1>1 DEF SyncInv, WritesFit, WriteOpen, OpenFits
<1>3. e.kind = t.kind /\ e.msg = t.msg
  OBVIOUS
<1>4. WriteOpen(k) /\ ~WriteDone(k)
  BY <1>1 DEF WriteOpen, WriteDone
<1> HIDE DEF e
<1>5. /\ Sync!Committed' = Sync!Committed \union {t.id} /\ log'[t.id] = e
      /\ \A i \in Sync!Committed : log'[i] = log[i]
  BY <1>1, <1>2 DEF Sync!Committed
<1>6. /\ writing' \in [AnyCalls -> Writings \union {Sync!Idle}] /\ writing'[k].st # "open"
      /\ \A l \in AnyCalls : l # k => writing'[l] = writing[l]
      /\ \/ writing'[k] = Sync!Idle /\ relay' = relay \union {t.id}
         \/ relay' = relay /\ writing'[k].st = "committed" /\ writing'[k].id = t.id
  <2>1. writing \in [AnyCalls -> Writings \union {Sync!Idle}]
    BY DEF SyncInv, LogTyped
  <2>2. CASE relay' = relay \union {t.id} /\ writing' = [writing EXCEPT ![k] = Sync!Idle]
    BY <2>1, <2>2 DEF Sync!Idle
  <2>3. CASE relay' = relay /\ writing' = [writing EXCEPT ![k].st = "committed"]
    <3>1. writing[k] \in Writings
      BY <1>1, <2>1 DEF Sync!Idle
    <3>2. [writing[k] EXCEPT !.st = "committed"] \in Writings
      BY <3>1 DEF Writings
    <3>3. writing'[k] = [writing[k] EXCEPT !.st = "committed"]
      BY <2>1, <2>3
    <3>4. writing'[k].id = writing[k].id /\ writing'[k].st = "committed"
      BY <3>1, <3>3 DEF Writings
    <3>5. writing' \in [AnyCalls -> Writings \union {Sync!Idle}]
              /\ \A l \in AnyCalls : l # k => writing'[l] = writing[l]
      BY <2>1, <2>3, <3>2
    <3> QED BY <2>3, <3>4, <3>5
  <2> QED BY <1>1, <2>2, <2>3
<1>7. LogTyped'
  BY <1>1, <1>6 DEF SyncInv, LogTyped, Sync!clientVars
<1>8. nextId \in Nat /\ \A i \in Sync!Committed : i \in Nat /\ i < nextId
  BY DEF SyncInv, IdsFit
<1> HIDE DEF t
<1>9. IdsFit'
  <2>1. \A l \in AnyCalls : WriteDone(l)' => writing'[l].id \in Sync!Committed'
    <3> SUFFICES ASSUME NEW l \in AnyCalls,
                        WriteDone(l)' PROVE writing'[l].id \in Sync!Committed'
      OBVIOUS
    <3>1. CASE l = k
      BY <1>5, <1>6, <3>1 DEF WriteDone, Sync!Idle
    <3>2. CASE l # k
      BY <1>5, <1>6, <3>2 DEF SyncInv, IdsFit, WriteDone
    <3> QED BY <3>1, <3>2
  <2>2. nextId' \in Nat /\ \A i \in Sync!Committed' : i \in Nat /\ i < nextId'
    BY <1>1, <1>2, <1>5, <1>8
  <2>3. relay \subseteq Sync!Committed /\ lost \subseteq Sync!Committed
            /\ bus \in [LogClients -> SUBSET Sync!Committed]
        /\ out \in [LogClients -> SUBSET Sync!Committed]
    BY DEF SyncInv, IdsFit
  <2>4. relay' \subseteq Sync!Committed' /\ lost' \subseteq Sync!Committed'
    BY <1>1, <1>5, <1>6, <2>3
  <2>5. bus' \in [LogClients -> SUBSET Sync!Committed']
            /\ out' \in [LogClients -> SUBSET Sync!Committed']
    BY <1>1, <1>5, <2>3
  <2> QED BY <2>1, <2>2, <2>4, <2>5 DEF IdsFit
<1>10. WritesFit'
  <2> SUFFICES ASSUME NEW l \in AnyCalls, WriteOpen(l)' PROVE OpenFits(l)'
    BY DEF WritesFit
  <2>1. l # k /\ WriteOpen(l) /\ writing'[l] = writing[l]
    BY <1>6 DEF WriteOpen
  <2>2. OpenFits(l)
    BY <2>1 DEF SyncInv, WritesFit
  <2>3. writing[l].id # t.id /\ (t.msg \in LogMessages => writing[l].msg # t.msg)
    BY <1>2, <2>1
  <2>4. writing[l].id \notin Sync!Committed'
    BY <1>5, <2>2, <2>3 DEF OpenFits
  <2>5. writing[l].msg \in LogMessages =>
            \A i \in Sync!Committed' : log'[i].msg = writing[l].msg => i < writing[l].id
    <3> SUFFICES ASSUME writing[l].msg \in LogMessages, NEW i \in Sync!Committed',
                        log'[i].msg = writing[l].msg
                 PROVE  i < writing[l].id
      OBVIOUS
    <3>1. i # t.id
      BY <1>3, <1>5, <2>3
    <3> QED BY <1>5, <2>2, <3>1 DEF OpenFits
  <2>6. \A j \in AnyCalls : WriteOpen(j)' => WriteOpen(j) /\ writing'[j] = writing[j]
    BY <1>6 DEF WriteOpen
  <2> QED BY <1>1, <2>1, <2>2, <2>4, <2>5, <2>6 DEF OpenFits
<1>11. ASSUME NEW m \in LogMessages PROVE Replays(m)'
  <2>1. Replays(m)
    BY DEF SyncInv
  <2>2. CASE m = t.msg
    <3>1. \A i \in Sync!Committed' : log'[i].msg = m => i <= t.id
      BY <1>2, <1>5, <1>8, <2>2
    <3>2. row'[m] = [by |-> t.id, live |-> log'[t.id].kind # "deleted"]
      BY <1>1, <1>3, <1>5, <2>2
    <3>3. t.id \in Sync!Committed' /\ log'[t.id].msg = m
      BY <1>3, <1>5, <2>2
    <3> QED BY <3>1, <3>2, <3>3 DEF Replays
  <2>3. CASE m # t.msg
    <3>1. row'[m] = row[m] /\ log'[t.id].msg # m
      BY <1>1, <1>3, <1>5, <2>3
    <3>2. CASE \A i \in Sync!Committed : log[i].msg # m
      BY <1>5, <2>1, <3>1, <3>2 DEF Replays
    <3>3. CASE \E b \in Sync!Committed :
                  /\ log[b].msg = m
                  /\ \A i \in Sync!Committed : log[i].msg = m => i <= b
                  /\ row[m] = [by |-> b, live |-> log[b].kind # "deleted"]
      <4>1. PICK b \in Sync!Committed :
                  /\ log[b].msg = m
                  /\ \A i \in Sync!Committed : log[i].msg = m => i <= b
                  /\ row[m] = [by |-> b, live |-> log[b].kind # "deleted"]
        BY <3>3
      <4>2. b \in Sync!Committed' /\ log'[b] = log[b]
        BY <1>5
      <4>3. \A i \in Sync!Committed' : log'[i].msg = m => i <= b
        BY <1>5, <3>1, <4>1
      <4> QED BY <3>1, <4>1, <4>2, <4>3 DEF Replays
    <3> QED BY <2>1, <3>2, <3>3 DEF Replays
  <2> QED BY <2>2, <2>3
<1>12. ASSUME NEW c \in LogClients PROVE KeepsUp(c)'
  <2>1. Sync!UnderWay(c) \union {t.id} \subseteq Sync!UnderWay(c)'
    <3>1. \A l \in AnyCalls : WriteDone(l) =>
              l # k /\ WriteDone(l)' /\ writing'[l].id = writing[l].id
      BY <1>4, <1>6 DEF WriteDone
    <3>2. t.id \in relay' \/ (WriteDone(k)' /\ writing'[k].id = t.id)
      <4>1. CASE relay' = relay \union {t.id}
        BY <4>1
      <4>2. CASE writing'[k].st = "committed" /\ writing'[k].id = t.id
        BY <4>2 DEF WriteDone
      <4> QED BY <1>6, <4>1, <4>2
    <3>3. relay \subseteq relay' /\ bus'[c] = bus[c] /\ out'[c] = out[c]
      BY <1>1, <1>6
    <3> QED BY <3>1, <3>2, <3>3 DEF Sync!UnderWay, WriteDone
  <2>2. Held(c) \subseteq Held(c)' /\ Sync!Committed' \ Sync!Committed \subseteq Held(c)'
    BY <1>1, <1>5, <2>1 DEF Held, Sync!clientVars
  <2>3. KeepsUp(c)
    BY DEF SyncInv
  <2> QED BY <1>1, <2>2, <2>3, FollowsOn DEF Sync!clientVars
<1> QED BY <1>7, <1>9, <1>10, <1>11, <1>12 DEF SyncInv

(* The steps that end a call without touching the log.                      *)
LEMMA ClosedKeeps ==
    ASSUME SyncInv, NEW k \in AnyCalls, NEW t,
           writing' = [writing EXCEPT ![k] = t], t.st # "open",
           t.st \in {"committed", "acked"} => t.id \in Sync!Committed,
           UNCHANGED <<nextId, log, row, relay>>, lost' \subseteq Sync!Committed,
           bus' \in [LogClients -> SUBSET Sync!Committed],
               out' \in [LogClients -> SUBSET Sync!Committed]
    PROVE  /\ IdsFit' /\ WritesFit' /\ \A m \in LogMessages : Replays(m)'
           /\ DOMAIN writing' = AnyCalls /\ writing'[k] = t
           /\ \A l \in AnyCalls : l # k => writing'[l] = writing[l]
<1>1. /\ DOMAIN writing = AnyCalls /\ DOMAIN writing' = AnyCalls /\ writing'[k] = t
      /\ \A l \in AnyCalls : l # k => writing'[l] = writing[l]
  BY DEF SyncInv, LogTyped
<1>2. IdsFit'
  <2>1. \A l \in AnyCalls : WriteDone(l)' => writing'[l].id \in Sync!Committed
    BY <1>1 DEF SyncInv, IdsFit, WriteDone
  <2> QED BY <2>1 DEF SyncInv, IdsFit, Sync!Committed
<1>3. WritesFit'
  <2>1. \A l \in AnyCalls : WriteOpen(l)' => WriteOpen(l) /\ writing'[l] = writing[l]
    BY <1>1 DEF WriteOpen
  <2> QED BY <2>1 DEF SyncInv, WritesFit, OpenFits, Sync!Committed
<1>4. \A m \in LogMessages : Replays(m)'
  BY DEF SyncInv, Replays, Sync!Committed
<1> QED BY <1>1, <1>2, <1>3, <1>4

LEMMA AbortKeepsLog ==
    ASSUME SyncInv, NEW k \in AnyCalls, Sync!Abort(k)
    PROVE  SyncInv'
<1>1. /\ writing[k].st = "open" /\ writing' = [writing EXCEPT ![k] = Sync!Idle]
      /\ UNCHANGED <<nextId, log, row, relay, bus, out, lost>> /\ UNCHANGED Sync!clientVars
      /\ Sync!Idle.st # "open" /\ Sync!Idle.st \notin {"committed", "acked"}
  BY DEF Sync!Abort, Sync!Idle
<1>2. /\ bus \in [LogClients -> SUBSET Sync!Committed]
      /\ out \in [LogClients -> SUBSET Sync!Committed]
      /\ lost' \subseteq Sync!Committed
  BY <1>1 DEF SyncInv, IdsFit
<1>3. /\ IdsFit' /\ WritesFit' /\ \A m \in LogMessages : Replays(m)'
      /\ DOMAIN writing' = AnyCalls /\ \A l \in AnyCalls : l # k => writing'[l] = writing[l]
  BY <1>1, <1>2, ClosedKeeps
<1>4. LogTyped'
  BY <1>1, <1>3 DEF SyncInv, LogTyped, Sync!clientVars
<1>5. ASSUME NEW c \in LogClients PROVE KeepsUp(c)'
  <2>1. \A l \in AnyCalls : WriteDone(l) => l # k
    BY <1>1 DEF WriteDone
  <2>2. Held(c) \subseteq Held(c)'
    BY <1>1, <1>3, <2>1 DEF Held, Sync!UnderWay, WriteDone, Sync!clientVars
  <2>3. KeepsUp(c)
    BY DEF SyncInv
  <2> QED BY <1>1, <2>2, <2>3, FollowsOn DEF Sync!clientVars, Sync!Committed
<1> QED BY <1>3, <1>4, <1>5 DEF SyncInv

(* What a client is given of a committed event.                             *)
LEMMA ShownOf ==
    ASSUME LogTyped, NEW c \in LogClients, NEW i \in Nat, i \in Sync!Committed,
           Sync!Show(c, i)
    PROVE  /\ seen' \in [LogClients -> SUBSET Nat] /\ i \in seen'[c]
           /\ cursor' \in [LogClients -> Int] /\ heard' \in [LogClients -> Int]
           /\ \A d \in LogClients : seen[d] \subseteq seen'[d]
           /\ \A d \in LogClients : pc[d] = "live" \/ cursor'[d] = cursor[d]
<1>1. Sync!Carried(i) \in Int
  BY DEF Sync!Carried
<1>2. \A a, b \in Int : Sync!Larger(a, b) \in Int
  BY DEF Sync!Larger
<1>3. seen' \in [LogClients -> SUBSET Nat] /\ i \in seen'[c]
      /\ \A d \in LogClients : seen[d] \subseteq seen'[d]
  BY DEF Sync!Show, LogTyped
<1>4. CASE pc[c] = "live"
  <2>1. cursor' = [cursor EXCEPT ![c] = Sync!Larger(@, Sync!Carried(i))] /\ heard' = heard
    BY <1>4 DEF Sync!Show
  <2> QED BY <1>1, <1>2, <1>3, <1>4, <2>1 DEF LogTyped
<1>5. CASE pc[c] # "live"
  <2>1. heard' = [heard EXCEPT ![c] = Sync!Larger(@, Sync!Carried(i))] /\ cursor' = cursor
    BY <1>5 DEF Sync!Show
  <2> QED BY <1>1, <1>2, <1>3, <2>1 DEF LogTyped
<1> QED BY <1>4, <1>5

(* A call that goes on to be acknowledged.                                  *)
LEMMA AcknowledgeKeeps ==
    ASSUME SyncInv, NEW k \in AnyCalls, Sync!Acknowledge(k)
    PROVE  SyncInv'
<1> DEFINE t == [writing[k] EXCEPT !.st = "acked"]
<1>1. writing \in [AnyCalls -> Writings \union {Sync!Idle}] /\ writing[k].st = "committed"
  BY DEF Sync!Acknowledge, SyncInv, LogTyped
<1>2. writing[k] \in Writings
  BY <1>1 DEF Sync!Idle
<1>3. t \in Writings /\ t.id = writing[k].id /\ t.st = "acked"
  BY <1>2 DEF Writings
<1>4. /\ writing' = [writing EXCEPT ![k] = t] /\ DOMAIN writing = AnyCalls
      /\ UNCHANGED <<nextId, log, row, relay, bus, out, pc, since, page, excuse, lost>>
  BY <1>1 DEF Sync!Acknowledge
<1>5. /\ writing[k].id \in Sync!Committed /\ writing[k].id \in Nat
      /\ lost' \subseteq Sync!Committed
      /\ bus \in [LogClients -> SUBSET Sync!Committed]
      /\ out \in [LogClients -> SUBSET Sync!Committed]
  BY <1>1, <1>2, <1>4 DEF SyncInv, IdsFit, WriteDone, Writings
<1>6. /\ seen' \in [LogClients -> SUBSET Nat]
      /\ cursor' \in [LogClients -> Int] /\ heard' \in [LogClients -> Int]
      /\ \A d \in LogClients : seen[d] \subseteq seen'[d]
      /\ \A d \in LogClients : pc[d] = "live" \/ cursor'[d] = cursor[d]
  <2>1. CASE writing[k].by \in LogClients /\ Sync!Show(writing[k].by, writing[k].id)
    BY <1>5, <2>1, ShownOf DEF SyncInv
  <2>2. CASE UNCHANGED <<seen, cursor, heard>>
    BY <2>2 DEF SyncInv, LogTyped
  <2> QED BY <2>1, <2>2 DEF Sync!Acknowledge
<1> HIDE DEF t
<1>7. /\ IdsFit' /\ WritesFit' /\ \A m \in LogMessages : Replays(m)'
      /\ DOMAIN writing' = AnyCalls /\ writing'[k] = t
      /\ \A l \in AnyCalls : l # k => writing'[l] = writing[l]
  BY <1>3, <1>4, <1>5, ClosedKeeps
<1>8. LogTyped'
  BY <1>1, <1>3, <1>4, <1>6 DEF SyncInv, LogTyped
<1>9. ASSUME NEW c \in LogClients PROVE KeepsUp(c)'
  <2>1. \A l \in AnyCalls : WriteDone(l) => WriteDone(l)' /\ writing'[l].id = writing[l].id
    BY <1>3, <1>7 DEF WriteDone
  <2>2. Held(c) \subseteq Held(c)'
    BY <1>4, <1>6, <2>1 DEF Held, Sync!UnderWay, WriteDone
  <2>3. KeepsUp(c)
    BY DEF SyncInv
  <2> QED BY <1>4, <1>6, <2>2, <2>3, FollowsOn DEF Sync!Committed
<1> QED BY <1>7, <1>8, <1>9 DEF SyncInv

LEMMA PublishKeeps ==
    ASSUME SyncInv, NEW k \in AnyCalls, Sync!Publish(k)
    PROVE  SyncInv'
<1>1. /\ WriteDone(k) /\ writing' = [writing EXCEPT ![k] = Sync!Idle]
      /\ Sync!PublishTo(LogClients, writing[k].id)
      /\ UNCHANGED <<nextId, log, row, relay, out, lost>> /\ UNCHANGED Sync!clientVars
      /\ Sync!Idle.st # "open" /\ Sync!Idle.st \notin {"committed", "acked"}
  BY DEF Sync!Publish, Sync!Idle, WriteDone
<1>2. /\ writing[k].id \in Sync!Committed /\ lost' \subseteq Sync!Committed
      /\ bus \in [LogClients -> SUBSET Sync!Committed]
      /\ out \in [LogClients -> SUBSET Sync!Committed]
  BY <1>1 DEF SyncInv, IdsFit
<1>3. /\ bus' \in [LogClients -> SUBSET Sync!Committed]
      /\ \A c \in LogClients : bus[c] \subseteq bus'[c] /\ writing[k].id \in bus'[c]
  BY <1>1, <1>2 DEF Sync!PublishTo
<1>4. /\ IdsFit' /\ WritesFit' /\ \A m \in LogMessages : Replays(m)'
      /\ DOMAIN writing' = AnyCalls /\ \A l \in AnyCalls : l # k => writing'[l] = writing[l]
  BY <1>1, <1>2, <1>3, ClosedKeeps
<1>5. LogTyped'
  BY <1>1 DEF SyncInv, LogTyped, Sync!clientVars
<1>6. ASSUME NEW c \in LogClients PROVE KeepsUp(c)'
  <2>1. Held(c) \subseteq Held(c)'
    BY <1>1, <1>3, <1>4 DEF Held, Sync!UnderWay, WriteDone, Sync!clientVars
  <2>2. KeepsUp(c)
    BY DEF SyncInv
  <2> QED BY <1>1, <2>1, <2>2, FollowsOn DEF Sync!clientVars, Sync!Committed
<1> QED BY <1>4, <1>5, <1>6 DEF SyncInv

LEMMA CrashKeeps ==
    ASSUME SyncInv, NEW k \in AnyCalls, Sync!CrashBeforePublish(k)
    PROVE  SyncInv'
<1>1. /\ WriteDone(k) /\ writing' = [writing EXCEPT ![k] = Sync!Idle]
      /\ lost' = lost \union {writing[k].id}
      /\ UNCHANGED <<nextId, log, row, relay, bus, out>> /\ UNCHANGED Sync!clientVars
      /\ Sync!Idle.st # "open" /\ Sync!Idle.st \notin {"committed", "acked"}
  BY DEF Sync!CrashBeforePublish, Sync!Idle, WriteDone
<1>2. /\ bus \in [LogClients -> SUBSET Sync!Committed]
      /\ out \in [LogClients -> SUBSET Sync!Committed]
      /\ lost' \subseteq Sync!Committed
  BY <1>1 DEF SyncInv, IdsFit
<1>3. /\ IdsFit' /\ WritesFit' /\ \A m \in LogMessages : Replays(m)'
      /\ DOMAIN writing' = AnyCalls /\ \A l \in AnyCalls : l # k => writing'[l] = writing[l]
  BY <1>1, <1>2, ClosedKeeps
<1>4. LogTyped'
  BY <1>1 DEF SyncInv, LogTyped, Sync!clientVars
<1>5. ASSUME NEW c \in LogClients PROVE KeepsUp(c)'
  <2>1. Held(c) \subseteq Held(c)'
    BY <1>1, <1>3 DEF Held, Sync!UnderWay, WriteDone, Sync!clientVars
  <2>2. KeepsUp(c)
    BY DEF SyncInv
  <2> QED BY <1>1, <2>1, <2>2, FollowsOn DEF Sync!clientVars, Sync!Committed
<1> QED BY <1>3, <1>4, <1>5 DEF SyncInv

LEMMA RelayKeeps ==
    ASSUME SyncInv, Sync!PublishRelayed
    PROVE  SyncInv'
<1>1. PICK i \in relay : /\ relay' = relay \ {i} /\ Sync!PublishTo(LogClients, i)
                         /\ UNCHANGED <<nextId, log, row, writing, out, lost>>
                         /\ UNCHANGED Sync!clientVars
  BY DEF Sync!PublishRelayed
<1>2. i \in Sync!Committed /\ bus \in [LogClients -> SUBSET Sync!Committed]
  BY DEF SyncInv, IdsFit
<1>3. /\ bus' \in [LogClients -> SUBSET Sync!Committed]
      /\ \A c \in LogClients : bus[c] \subseteq bus'[c] /\ i \in bus'[c]
  BY <1>1, <1>2 DEF Sync!PublishTo
<1>4. IdsFit'
  BY <1>1, <1>3 DEF SyncInv, IdsFit, Sync!Committed, WriteDone
<1>5. WritesFit' /\ \A m \in LogMessages : Replays(m)'
  BY <1>1 DEF SyncInv, WritesFit, WriteOpen, OpenFits, Replays, Sync!Committed
<1>6. LogTyped'
  BY <1>1 DEF SyncInv, LogTyped, Sync!clientVars
<1>7. ASSUME NEW c \in LogClients PROVE KeepsUp(c)'
  <2>1. Held(c) \subseteq Held(c)'
    BY <1>1, <1>3 DEF Held, Sync!UnderWay, Sync!clientVars
  <2>2. KeepsUp(c)
    BY DEF SyncInv
  <2> QED BY <1>1, <2>1, <2>2, FollowsOn DEF Sync!clientVars, Sync!Committed
<1> QED BY <1>4, <1>5, <1>6, <1>7 DEF SyncInv

-----------------------------------------------------------------------------
(* Clients.                                                                 *)

(* A step of one client: it follows, and so does everybody else.            *)
LEMMA ClientKeeps ==
    ASSUME SyncInv, NEW c \in LogClients, UNCHANGED <<nextId, log, row, writing, relay, lost>>,
           LogTyped', KeepsUp(c)',
           bus' \in [LogClients -> SUBSET Sync!Committed],
               out' \in [LogClients -> SUBSET Sync!Committed],
           \A d \in LogClients : d # c =>
               /\ pc'[d] = pc[d] /\ since'[d] = since[d] /\ cursor'[d] = cursor[d]
               /\ bus'[d] = bus[d] /\ out'[d] = out[d]
               /\ seen'[d] = seen[d] /\ excuse'[d] = excuse[d]
    PROVE  SyncInv'
<1>1. IdsFit' /\ WritesFit' /\ \A m \in LogMessages : Replays(m)'
  BY LogUntouched
<1>2. ASSUME NEW d \in LogClients, d # c PROVE KeepsUp(d)'
  <2>1. Held(d) \subseteq Held(d)'
    BY <1>2 DEF Held, Sync!UnderWay
  <2>2. KeepsUp(d)
    BY DEF SyncInv
  <2> QED BY <1>2, <2>1, <2>2, FollowsOn DEF Sync!Committed
<1> QED BY <1>1, <1>2 DEF SyncInv

LEMMA RepeatSendKeeps ==
    ASSUME SyncInv, NEW c \in LogClients, Sync!RepeatSend(c)
    PROVE  SyncInv'
<1>1. PICK i \in lost : seen' = [seen EXCEPT ![c] = @ \union {i}]
  BY DEF Sync!RepeatSend
<1>2. UNCHANGED <<nextId, log, row, writing, relay, bus, out, pc, cursor, since, heard, page,
                  excuse, lost>>
  BY DEF Sync!RepeatSend
<1>3. /\ i \in Nat /\ bus \in [LogClients -> SUBSET Sync!Committed]
      /\ out \in [LogClients -> SUBSET Sync!Committed]
  BY DEF SyncInv, IdsFit
<1>4. LogTyped' /\ seen[c] \subseteq seen'[c] /\ \A d \in LogClients : d # c =>
          seen'[d] = seen[d]
  BY <1>1, <1>2, <1>3 DEF SyncInv, LogTyped
<1>5. KeepsUp(c)'
  <2>1. Held(c) \subseteq Held(c)'
    BY <1>2, <1>4 DEF Held, Sync!UnderWay
  <2>2. KeepsUp(c)
    BY DEF SyncInv
  <2> QED BY <1>2, <2>1, <2>2, FollowsOn DEF Sync!Committed
<1> QED BY <1>2, <1>3, <1>4, <1>5, ClientKeeps

(* Who is not connected is denied what lies behind his cursor.              *)
LEMMA ArriveKeeps ==
    ASSUME SyncInv, NEW c \in LogClients, Sync!Arrive(c)
    PROVE  SyncInv'
<1>1. PICK i \in bus[c] :
          /\ bus' = [bus EXCEPT ![c] = @ \ {i}]
          /\ \/ /\ Sync!Online(c)
                /\ out' = [out EXCEPT ![c] = @ \union {i}] /\ excuse' = excuse
             \/ /\ ~Sync!Online(c) /\ out' = out
                /\ excuse' = [excuse EXCEPT ![c]
                      = IF i <= cursor[c] THEN @ \union {i} ELSE @]
          /\ UNCHANGED <<nextId, log, row, writing, relay, pc, cursor, since, heard, page,
                seen, lost>>
  BY DEF Sync!Arrive
<1>2. /\ bus \in [LogClients -> SUBSET Sync!Committed]
      /\ out \in [LogClients -> SUBSET Sync!Committed]
      /\ i \in Sync!Committed /\ i \in Nat
  BY DEF SyncInv, IdsFit
<1>3. /\ bus' \in [LogClients -> SUBSET Sync!Committed]
      /\ out' \in [LogClients -> SUBSET Sync!Committed]
      /\ bus[c] \subseteq bus'[c] \union {i} /\ out[c] \subseteq out'[c]
      /\ \A d \in LogClients : d # c => bus'[d] = bus[d] /\ out'[d] = out[d]
  BY <1>1, <1>2
<1>4. LogTyped' /\ excuse[c] \subseteq excuse'[c]
      /\ \A d \in LogClients : d # c => excuse'[d] = excuse[d]
  BY <1>1, <1>2 DEF SyncInv, LogTyped
<1>5. KeepsUp(c)'
  <2>1. KeepsUp(c)
    BY DEF SyncInv
  <2>2. CASE Sync!Online(c)
    <3>1. i \in out'[c]
      BY <1>1, <1>2, <2>2
    <3>2. Held(c) \subseteq Held(c)'
      BY <1>1, <1>3, <1>4, <3>1 DEF Held, Sync!UnderWay
    <3> QED BY <1>1, <2>1, <3>2, FollowsOn DEF Sync!Committed
  <2>3. CASE ~Sync!Online(c)
    <3>1. Held(c) \subseteq Held(c)' \union {i}
      BY <1>1, <1>3, <1>4 DEF Held, Sync!UnderWay
    <3>2. i <= cursor[c] => i \in excuse'[c]
      BY <1>1, <2>3 DEF SyncInv, LogTyped
    <3>3. i <= cursor[c] => i \in Held(c)'
      BY <3>2 DEF Held
    <3>4. pc[c] \notin {"syncing", "live"}
      BY <2>3 DEF Sync!Online
    <3> QED BY <1>1, <2>1, <3>1, <3>3, <3>4 DEF KeepsUp, Sync!Committed
  <2> QED BY <2>2, <2>3
<1> QED BY <1>1, <1>3, <1>4, <1>5, ClientKeeps

LEMMA DeliverKeeps ==
    ASSUME SyncInv, NEW c \in LogClients, Sync!Deliver(c)
    PROVE  SyncInv'
<1>1. PICK i \in out[c] :
          /\ out' = [out EXCEPT ![c] = @ \ {i}] /\ Sync!Show(c, i)
          /\ UNCHANGED <<nextId, log, row, writing, relay, bus, pc, since, page, excuse,
                lost>>
  BY DEF Sync!Deliver
<1>2. /\ bus \in [LogClients -> SUBSET Sync!Committed]
      /\ out \in [LogClients -> SUBSET Sync!Committed]
      /\ i \in Sync!Committed /\ i \in Nat
  BY DEF SyncInv, IdsFit
<1>3. /\ out' \in [LogClients -> SUBSET Sync!Committed]
      /\ out[c] \subseteq out'[c] \union {i}
      /\ \A d \in LogClients : d # c => out'[d] = out[d]
  BY <1>1, <1>2
<1>4. /\ seen' \in [LogClients -> SUBSET Nat] /\ i \in seen'[c]
      /\ cursor' \in [LogClients -> Int] /\ heard' \in [LogClients -> Int]
      /\ seen[c] \subseteq seen'[c] /\ (pc[c] = "live" \/ cursor'[c] = cursor[c])
  BY <1>1, <1>2, ShownOf DEF SyncInv
<1>5. \A d \in LogClients : d # c => seen'[d] = seen[d] /\ cursor'[d] = cursor[d]
  BY <1>1 DEF Sync!Show, SyncInv, LogTyped
<1>6. LogTyped'
  BY <1>1, <1>4 DEF SyncInv, LogTyped
<1>7. KeepsUp(c)'
  <2>1. Held(c) \subseteq Held(c)'
    BY <1>1, <1>3, <1>4 DEF Held, Sync!UnderWay
  <2>2. KeepsUp(c)
    BY DEF SyncInv
  <2> QED BY <1>1, <1>4, <2>1, <2>2, FollowsOn DEF Sync!Committed
<1> QED BY <1>1, <1>2, <1>3, <1>5, <1>6, <1>7, ClientKeeps

LEMMA DropKeepsLog ==
    ASSUME SyncInv, NEW c \in LogClients, Sync!Drop(c)
    PROVE  SyncInv'
<1>1. PICK i \in out[c] :
          /\ out' = [out EXCEPT ![c] = @ \ {i}]
          /\ excuse' = [excuse EXCEPT ![c] = @ \union {i}]
          /\ UNCHANGED <<nextId, log, row, writing, relay, bus, pc, cursor, since, heard,
                page,
                         seen, lost>>
  BY DEF Sync!Drop
<1>2. /\ bus \in [LogClients -> SUBSET Sync!Committed]
      /\ out \in [LogClients -> SUBSET Sync!Committed]
      /\ i \in Sync!Committed /\ i \in Nat
  BY DEF SyncInv, IdsFit
<1>3. /\ out' \in [LogClients -> SUBSET Sync!Committed]
      /\ out[c] \subseteq out'[c] \union {i}
      /\ \A d \in LogClients : d # c => out'[d] = out[d]
  BY <1>1, <1>2
<1>4. LogTyped' /\ excuse'[c] = excuse[c] \union {i}
      /\ \A d \in LogClients : d # c => excuse'[d] = excuse[d]
  BY <1>1, <1>2 DEF SyncInv, LogTyped
<1>5. KeepsUp(c)'
  <2>1. Held(c) \subseteq Held(c)'
    BY <1>1, <1>3, <1>4 DEF Held, Sync!UnderWay
  <2>2. KeepsUp(c)
    BY DEF SyncInv
  <2> QED BY <1>1, <2>1, <2>2, FollowsOn DEF Sync!Committed
<1> QED BY <1>1, <1>2, <1>3, <1>4, <1>5, ClientKeeps

(* Who begins to load has no cursor, and while he loads nothing is asked of *)
(* him; at its end he is denied what his cursor is ahead of.                *)
LEMMA LoadKeepsLog ==
    ASSUME SyncInv, NEW c \in LogClients,
           Sync!StartLoad(c) \/ Sync!LoadMessages(c) \/ Sync!LoadLastEvent(c)
    PROVE  SyncInv'
<1>1. UNCHANGED <<nextId, log, row, writing, relay, bus, out, cursor, since, heard, excuse, lost>>
  BY DEF Sync!StartLoad, Sync!LoadMessages, Sync!LoadLastEvent
<1>2. /\ bus \in [LogClients -> SUBSET Sync!Committed]
      /\ out \in [LogClients -> SUBSET Sync!Committed]
      /\ Sync!Committed \subseteq Nat
  BY DEF SyncInv, IdsFit
<1>3. LogTyped
  BY DEF SyncInv
<1>4. CASE Sync!StartLoad(c)
  <2>1. pc' = [pc EXCEPT ![c] = "loading"] /\ UNCHANGED <<page, seen>>
    BY <1>4 DEF Sync!StartLoad
  <2>2. LogTyped' /\ pc'[c] = "loading" /\ \A d \in LogClients : d # c => pc'[d] = pc[d]
    BY <1>1, <1>3, <2>1 DEF LogTyped
  <2>3. KeepsUp(c)'
    BY <2>2 DEF KeepsUp
  <2> QED BY <1>1, <1>2, <2>1, <2>2, <2>3, ClientKeeps
<1>5. CASE Sync!LoadMessages(c)
  <2>1. /\ pc[c] = "loading" /\ page' = [page EXCEPT ![c].msgs = "read"]
        /\ seen' = [seen EXCEPT ![c] = Sync!Committed] /\ pc' = pc
    BY <1>5 DEF Sync!LoadMessages
  <2>2. LogTyped' /\ \A d \in LogClients : d # c => seen'[d] = seen[d]
    BY <1>1, <1>2, <1>3, <2>1 DEF LogTyped
  <2>3. KeepsUp(c)'
    BY <2>1 DEF KeepsUp
  <2> QED BY <1>1, <1>2, <2>1, <2>2, <2>3, ClientKeeps
<1>6. CASE Sync!LoadLastEvent(c)
  <2>1. /\ pc[c] = "loading" /\ page' = [page EXCEPT ![c].last = Sync!LastId]
        /\ UNCHANGED <<pc, seen>>
    BY <1>6 DEF Sync!LoadLastEvent
  <2>2. Sync!LastId \in Int
    <3>1. IsFiniteSet(Sync!Committed)
      BY CommittedIsFinite DEF SyncInv
    <3>2. Sync!Committed # {} => Sync!Max(Sync!Committed) \in Sync!Committed
      <4>1. Sync!Committed \in SUBSET Int
        BY <1>2
      <4> QED BY <3>1, <4>1, MaxIsGreatest
    <3>3. Sync!Committed # {} => Sync!Max(Sync!Committed) \in Nat
      BY <1>2, <3>2
    <3> QED BY <3>3 DEF Sync!LastId
  <2>3. LogTyped'
    BY <1>1, <1>3, <2>1, <2>2 DEF LogTyped
  <2>4. KeepsUp(c)'
    BY <2>1 DEF KeepsUp
  <2> QED BY <1>1, <1>2, <2>1, <2>3, <2>4, ClientKeeps
<1> QED BY <1>4, <1>5, <1>6

LEMMA EndLoadKeeps ==
    ASSUME SyncInv, NEW c \in LogClients, Sync!EndLoad(c)
    PROVE  SyncInv'
<1>1. /\ page' = [page EXCEPT ![c] = Sync!NoPage] /\ pc' = [pc EXCEPT ![c] = "off"]
      /\ cursor' = [cursor EXCEPT ![c] = page[c].last]
      /\ excuse' = [excuse EXCEPT ![c] =
                       @ \union {i \in Sync!Committed \ seen[c] : i <= page[c].last}]
      /\ UNCHANGED <<nextId, log, row, writing, relay, bus, out, since, heard, seen, lost>>
  BY DEF Sync!EndLoad
<1>2. /\ bus \in [LogClients -> SUBSET Sync!Committed]
      /\ out \in [LogClients -> SUBSET Sync!Committed]
      /\ Sync!Committed \subseteq Nat
  BY DEF SyncInv, IdsFit
<1>3. LogTyped /\ page[c].last \in Int
  BY DEF SyncInv, LogTyped
<1>4. Sync!NoPage \in [msgs : {"unread", "read"}, last : Int]
  BY DEF Sync!NoPage
<1>5. /\ LogTyped'
      /\ pc'[c] = "off" /\ cursor'[c] = page[c].last
      /\ excuse'[c] = excuse[c] \union {i \in Sync!Committed \ seen[c] : i <= page[c].last}
      /\ \A d \in LogClients : d # c
            => pc'[d] = pc[d] /\ cursor'[d] = cursor[d] /\ excuse'[d] = excuse[d]
  BY <1>1, <1>2, <1>3, <1>4 DEF LogTyped
<1>6. KeepsUp(c)'
  <2>1. \A i \in Sync!Committed : i <= cursor'[c] => i \in seen'[c] \/ i \in excuse'[c]
    BY <1>1, <1>5
  <2> QED BY <1>1, <1>5, <2>1 DEF KeepsUp, Held, Sync!Committed
<1> QED BY <1>1, <1>2, <1>5, <1>6, ClientKeeps

LEMMA SubscribeKeeps ==
    ASSUME SyncInv, NEW c \in LogClients, Sync!Subscribe(c)
    PROVE  SyncInv'
<1>1. /\ pc[c] = "off" /\ cursor[c] # -1
      /\ pc' = [pc EXCEPT ![c] = "syncing"] /\ since' = [since EXCEPT ![c] = cursor[c]]
      /\ heard' = [heard EXCEPT ![c] = 0]
      /\ UNCHANGED <<nextId, log, row, writing, relay, bus, out, cursor, page, seen,
            excuse, lost>>
  BY DEF Sync!Subscribe
<1>2. bus \in [LogClients -> SUBSET Sync!Committed]
          /\ out \in [LogClients -> SUBSET Sync!Committed]
  BY DEF SyncInv, IdsFit
<1>3. /\ LogTyped' /\ pc'[c] = "syncing" /\ since'[c] = cursor[c] /\ cursor'[c] = cursor[c]
      /\ \A d \in LogClients : d # c => pc'[d] = pc[d] /\ since'[d] = since[d]
  BY <1>1 DEF SyncInv, LogTyped
<1>4. KeepsUp(c)'
  <2>1. \A i \in Sync!Committed : i <= cursor[c] => i \in Held(c)
    BY <1>1 DEF SyncInv, KeepsUp
  <2>2. Held(c)' = Held(c)
    BY <1>1 DEF Held, Sync!UnderWay
  <2> QED BY <1>1, <1>3, <2>1, <2>2 DEF KeepsUp, Sync!Committed
<1> QED BY <1>1, <1>2, <1>3, <1>4, ClientKeeps

(* Unsent messages are denied if they lie behind the cursor; otherwise they *)
(* will be asked for.                                                       *)
LEMMA BreakKeeps ==
    ASSUME SyncInv, NEW c \in LogClients, Sync!Break(c)
    PROVE  SyncInv'
<1>1. /\ pc[c] \in {"syncing", "live"} /\ pc' = [pc EXCEPT ![c] = "off"]
      /\ out' = [out EXCEPT ![c] = {}]
      /\ excuse' = [excuse EXCEPT ![c] = @ \union {i \in out[c] : i <= cursor[c]}]
      /\ UNCHANGED <<nextId, log, row, writing, relay, bus, cursor, since, heard, page,
            seen, lost>>
  BY DEF Sync!Break, Sync!Online
<1>2. /\ bus \in [LogClients -> SUBSET Sync!Committed]
      /\ out \in [LogClients -> SUBSET Sync!Committed]
      /\ Sync!Committed \subseteq Nat
  BY DEF SyncInv, IdsFit
<1>3. /\ out' \in [LogClients -> SUBSET Sync!Committed]
      /\ \A d \in LogClients : d # c => out'[d] = out[d]
  BY <1>1, <1>2
<1>4. /\ LogTyped' /\ pc'[c] = "off"
      /\ excuse'[c] = excuse[c] \union {i \in out[c] : i <= cursor[c]}
      /\ \A d \in LogClients : d # c => pc'[d] = pc[d] /\ excuse'[d] = excuse[d]
  BY <1>1, <1>2 DEF SyncInv, LogTyped
<1>5. KeepsUp(c)'
  <2>1. \A i \in Sync!Committed : i <= cursor[c] => i \in Held(c)
    BY <1>1 DEF SyncInv, KeepsUp
  <2>2. \A i \in Sync!Committed : i <= cursor[c] /\ i \in Held(c) => i \in Held(c)'
    <3>1. \A i \in out[c] : i <= cursor[c] => i \in excuse'[c]
      BY <1>4
    <3>2. excuse[c] \subseteq excuse'[c]
      BY <1>4
    <3> QED BY <1>1, <3>1, <3>2 DEF Held, Sync!UnderWay
  <2> QED BY <1>1, <1>4, <2>1, <2>2 DEF KeepsUp, Sync!Committed
<1> QED BY <1>1, <1>2, <1>3, <1>4, <1>5, ClientKeeps

(* A page that leaves something out shows all up to its last event, the     *)
(* last page all there is.                                                  *)
LEMMA SyncKeeps ==
    ASSUME SyncInv, NEW c \in LogClients, Sync!Sync(c)
    PROVE  SyncInv'
<1> DEFINE found == Sync!Lowest(LogPage + 1, Sync!After(c))
           hasMore == Cardinality(found) > LogPage
           given == IF hasMore THEN Sync!Lowest(LogPage, found) ELSE found
<1>1. /\ pc[c] = "syncing" /\ seen' = [seen EXCEPT ![c] = @ \union given]
      /\ \/ /\ hasMore
            /\ since' = [since EXCEPT ![c] = Sync!Max(given)]
            /\ UNCHANGED <<pc, cursor>>
         \/ /\ ~hasMore /\ since' = since /\ pc' = [pc EXCEPT ![c] = "live"]
            /\ cursor' =
                  [cursor EXCEPT ![c] = Sync!Max({@, since[c], heard[c]} \union given)]
      /\ UNCHANGED <<nextId, log, row, writing, relay, bus, out, heard, page, excuse, lost>>
  BY SyncCounts DEF Sync!Sync
<1>2. /\ bus \in [LogClients -> SUBSET Sync!Committed]
      /\ out \in [LogClients -> SUBSET Sync!Committed]
      /\ Sync!Committed \subseteq Nat
  BY DEF SyncInv, IdsFit
<1>3. IsFiniteSet(Sync!Committed)
  BY CommittedIsFinite DEF SyncInv
<1>4. Sync!After(c) \in SUBSET Sync!Committed /\ Sync!After(c) \in SUBSET Nat
  BY <1>2 DEF Sync!After
<1>5. IsFiniteSet(Sync!After(c))
  BY <1>3, <1>4, FS_Subset
<1>6. LogPage \in Nat \ {0} /\ LogPage + 1 \in Nat
  BY LogKnown
<1>7. found \in SUBSET Sync!After(c) /\ given \in SUBSET found
  BY SyncCounts DEF Sync!Lowest
<1>8. /\ IsFiniteSet(found) /\ Cardinality(found) \in Nat /\ IsFiniteSet(given)
  <2> HIDE DEF found, given
  <2> QED BY <1>5, <1>7, FS_Subset, FS_CardinalityType
<1>9. LogTyped /\ since[c] \in Int /\ cursor[c] \in Int /\ heard[c] \in Int
  BY DEF SyncInv, LogTyped
<1>10. KeepsUp(c)
  BY DEF SyncInv
<1>11. Held(c) \union given \subseteq Held(c)' /\ seen' \in [LogClients -> SUBSET Nat]
       /\ \A d \in LogClients : d # c => seen'[d] = seen[d]
  <2> HIDE DEF given, found
  <2>1. seen'[c] = seen[c] \union given /\ seen' \in [LogClients -> SUBSET Nat]
    BY <1>1, <1>4, <1>7, <1>9 DEF LogTyped
  <2> QED BY <1>1, <1>9, <2>1 DEF Held, Sync!UnderWay, LogTyped
<1>12. CASE hasMore
  <2>1. found # {}
    <3> HIDE DEF found
    <3>1. Cardinality(found) # 0
      BY <1>6, <1>8, <1>12
    <3> QED BY <3>1, FS_EmptySet
  <2>2. given = Sync!Lowest(LogPage, Sync!Lowest(LogPage + 1, Sync!After(c)))
    BY <1>12
  <2>3. Sync!Max(given) \in given /\ \A i \in Sync!After(c) : i <= Sync!Max(given) =>
            i \in given
    <3> HIDE DEF given
    <3> QED BY <1>4, <1>5, <1>6, <2>1, <2>2, PageShows DEF found
  <2> HIDE DEF given, found
  <2>4. Sync!Max(given) \in Int
    BY <1>4, <1>7, <2>3
  <2>5. /\ since' = [since EXCEPT ![c] = Sync!Max(given)] /\ UNCHANGED <<pc, cursor>>
    BY <1>1, <1>12
  <2>6. LogTyped' /\ since'[c] = Sync!Max(given) /\ \A d \in LogClients : d # c =>
            since'[d] = since[d]
    BY <1>1, <1>9, <1>11, <2>4, <2>5 DEF LogTyped
  <2>7. \A i \in Sync!Committed : i <= Sync!Max(given) => i \in Held(c)'
    <3> SUFFICES ASSUME NEW i \in Sync!Committed, i <= Sync!Max(given) PROVE i \in Held(c)'
      OBVIOUS
    <3>1. CASE i <= since[c]
      BY <1>1, <1>10, <1>11, <3>1 DEF KeepsUp
    <3>2. CASE i > since[c]
      <4>1. i \in Sync!After(c)
        BY <3>2 DEF Sync!After
      <4> QED BY <1>11, <2>3, <4>1
    <3> QED BY <1>2, <1>9, <3>1, <3>2
  <2>8. KeepsUp(c)'
    BY <1>1, <1>10, <1>11, <2>5, <2>6, <2>7 DEF KeepsUp, Sync!Committed
  <2> QED BY <1>1, <1>2, <1>11, <2>5, <2>6, <2>8, ClientKeeps
<1>13. CASE ~hasMore
  <2>1. found = Sync!After(c)
    <3>1. Cardinality(Sync!Lowest(LogPage + 1, Sync!After(c))) < LogPage + 1
      <4>1. Cardinality(found) \in Nat /\ ~(Cardinality(found) > LogPage)
        BY <1>8, <1>13
      <4> QED BY <1>6, <4>1
    <3> QED BY <1>4, <1>5, <1>6, <3>1, PageIsWhole
  <2>2. given = Sync!After(c)
    BY <1>13, <2>1
  <2> DEFINE known == {cursor[c], since[c], heard[c]} \union given
  <2>3. Sync!Max(known) \in Int
    <3>1. known \in SUBSET Int /\ known # {}
      BY <1>4, <1>9, <2>2
    <3>2. IsFiniteSet(known)
      <4>1. IsFiniteSet({cursor[c], since[c], heard[c]})
        <5>1. IsFiniteSet((({} \cup {cursor[c]}) \cup {since[c]}) \cup {heard[c]})
          BY FS_EmptySet, FS_AddElement
        <5>2. (({} \cup {cursor[c]}) \cup {since[c]}) \cup {heard[c]}
                = {cursor[c], since[c], heard[c]}
          OBVIOUS
        <5> QED BY <5>1, <5>2
      <4> HIDE DEF given
      <4> QED BY <1>8, <4>1, FS_Union
    <3> HIDE DEF known
    <3> QED BY <3>1, <3>2, MaxIsGreatest
  <2>4. /\ since' = since /\ pc' = [pc EXCEPT ![c] = "live"]
        /\ cursor' = [cursor EXCEPT ![c] = Sync!Max(known)]
    BY <1>1, <1>13
  <2> HIDE DEF known, given, found
  <2>5. LogTyped' /\ pc'[c] = "live"
        /\ \A d \in LogClients : d # c => pc'[d] = pc[d] /\ cursor'[d] = cursor[d]
    BY <1>1, <1>9, <1>11, <2>3, <2>4 DEF LogTyped
  <2>6. Sync!Committed \subseteq Held(c)'
    <3> SUFFICES ASSUME NEW i \in Sync!Committed PROVE i \in Held(c)'
      OBVIOUS
    <3>1. CASE i <= since[c]
      BY <1>1, <1>10, <1>11, <3>1 DEF KeepsUp
    <3>2. CASE i > since[c]
      BY <1>11, <2>2, <3>2 DEF Sync!After
    <3> QED BY <1>2, <1>9, <3>1, <3>2
  <2>7. KeepsUp(c)'
    BY <1>1, <2>5, <2>6 DEF KeepsUp, Sync!Committed
  <2> QED BY <1>1, <1>2, <1>11, <2>4, <2>5, <2>7, ClientKeeps
<1> QED BY <1>12, <1>13

-----------------------------------------------------------------------------
LEMMA SyncBegins ==
    ASSUME Sync!Init
    PROVE  SyncInv
<1>1. Sync!Committed = {}
  BY DEF Sync!Init, Sync!Committed
<1>2. LogTyped
  BY DEF Sync!Init, LogTyped, Sync!NoPage
<1>3. IdsFit
  BY <1>1 DEF Sync!Init, IdsFit, WriteDone, Sync!Idle
<1>4. WritesFit
  BY DEF Sync!Init, WritesFit, WriteOpen, Sync!Idle
<1>5. \A m \in LogMessages : Replays(m)
  BY <1>1 DEF Sync!Init, Replays
<1>6. \A c \in LogClients : KeepsUp(c)
  BY <1>1 DEF Sync!Init, KeepsUp
<1> QED BY <1>2, <1>3, <1>4, <1>5, <1>6 DEF SyncInv

LEMMA NothingKeepsLog ==
    ASSUME SyncInv, UNCHANGED Sync!vars
    PROVE  SyncInv'
<1>1. UNCHANGED <<nextId, log, row, writing, relay, bus, out, lost>>
          /\ UNCHANGED Sync!clientVars
  BY DEF Sync!vars, Sync!clientVars
<1>2. LogTyped'
  BY <1>1 DEF SyncInv, LogTyped, Sync!clientVars
<1>3. IdsFit' /\ WritesFit' /\ \A m \in LogMessages : Replays(m)'
  BY <1>1, LogUntouched DEF SyncInv, IdsFit
<1>4. ASSUME NEW c \in LogClients PROVE KeepsUp(c)'
  <2>1. KeepsUp(c) /\ Held(c)' = Held(c)
    BY <1>1 DEF SyncInv, Held, Sync!UnderWay, Sync!clientVars
  <2> QED BY <1>1, <2>1, FollowsOn DEF Sync!clientVars, Sync!Committed
<1> QED BY <1>2, <1>3, <1>4 DEF SyncInv

LEMMA WriteKeepsLog ==
    ASSUME SyncInv, Sync!Write
    PROVE  SyncInv'
<1>1. ASSUME NEW k \in AnyCalls, NEW m \in LogMessages,
             NEW by \in LogClients \union {Sync!NoMsg},
             Sync!SendMessage(k, m, by)
      PROVE  SyncInv'
  <2>1. Sync!Open(k, "created", m, "bus", by) /\ Sync!RowFree(m) /\ "created" \in Sync!Kinds
    BY <1>1 DEF Sync!SendMessage, Sync!Kinds
  <2> QED BY <2>1, OpenKeepsLog
<1>2. ASSUME NEW k \in AnyCalls, NEW m \in LogMessages,
             NEW by \in LogClients \union {Sync!NoMsg},
             NEW kind \in {"updated", "deleted"}, Sync!ChangeMessage(k, m, kind, by)
      PROVE  SyncInv'
  <2>1. Sync!Open(k, kind, m, "bus", by) /\ Sync!RowFree(m) /\ kind \in Sync!Kinds
    BY <1>2 DEF Sync!ChangeMessage, Sync!Kinds
  <2> QED BY <2>1, OpenKeepsLog
<1>3. ASSUME NEW k \in AnyCalls, NEW m \in LogMessages, Sync!SystemMessage(k, m)
      PROVE  SyncInv'
  <2>1. Sync!Open(k, "created", m, "outbox", Sync!NoMsg) /\ Sync!RowFree(m)
            /\ "created" \in Sync!Kinds
    BY <1>3 DEF Sync!SystemMessage, Sync!Kinds
  <2> QED BY <2>1, OpenKeepsLog
<1>4. ASSUME NEW k \in AnyCalls, Sync!MarkRead(k)
      PROVE  SyncInv'
  <2>1. Sync!Open(k, "read", Sync!NoMsg, "bus", Sync!NoMsg)
            /\ Sync!NoMsg \notin LogMessages /\ "read" \in Sync!Kinds
    BY LogKnown, <1>4 DEF Sync!MarkRead, Sync!Kinds
  <2> QED BY <2>1, OpenKeepsLog
<1>5. ASSUME NEW k \in AnyCalls,
             \/ Sync!Commit(k) \/ Sync!Abort(k)
             \/ Sync!Acknowledge(k) \/ Sync!Publish(k) \/ Sync!CrashBeforePublish(k)
      PROVE  SyncInv'
  BY <1>5, CommitKeepsLog, AbortKeepsLog, AcknowledgeKeeps, PublishKeeps, CrashKeeps
<1> QED BY <1>1, <1>2, <1>3, <1>4, <1>5 DEF Sync!Write

LEMMA SyncStepKeeps ==
    ASSUME SyncInv, [Sync!Next]_Sync!vars
    PROVE  SyncInv'
<1>1. CASE UNCHANGED Sync!vars
  BY <1>1, NothingKeepsLog
<1>2. CASE Sync!Write
  BY <1>2, WriteKeepsLog
<1>3. CASE Sync!PublishRelayed
  BY <1>3, RelayKeeps
<1>4. CASE Sync!Follow
  <2>1. PICK c \in LogClients :
            \/ Sync!RepeatSend(c) \/ Sync!Arrive(c) \/ Sync!Deliver(c) \/ Sync!Drop(c)
            \/ Sync!StartLoad(c) \/ Sync!LoadMessages(c) \/ Sync!LoadLastEvent(c)
                  \/ Sync!EndLoad(c)
            \/ Sync!Subscribe(c) \/ Sync!Sync(c) \/ Sync!Break(c)
    BY <1>4 DEF Sync!Follow
  <2> QED BY <2>1, RepeatSendKeeps, ArriveKeeps, DeliverKeeps, DropKeepsLog, LoadKeepsLog,
             EndLoadKeeps, SubscribeKeeps, SyncKeeps, BreakKeeps
<1> QED BY <1>1, <1>2, <1>3, <1>4 DEF Sync!Next

LEMMA LogHoldsFollows ==
    ASSUME SyncInv
    PROVE  Sync!LogHolds
<1>1. Sync!LogReplays
  <2> SUFFICES ASSUME NEW m \in LogMessages
               PROVE  LET about == {i \in Sync!Committed : log[i].msg = m} IN
                      IF about = {} THEN row[m] = Sync!Absent
                      ELSE row[m] = [by |-> Sync!Max(about),
                                     live |-> log[Sync!Max(about)].kind # "deleted"]
    BY DEF Sync!LogReplays
  <2> DEFINE about == {i \in Sync!Committed : log[i].msg = m}
  <2>1. Replays(m) /\ Sync!Committed \subseteq Nat
    BY DEF SyncInv, IdsFit
  <2>2. CASE \A i \in Sync!Committed : log[i].msg # m
    <3>1. row[m] = Sync!Absent
      BY <2>1, <2>2 DEF Replays
    <3>2. about = {}
      BY <2>2
    <3> QED BY <3>1, <3>2
  <2>3. CASE \E b \in Sync!Committed : log[b].msg = m
    <3>1. PICK b \in Sync!Committed :
              /\ log[b].msg = m
              /\ \A i \in Sync!Committed : log[i].msg = m => i <= b
              /\ row[m] = [by |-> b, live |-> log[b].kind # "deleted"]
      BY <2>1, <2>3 DEF Replays
    <3>2. about \in SUBSET Int
      <4>1. about \subseteq Sync!Committed
        OBVIOUS
      <4> HIDE DEF about
      <4> QED BY <2>1, <4>1
    <3>3. b \in about /\ \A i \in about : i <= b
      BY <3>1
    <3>4. Sync!Max(about) = b
      <4> HIDE DEF about
      <4> QED BY <3>2, <3>3, GreatestIsMax
    <3> HIDE DEF about
    <3>5. about # {}
      BY <3>3
    <3> QED BY <3>1, <3>4, <3>5 DEF about
  <2> QED BY <2>2, <2>3
<1>2. Sync!NothingSkipped
  BY DEF SyncInv, KeepsUp, Held, Sync!NothingSkipped
<1> QED BY <1>1, <1>2 DEF Sync!LogHolds

LEMMA SyncSteps ==
    ASSUME focus = "sync", [Next]_<<focus, everything>>
    PROVE  [Sync!Next]_Sync!vars
<1>1. CASE UNCHANGED <<focus, everything>>
  BY <1>1 DEF everything, Sync!vars
<1>2. CASE Next
  BY <1>2 DEF Next
<1> QED BY <1>1, <1>2

LEMMA SyncKept == Spec => [](focus = "sync" => SyncInv)
<1>1. Init => (focus = "sync" => SyncInv)
  BY SyncBegins DEF Init
<1>2. (focus = "sync" => SyncInv) /\ [Next]_<<focus, everything>>
        => (focus = "sync" => SyncInv)'
  <2> SUFFICES ASSUME focus = "sync" => SyncInv, [Next]_<<focus, everything>>,
                      focus' = "sync"
               PROVE  SyncInv'
    OBVIOUS
  <2>1. focus = "sync" /\ SyncInv
    BY DEF Next
  <2>2. [Sync!Next]_Sync!vars
    BY <2>1, SyncSteps
  <2> QED BY <2>1, <2>2, SyncStepKeeps
<1> QED BY <1>1, <1>2, PTL DEF Spec

(* The events of a message, replayed in the order of their ids, end as it    *)
(* is stored; a live client shows every committed event that is not on its   *)
(* way or among those the protocol may withhold.                             *)
THEOREM LogIsRight == Spec => []LogHolds
<1>1. (focus = "sync" => SyncInv) => LogHolds
  BY LogHoldsFollows DEF LogHolds
<1> QED BY <1>1, SyncKept, PTL
=============================================================================
