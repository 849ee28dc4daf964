-------------------------- MODULE ChatUnreadProofs --------------------------
(* The unread counters for any members, pages, tasks and bounds.             *)
EXTENDS ChatUnread, FiniteSetTheorems, TLAPS

(* What the constants are: member ids are positive numbers, pages hold       *)
(* somebody, and the clock starts within its bound.                          *)
ConstantsFit ==
    /\ Members \subseteq Nat \ {0} /\ IsFiniteSet(Members)
    /\ SendKinds \subseteq Kinds
    /\ PageSize \in Nat \ {0}
    /\ MaxClock \in Nat \ {0}
    /\ MaxMessages \in Nat /\ MaxReads \in Nat /\ MaxAbandons \in Nat

-----------------------------------------------------------------------------
(* Tables are finite, a message is known by its id, and a row is in one      *)
(* task at most.                                                             *)
TablesFit ==
    /\ IsFiniteSet(sends) /\ IsFiniteSet(ever) /\ IsFiniteSet(rows)
    /\ sends \cap ever = {}
    /\ \A a, b \in ever \cup sends : a.id = b.id => a = b
    /\ \A a \in ever \cup sends : a.id <= Cardinality(ever) + Cardinality(sends)
    /\ \A r \in rows : r.msg \in ever
    /\ \A m \in Members : counted[m] \subseteq Ids(ever)

TasksFit ==
    /\ \A t \in tasks : t.rows # {} /\ (t.kind # "batch" => \E r \in t.rows : t.rows = {r})
    /\ \A t, s \in tasks : t # s => t.rows \cap s.rows = {}
    /\ \A t \in tasks : t.seen \subseteq Ids(ever)

(* The newer visible messages some update has counted for a member.          *)
CountedFor(m) == {msg \in Unread(m) : msg.id \in counted[m]}

(* A deleted message is one the member has read or cannot see, else the      *)
(* counter is known to be disturbed.                                         *)
GoneIsKnown == \A m \in Members :
    "gone" \notin drift[m] => \A msg \in ever \ messages : ~CountsFor(msg, m)

(* The two halves of Accounted, each with the causes that can break it.      *)
AtMost == \A m \in Members :
    drift[m] \cap {"gone", "twice", "stale"} = {}
        => unread[m] <= Cardinality(CountedFor(m))

AtLeast == \A m \in Members :
    drift[m] \cap {"merged", "late", "stale"} = {}
        => unread[m] >= Cardinality(CountedFor(m))

(* The numbers of a group are those it would compute now, and those of a     *)
(* recount the messages it has seen, or the counter is known to be stale.    *)
GroupIsFresh(t, m) ==
    t.kind = "batch" /\ t.stage = "computed" => t.counts[m] = Increments(t, m)

SeenFor(t, m) == {msg \in Unread(m) : msg.id \in t.seen}

RecountIsFresh(t, m) ==
    t.kind = "recount" /\ t.stage = "computed" =>
        /\ CountedFor(m) \subseteq SeenFor(t, m)
        /\ t.counts[m] >= Cardinality(SeenFor(t, m))
        /\ "gone" \notin drift[m] => t.counts[m] <= Cardinality(SeenFor(t, m))
        /\ t.counts[m] > 0 => \E msg \in ever : CountsFor(msg, m)

NumbersAreFresh == \A t \in tasks : \A m \in t.page :
    "stale" \notin drift[m] => GroupIsFresh(t, m) /\ RecountIsFresh(t, m)

(* What a task has written is counted, and a recount has seen its own row's  *)
(* message.                                                                  *)
WrittenIsCounted == \A t \in tasks :
    /\ t.stage = "written" => \A m \in t.page : Counts(t) \subseteq counted[m]
    /\ t.kind = "recount" /\ t.stage # "taken" =>
         \A r \in t.rows : r.msg \in messages => r.msg.id \in t.seen

(* A stored message waits for a member in a row that no task is about to     *)
(* finish without him.                                                       *)
Waits(msg, m) == \E r \in rows :
    r.msg = msg /\ r.after < m /\ \A t \in tasks : r \in t.rows => m \in t.page

NobodyIsSkipped == \A msg \in messages : \A m \in Members :
    Reaches(msg, m) => msg.id \in counted[m] \/ Waits(msg, m)

CountersFit == GoneIsKnown /\ AtMost /\ AtLeast /\ NoPhantom

IInv ==
    /\ TypeOK /\ TablesFit /\ TasksFit
    /\ CountersFit
    /\ NumbersAreFresh
    /\ WrittenIsCounted
    /\ NobodyIsSkipped

-----------------------------------------------------------------------------
(* Finite sets of numbers, pages, and the numbers of rows.                   *)

LEMMA MaxIsGreatest ==
    ASSUME NEW S \in SUBSET Nat, IsFiniteSet(S), S # {}
    PROVE  Max(S) \in S /\ \A y \in S : y <= Max(S)
<1> DEFINE above(m) == {k \in S : k > m}
           T == {above(m) : m \in S}
<1>1. T \subseteq FiniteSubsetsOf(S)
  BY FS_Subset DEF FiniteSubsetsOf
<1>2. T # {}
  OBVIOUS
<1>3. IsWellFoundedOn(StrictSubsetOrdering(S), FiniteSubsetsOf(S))
  BY FS_StrictSubsetOrderingWellFounded
<1>4. \E x \in T : \A y \in T : <<y, x>> \notin StrictSubsetOrdering(S)
  <2> HIDE DEF T
  <2> QED BY <1>1, <1>2, <1>3, WFMin
<1>5. PICK m \in S : \A n \in S : <<above(n), above(m)>> \notin StrictSubsetOrdering(S)
  BY <1>4
<1>6. \A n \in S : n <= m
  <2> SUFFICES ASSUME NEW n \in S, ~(n <= m) PROVE FALSE
    OBVIOUS
  <2>1. n > m /\ m \in Nat /\ n \in Nat
    OBVIOUS
  <2>2. above(n) \subseteq above(m)
    <3>1. \A k \in S : k \in Nat /\ (k > n => k > m)
      BY <2>1
    <3> QED BY <3>1
  <2>3. n \in above(m) /\ n \notin above(n)
    BY <2>1
  <2>4. above(n) \in SUBSET S /\ above(m) \in SUBSET S
    OBVIOUS
  <2> HIDE DEF above
  <2>5. <<above(n), above(m)>> \in StrictSubsetOrdering(S)
    BY <2>2, <2>3, <2>4 DEF StrictSubsetOrdering
  <2> QED BY <2>5, <1>5
<1>7. \E x \in S : \A y \in S : x >= y
  BY <1>6
<1> QED BY <1>7 DEF Max

LEMMA SomethingIsLeast ==
    ASSUME NEW S \in SUBSET Nat, IsFiniteSet(S), S # {}
    PROVE  \E x \in S : \A y \in S : x <= y
<1> DEFINE below(m) == {k \in S : k < m}
           T == {below(m) : m \in S}
<1>1. T \subseteq FiniteSubsetsOf(S)
  BY FS_Subset DEF FiniteSubsetsOf
<1>2. T # {}
  OBVIOUS
<1>3. IsWellFoundedOn(StrictSubsetOrdering(S), FiniteSubsetsOf(S))
  BY FS_StrictSubsetOrderingWellFounded
<1>4. \E x \in T : \A y \in T : <<y, x>> \notin StrictSubsetOrdering(S)
  <2> HIDE DEF T
  <2> QED BY <1>1, <1>2, <1>3, WFMin
<1>5. PICK m \in S : \A n \in S : <<below(n), below(m)>> \notin StrictSubsetOrdering(S)
  BY <1>4
<1>6. \A n \in S : m <= n
  <2> SUFFICES ASSUME NEW n \in S, ~(m <= n) PROVE FALSE
    OBVIOUS
  <2>1. n < m /\ m \in Nat /\ n \in Nat
    OBVIOUS
  <2>2. below(n) \subseteq below(m)
    <3>1. \A k \in S : k \in Nat /\ (k < n => k < m)
      BY <2>1
    <3> QED BY <3>1
  <2>3. n \in below(m) /\ n \notin below(n)
    BY <2>1
  <2>4. below(n) \in SUBSET S /\ below(m) \in SUBSET S
    OBVIOUS
  <2> HIDE DEF below
  <2>5. <<below(n), below(m)>> \in StrictSubsetOrdering(S)
    BY <2>2, <2>3, <2>4 DEF StrictSubsetOrdering
  <2> QED BY <2>5, <1>5
<1> QED BY <1>6

(* A page is what comes first behind its cursor: with more to come it is not *)
(* empty, and whoever it leaves out comes after its last member.             *)
LEMMA PageIsFirst ==
    ASSUME ConstantsFit, NEW row \in Rows, HasMore(row)
    PROVE  /\ Max(PageOf(row)) \in Members
           /\ \A m \in Members :
                m # row.msg.sender /\ m > row.after /\ m \notin PageOf(row)
                    => Max(PageOf(row)) < m
<1> DEFINE wanted == {m \in Members : m # row.msg.sender /\ m > row.after}
           upTo(m) == {k \in wanted : k > row.after /\ k <= m}
<1>1. /\ wanted \subseteq Members /\ wanted \subseteq Nat
      /\ IsFiniteSet(wanted)
      /\ PageSize \in Nat /\ PageSize > 0
      /\ row.after \in Nat
  <2>1. IsFiniteSet(Members) /\ Members \subseteq Nat \ {0} /\ PageSize \in Nat \ {0}
    BY DEF ConstantsFit
  <2>2. wanted \in SUBSET Members
    OBVIOUS
  <2>3. IsFiniteSet(wanted)
    <3> HIDE DEF wanted
    <3> QED BY <2>1, <2>2, FS_Subset
  <2>4. row.after \in Members \cup {0}
    BY DEF Rows
  <2>5. row.after \in Nat
    <3>1. Members \cup {0} \subseteq Nat
      BY <2>1
    <3> QED BY <3>1, <2>4
  <2>6. PageSize > 0
    BY <2>1
  <2> QED BY <2>1, <2>2, <2>3, <2>5, <2>6
<1>2. PageOf(row) = {m \in wanted : Cardinality(upTo(m)) <= PageSize}
  BY DEF PageOf, InPage
<1>3. PICK m0 \in wanted : m0 \notin PageOf(row)
  BY DEF HasMore
<1>4. \A m \in wanted : IsFiniteSet(upTo(m)) /\ Cardinality(upTo(m)) \in Nat
  <2> TAKE m \in wanted
  <2>1. upTo(m) \in SUBSET wanted
    OBVIOUS
  <2> HIDE DEF upTo, wanted
  <2> QED BY <2>1, <1>1, FS_Subset, FS_CardinalityType
<1>5. ASSUME NEW m \in wanted, NEW n \in wanted, m <= n
      PROVE  Cardinality(upTo(m)) <= Cardinality(upTo(n))
  <2>1. upTo(m) \in SUBSET upTo(n)
    BY <1>1, <1>5
  <2> HIDE DEF upTo, wanted
  <2> QED BY <2>1, <1>4, FS_Subset
<1>6. PageOf(row) # {}
  <2>1. PICK x \in wanted : \A y \in wanted : x <= y
    <3> HIDE DEF wanted
    <3> QED BY <1>1, <1>3, SomethingIsLeast
  <2>2. upTo(x) = {x}
    BY <2>1, <1>1
  <2>3. Cardinality(upTo(x)) = 1
    BY <2>2, FS_Singleton
  <2> QED BY <2>3, <1>1, <1>2
<1>7. PageOf(row) \in SUBSET wanted
  BY <1>2
<1>8. PageOf(row) \in SUBSET Nat /\ IsFiniteSet(PageOf(row))
  <2> HIDE DEF wanted
  <2> QED BY <1>1, <1>7, FS_Subset
<1>9. Max(PageOf(row)) \in PageOf(row)
  BY <1>6, <1>8, MaxIsGreatest
<1>10. ASSUME NEW m \in wanted, m \notin PageOf(row)
       PROVE  Max(PageOf(row)) < m
  <2> DEFINE x == Max(PageOf(row))
  <2>1. x \in wanted /\ Cardinality(upTo(x)) <= PageSize
    BY <1>9, <1>2
  <2>2. ~(Cardinality(upTo(m)) <= PageSize)
    BY <1>10, <1>2
  <2>3. ~(m <= x)
    <3> HIDE DEF upTo, wanted, x
    <3> QED BY <2>1, <2>2, <1>4, <1>5, <1>1, <1>10
  <2> QED BY <2>1, <2>3, <1>1
<1> QED BY <1>9, <1>10, <1>7, <1>1

(* There is always a number for one more row.                                *)
LEMMA RowIsFresh ==
    ASSUME IsFiniteSet(rows), NEW msg, NEW after
    PROVE  /\ NewRow(msg, after).no \in Nat
           /\ NewRow(msg, after).msg = msg
           /\ NewRow(msg, after).after = after
           /\ NewRow(msg, after) \notin rows
           /\ NewRow(msg, after) = [no |-> NewRow(msg, after).no, msg |-> msg, after |-> after]
<1> DEFINE N == 1 .. Cardinality(rows) + 1
           f == [n \in N |-> CHOOSE r \in rows : r.no = n]
<1>1. Cardinality(rows) \in Nat
  BY FS_CardinalityType
<1>2. IsFiniteSet(N) /\ Cardinality(N) = Cardinality(rows) + 1
  <2>1. /\ IsFiniteSet(1 .. Cardinality(rows) + 1)
        /\ Cardinality(1 .. Cardinality(rows) + 1) =
             IF 1 > Cardinality(rows) + 1 THEN 0 ELSE (Cardinality(rows) + 1) - 1 + 1
    BY <1>1, FS_Interval
  <2> QED BY <2>1, <1>1
<1>3. \E n \in N : \A r \in rows : r.no # n
  <2> SUFFICES ASSUME \A n \in N : \E r \in rows : r.no = n PROVE FALSE
    OBVIOUS
  <2>1. \A n \in N : f[n] \in rows /\ f[n].no = n
    OBVIOUS
  <2>2. f \in [N -> rows]
    BY <2>1
  <2> HIDE DEF f, N
  <2>3. \E x, y \in N : x # y /\ f[x] = f[y]
    <3>1. Cardinality(rows) < Cardinality(N)
      BY <1>1, <1>2
    <3> QED BY <3>1, <2>2, <1>2, FS_PigeonHole
  <2> QED BY <2>1, <2>3
<1>4. NewRow(msg, after).no \in N /\ \A r \in rows : r.no # NewRow(msg, after).no
  BY <1>3 DEF NewRow
<1> QED BY <1>1, <1>4 DEF NewRow

-----------------------------------------------------------------------------
(* What a step leaves alone keeps what is said about it.                     *)

LEMMA CountersKept ==
    ASSUME CountersFit, UNCHANGED <<messages, ever, lastReadAt, unread, counted, drift>>
    PROVE  CountersFit'
<1>1. \A m : CountedFor(m)' = CountedFor(m)
  BY DEF CountedFor, Unread, CountsFor, Newer, Reaches
<1>2. \A msg, m : CountsFor(msg, m)' = CountsFor(msg, m)
  BY DEF CountsFor, Newer, Reaches
<1> QED BY <1>1, <1>2 DEF CountersFit, GoneIsKnown, AtMost, AtLeast, NoPhantom

LEMMA NumbersKept ==
    ASSUME NumbersAreFresh, UNCHANGED <<messages, ever, lastReadAt, counted, drift>>,
           \A t \in tasks' : t \in tasks \/ t.stage # "computed"
    PROVE  NumbersAreFresh'
<1>1. \A t, m : /\ CountedFor(m)' = CountedFor(m)
                /\ SeenFor(t, m)' = SeenFor(t, m)
                /\ Increments(t, m)' = Increments(t, m)
  BY DEF CountedFor, SeenFor, Increments, Unread, CountsFor, Newer, Reaches
<1>2. \A msg, m : CountsFor(msg, m)' = CountsFor(msg, m)
  BY DEF CountsFor, Newer, Reaches
<1>3. \A t, m : /\ GroupIsFresh(t, m)' = GroupIsFresh(t, m)
                /\ RecountIsFresh(t, m)' = RecountIsFresh(t, m)
  BY <1>1, <1>2 DEF GroupIsFresh, RecountIsFresh
<1>4. ASSUME NEW t \in tasks', NEW m \in t.page, "stale" \notin drift'[m]
      PROVE  (GroupIsFresh(t, m) /\ RecountIsFresh(t, m))'
  <2>1. CASE t \in tasks
    BY <2>1, <1>3, <1>4 DEF NumbersAreFresh
  <2>2. CASE t.stage # "computed"
    BY <2>2 DEF GroupIsFresh, RecountIsFresh
  <2> QED BY <2>1, <2>2
<1> QED BY <1>4 DEF NumbersAreFresh

LEMMA SkipsKept ==
    ASSUME NobodyIsSkipped, messages' \subseteq messages, rows \subseteq rows',
           \A m \in Members : counted[m] \subseteq counted'[m],
           \A t \in tasks' : \E o \in tasks : o.rows = t.rows /\ o.page = t.page
    PROVE  NobodyIsSkipped'
<1> SUFFICES ASSUME NEW msg \in messages', NEW m \in Members, Reaches(msg, m)
             PROVE  msg.id \in counted'[m] \/ Waits(msg, m)'
  BY DEF NobodyIsSkipped, Reaches
<1>1. msg.id \in counted[m] \/ Waits(msg, m)
  BY DEF NobodyIsSkipped
<1>2. CASE Waits(msg, m)
  <2>1. PICK r \in rows : r.msg = msg /\ r.after < m /\ \A t \in tasks : r \in t.rows => m \in t.page
    BY <1>2 DEF Waits
  <2>2. \A t \in tasks' : r \in t.rows => m \in t.page
    BY <2>1
  <2> QED BY <2>1, <2>2 DEF Waits
<1> QED BY <1>1, <1>2

LEMMA WrittenKept ==
    ASSUME WrittenIsCounted, messages' \subseteq messages, tasks' \subseteq tasks,
           \A m \in Members : counted[m] \subseteq counted'[m],
           \A t \in tasks : t.page \subseteq Members
    PROVE  WrittenIsCounted'
BY DEF WrittenIsCounted, Counts

-----------------------------------------------------------------------------
(* Senders.                                                                  *)

LEMMA BeginSendKeeps ==
    ASSUME ConstantsFit, IInv, NEW u \in Members, NEW kind \in SendKinds, BeginSend(u, kind)
    PROVE  IInv'
<1> DEFINE id == Cardinality(ever) + Cardinality(sends) + 1
           msg == [id |-> id, sender |-> u, at |-> clock, kind |-> kind]
<1>1. /\ id <= MaxMessages
      /\ sends' = sends \cup {msg}
      /\ UNCHANGED <<clock, messages, lastReadAt, unread, reads, rows, tasks,
                     ever, counted, drift, readsBegun, abandons>>
  BY DEF BeginSend, history
<1>2. /\ IsFiniteSet(sends) /\ IsFiniteSet(ever)
      /\ Cardinality(sends) \in Nat /\ Cardinality(ever) \in Nat
  BY FS_CardinalityType DEF IInv, TablesFit
<1>3. id \in MessageIds
  BY <1>1, <1>2 DEF ConstantsFit, MessageIds
<1>4. clock \in Times
  BY DEF IInv, TypeOK, Times, ConstantsFit
<1>5. msg \in Messages
  BY <1>3, <1>4 DEF Messages
<1>6. TypeOK'
  <2> HIDE DEF msg
  <2> QED BY <1>1, <1>5 DEF IInv, TypeOK
<1>7. TablesFit'
  <2>1. \A a \in ever \cup sends : a.id \in Nat /\ a.id < id
    BY <1>2 DEF IInv, TablesFit, TypeOK, Messages, MessageIds
  <2>2. msg.id = id
    OBVIOUS
  <2>3. msg \notin ever \cup sends
    BY <2>1, <2>2
  <2> HIDE DEF msg
  <2>4. IsFiniteSet(sends') /\ Cardinality(sends') = Cardinality(sends) + 1
    BY <1>1, <1>2, <2>3, FS_AddElement
  <2>5. \A a, b \in (ever \cup sends)' : a.id = b.id => a = b
    <3> HIDE DEF id
    <3>1. id \in Nat
      BY <1>3 DEF MessageIds
    <3> QED BY <1>1, <2>1, <2>2, <3>1 DEF IInv, TablesFit
  <2>6. \A a \in (ever \cup sends)' : a.id <= Cardinality(ever') + Cardinality(sends')
    BY <1>1, <1>2, <2>1, <2>2, <2>4
  <2>7. (\A m \in Members : counted[m] \subseteq Ids(ever))'
    BY <1>1 DEF IInv, TablesFit, Ids
  <2>8. /\ IsFiniteSet(ever') /\ IsFiniteSet(rows') /\ sends' \cap ever' = {}
        /\ \A r \in rows' : r.msg \in ever'
    BY <1>1, <2>3 DEF IInv, TablesFit
  <2> QED BY <2>4, <2>5, <2>6, <2>7, <2>8 DEF TablesFit
<1>8. TasksFit'
  BY <1>1 DEF IInv, TasksFit, Ids
<1>9. CountersFit' /\ NumbersAreFresh'
  BY <1>1, CountersKept, NumbersKept DEF IInv
<1>10. WrittenIsCounted' /\ NobodyIsSkipped'
  <2>1. \A t \in tasks : t.page \subseteq Members
    BY DEF IInv, TypeOK, Tasks
  <2> QED BY <1>1, <2>1, WrittenKept, SkipsKept DEF IInv
<1> QED BY <1>6, <1>7, <1>8, <1>9, <1>10 DEF IInv

(* Nothing has counted or seen a message before it is stored.                *)
LEMMA UnsentIsNew ==
    ASSUME IInv, NEW msg \in sends
    PROVE  /\ msg \in Messages
           /\ msg \notin ever /\ msg \notin messages
           /\ \A a \in ever : a.id # msg.id
           /\ \A m \in Members : msg.id \notin counted[m]
           /\ \A t \in tasks : msg.id \notin t.seen
<1>1. \A a, b \in ever \cup sends : a.id = b.id => a = b
  BY DEF IInv, TablesFit
<1>2. sends \cap ever = {} /\ messages \subseteq ever /\ sends \subseteq Messages
  BY DEF IInv, TablesFit, TypeOK
<1>3. \A a \in ever : a.id # msg.id
  BY <1>1, <1>2
<1>4. msg.id \notin Ids(ever)
  BY <1>3 DEF Ids
<1>5. \A m \in Members : counted[m] \subseteq Ids(ever)
  BY DEF IInv, TablesFit
<1>6. \A t \in tasks : t.seen \subseteq Ids(ever)
  BY DEF IInv, TasksFit
<1> QED BY <1>2, <1>3, <1>4, <1>5, <1>6

LEMMA CountedIsFinite ==
    ASSUME IInv, NEW m
    PROVE  IsFiniteSet(CountedFor(m)) /\ Cardinality(CountedFor(m)) \in Nat
<1>1. CountedFor(m) \in SUBSET ever
  BY DEF CountedFor, Unread, IInv, TypeOK
<1>2. IsFiniteSet(ever)
  BY DEF IInv, TablesFit
<1> QED BY <1>1, <1>2, FS_Subset, FS_CardinalityType

(* What a message that is stored adds to what was counted for a member.      *)
LEMMA CommitSendCounts ==
    ASSUME ConstantsFit, IInv, NEW msg \in sends, CommitSend(msg), NEW m \in Members
    PROVE  /\ drift[m] \subseteq drift'[m]
           /\ drift'[m] \subseteq drift[m] \cup {"stale"}
           /\ counted[m] \subseteq counted'[m]
           /\ counted'[m] \subseteq counted[m] \cup {msg.id}
           /\ msg.kind = "inline" /\ CountsFor(msg, m) =>
                /\ CountedFor(m)' = CountedFor(m) \cup {msg}
                /\ unread'[m] = unread[m] + 1
                /\ Recounting(m) => "stale" \in drift'[m]
           /\ ~(msg.kind = "inline" /\ CountsFor(msg, m)) =>
                CountedFor(m)' = CountedFor(m) /\ unread'[m] = unread[m]
           /\ msg.kind = "inline" /\ Reaches(msg, m) => msg.id \in counted'[m]
<1>1. /\ lastReadAt' = lastReadAt
      /\ messages' = messages \cup {msg}
  BY DEF CommitSend
<1>2. \A a : CountsFor(a, m)' = CountsFor(a, m)
  BY <1>1 DEF CountsFor, Newer, Reaches
<1>3. /\ msg \notin messages /\ messages \subseteq ever
      /\ \A a \in ever : a.id # msg.id
      /\ msg.id \notin counted[m]
  BY UnsentIsNew DEF IInv, TypeOK
<1>4. /\ unread \in [Members -> Nat]
      /\ counted \in [Members -> SUBSET MessageIds]
      /\ drift \in [Members -> SUBSET Causes]
  BY DEF IInv, TypeOK
<1>5. CASE msg.kind = "inline" /\ CountsFor(msg, m)
  <2>1. m \in Members \ {msg.sender}
    BY <1>5 DEF CountsFor, Reaches
  <2>2. unread'[m] = unread[m] + 1 /\ counted'[m] = counted[m] \cup {msg.id}
    BY <1>4, <1>5, <2>1 DEF CommitSend, Count
  <2>3. drift'[m] = drift[m] \cup (IF Recounting(m) THEN {"stale"} ELSE {})
    BY <1>4, <1>5, <2>1 DEF CommitSend, Disturb
  <2>4. CountedFor(m)' = CountedFor(m) \cup {msg}
    BY <1>1, <1>2, <1>3, <1>5, <2>2 DEF CountedFor, Unread
  <2> QED BY <1>5, <2>2, <2>3, <2>4
<1>6. CASE msg.kind = "inline" /\ ~CountsFor(msg, m)
  <2>1. unread'[m] = unread[m]
    BY <1>4, <1>6 DEF CommitSend
  <2>2. counted'[m] = counted[m] \cup (IF m # msg.sender THEN {msg.id} ELSE {})
    BY <1>4, <1>6 DEF CommitSend, Count
  <2>3. drift'[m] = drift[m]
    BY <1>4, <1>6 DEF CommitSend, Disturb
  <2>4. CountedFor(m)' = CountedFor(m)
    BY <1>1, <1>2, <1>3, <1>6, <2>2 DEF CountedFor, Unread
  <2> QED BY <1>6, <2>1, <2>2, <2>3, <2>4 DEF Reaches
<1>7. CASE msg.kind # "inline"
  <2>1. UNCHANGED <<unread, counted, drift>>
    BY <1>7 DEF CommitSend
  <2>2. CountedFor(m)' = CountedFor(m)
    BY <1>1, <1>2, <1>3, <2>1 DEF CountedFor, Unread
  <2> QED BY <1>7, <2>1, <2>2
<1> QED BY <1>5, <1>6, <1>7

LEMMA CommitSendFits ==
    ASSUME ConstantsFit, IInv, NEW msg \in sends, CommitSend(msg)
    PROVE  TypeOK' /\ TablesFit' /\ TasksFit' /\ WrittenIsCounted' /\ NobodyIsSkipped'
<1> DEFINE row == NewRow(msg, 0)
<1>1. /\ sends' = sends \ {msg}
      /\ messages' = messages \cup {msg}
      /\ ever' = ever \cup {msg}
      /\ rows' = rows \/ rows' = rows \cup {row}
      /\ msg.kind # "inline" => rows' = rows \cup {row}
      /\ UNCHANGED <<clock, lastReadAt, reads, tasks, readsBegun, abandons>>
  BY DEF CommitSend
<1>2. /\ row.no \in Nat /\ row.msg = msg /\ row.after = 0
      /\ row \notin rows
      /\ row = [no |-> row.no, msg |-> msg, after |-> 0]
  BY RowIsFresh DEF IInv, TablesFit
<1>3. /\ msg \in Messages /\ msg \notin ever
      /\ \A a \in ever : a.id # msg.id
  BY UnsentIsNew
<1>4. row \in Rows
  <2> HIDE DEF row
  <2> QED BY <1>2, <1>3 DEF Rows
<1>5. TypeOK'
  <2>1. unread' \in [Members -> Nat]
    BY DEF CommitSend, IInv, TypeOK
  <2>2. counted' \in [Members -> SUBSET MessageIds]
    <3>1. msg.id \in MessageIds
      BY <1>3 DEF Messages
    <3> QED BY <3>1 DEF CommitSend, Count, IInv, TypeOK
  <2>3. drift' \in [Members -> SUBSET Causes]
    BY DEF CommitSend, Disturb, Causes, IInv, TypeOK
  <2> HIDE DEF row
  <2>4. rows' \subseteq Rows /\ rows \subseteq rows'
    BY <1>1, <1>4 DEF IInv, TypeOK
  <2>5. sends' \subseteq Messages /\ ever' \subseteq Messages /\ messages' \subseteq ever'
    BY <1>1, <1>3 DEF IInv, TypeOK
  <2> QED BY <1>1, <2>1, <2>2, <2>3, <2>4, <2>5 DEF IInv, TypeOK
<1> HIDE DEF row
<1>6. TablesFit'
  <2>1. IsFiniteSet(sends) /\ IsFiniteSet(ever) /\ IsFiniteSet(rows)
    BY DEF IInv, TablesFit
  <2>2. /\ IsFiniteSet(sends') /\ Cardinality(sends') = Cardinality(sends) - 1
        /\ IsFiniteSet(ever') /\ Cardinality(ever') = Cardinality(ever) + 1
        /\ IsFiniteSet(rows')
    BY <1>1, <1>3, <2>1, FS_AddElement, FS_RemoveElement
  <2>3. (ever \cup sends)' = ever \cup sends /\ (sends \cap ever)' = {}
    BY <1>1 DEF IInv, TablesFit
  <2>4. Cardinality(ever') + Cardinality(sends') = Cardinality(ever) + Cardinality(sends)
    <3>1. Cardinality(sends) \in Nat /\ Cardinality(ever) \in Nat
      BY <2>1, FS_CardinalityType
    <3> QED BY <2>2, <3>1
  <2>5. \A m \in Members : counted'[m] \subseteq Ids(ever')
    <3>1. \A m \in Members : counted'[m] \subseteq counted[m] \cup {msg.id}
      BY CommitSendCounts
    <3>2. \A m \in Members : counted[m] \subseteq Ids(ever)
      BY DEF IInv, TablesFit
    <3>3. Ids(ever) \cup {msg.id} \subseteq Ids(ever')
      BY <1>1 DEF Ids
    <3> QED BY <3>1, <3>2, <3>3
  <2>6. \A r \in rows' : r.msg \in ever'
    BY <1>1, <1>2 DEF IInv, TablesFit
  <2>7. /\ \A a, b \in (ever \cup sends)' : a.id = b.id => a = b
        /\ \A a \in (ever \cup sends)' : a.id <= Cardinality(ever') + Cardinality(sends')
    BY <2>3, <2>4 DEF IInv, TablesFit
  <2> QED BY <2>2, <2>3, <2>5, <2>6, <2>7 DEF TablesFit
<1>7. TasksFit'
  BY <1>1 DEF IInv, TasksFit, Ids
<1>8. WrittenIsCounted'
  <2>1. \A t \in tasks : \A r \in t.rows : r.msg \in messages' => r.msg \in messages
    BY <1>1, <1>3 DEF IInv, TypeOK, TablesFit
  <2>2. \A m \in Members : counted[m] \subseteq counted'[m]
    BY CommitSendCounts
  <2>3. \A t \in tasks : t.page \subseteq Members
    BY DEF IInv, TypeOK, Tasks
  <2>4. WrittenIsCounted
    BY DEF IInv
  <2> QED BY <1>1, <2>1, <2>2, <2>3, <2>4 DEF WrittenIsCounted, Counts
<1>9. NobodyIsSkipped'
  <2> SUFFICES ASSUME NEW a \in messages', NEW m \in Members, Reaches(a, m)
               PROVE  a.id \in counted'[m] \/ Waits(a, m)'
    BY DEF NobodyIsSkipped, Reaches
  <2>1. CASE a \in messages
    <3>1. a.id \in counted[m] \/ Waits(a, m)
      BY <2>1 DEF IInv, NobodyIsSkipped
    <3>2. counted[m] \subseteq counted'[m]
      BY CommitSendCounts
    <3>3. Waits(a, m) => Waits(a, m)'
      BY <1>1 DEF Waits
    <3> QED BY <3>1, <3>2, <3>3
  <2>2. CASE a = msg /\ msg.kind = "inline"
    BY <2>2, CommitSendCounts
  <2>3. CASE a = msg /\ msg.kind # "inline"
    <3>1. row \in rows' /\ row.msg = a /\ row.after < m
      <4>1. m \in Nat \ {0}
        BY DEF ConstantsFit
      <4> QED BY <1>1, <1>2, <2>3, <4>1
    <3>2. \A t \in tasks' : row \notin t.rows
      BY <1>1, <1>2 DEF IInv, TypeOK
    <3> QED BY <3>1, <3>2 DEF Waits
  <2> QED BY <1>1, <2>1, <2>2, <2>3
<1> QED BY <1>5, <1>6, <1>7, <1>8, <1>9

LEMMA CommitSendKeeps ==
    ASSUME ConstantsFit, IInv, NEW msg \in sends, CommitSend(msg)
    PROVE  IInv'
<1>1. /\ lastReadAt' = lastReadAt /\ tasks' = tasks
      /\ messages' = messages \cup {msg}
      /\ ever' = ever \cup {msg}
  BY DEF CommitSend
<1>2. \A a, m : CountsFor(a, m)' = CountsFor(a, m)
  BY <1>1 DEF CountsFor, Newer, Reaches
<1>3. CountersFit'
  <2> SUFFICES ASSUME NEW m \in Members
               PROVE  /\ "gone" \notin drift'[m] =>
                            \A a \in (ever \ messages)' : ~CountsFor(a, m)'
                      /\ drift'[m] \cap {"gone", "twice", "stale"} = {} =>
                            unread'[m] <= Cardinality(CountedFor(m)')
                      /\ drift'[m] \cap {"merged", "late", "stale"} = {} =>
                            unread'[m] >= Cardinality(CountedFor(m)')
                      /\ unread'[m] > 0 /\ "stale" \notin drift'[m] =>
                            \E a \in ever' : CountsFor(a, m)'
    BY DEF CountersFit, GoneIsKnown, AtMost, AtLeast, NoPhantom
  <2>1. drift[m] \subseteq drift'[m]
    BY CommitSendCounts
  <2>2. "gone" \notin drift'[m] => \A a \in (ever \ messages)' : ~CountsFor(a, m)'
    BY <1>1, <1>2, <2>1 DEF IInv, CountersFit, GoneIsKnown
  <2>3. unread[m] \in Nat /\ Cardinality(CountedFor(m)) \in Nat /\ IsFiniteSet(CountedFor(m))
    BY CountedIsFinite DEF IInv, TypeOK
  <2>4. \/ unread'[m] = unread[m] /\ CountedFor(m)' = CountedFor(m)
        \/ /\ unread'[m] = unread[m] + 1 /\ CountsFor(msg, m)
           /\ Cardinality(CountedFor(m)') = Cardinality(CountedFor(m)) + 1
    <3>1. CASE msg.kind = "inline" /\ CountsFor(msg, m)
      <4>1. CountedFor(m)' = CountedFor(m) \cup {msg} /\ unread'[m] = unread[m] + 1
        BY <3>1, CommitSendCounts
      <4>2. msg \notin CountedFor(m)
        BY UnsentIsNew DEF CountedFor, Unread
      <4> QED BY <3>1, <4>1, <4>2, <2>3, FS_AddElement
    <3>2. CASE ~(msg.kind = "inline" /\ CountsFor(msg, m))
      BY <3>2, CommitSendCounts
    <3> QED BY <3>1, <3>2
  <2>5. drift'[m] \cap {"gone", "twice", "stale"} = {} =>
            unread'[m] <= Cardinality(CountedFor(m)')
    BY <2>1, <2>3, <2>4 DEF IInv, CountersFit, AtMost
  <2>6. drift'[m] \cap {"merged", "late", "stale"} = {} =>
            unread'[m] >= Cardinality(CountedFor(m)')
    BY <2>1, <2>3, <2>4 DEF IInv, CountersFit, AtLeast
  <2>7. unread'[m] > 0 /\ "stale" \notin drift'[m] => \E a \in ever' : CountsFor(a, m)'
    BY <1>1, <1>2, <2>1, <2>4 DEF IInv, CountersFit, NoPhantom
  <2> QED BY <2>2, <2>5, <2>6, <2>7
<1>4. NumbersAreFresh'
  <2> SUFFICES ASSUME NEW t \in tasks, NEW m \in t.page, "stale" \notin drift'[m]
               PROVE  GroupIsFresh(t, m)' /\ RecountIsFresh(t, m)'
    BY <1>1 DEF NumbersAreFresh
  <2>0. m \in Members
    BY DEF IInv, TypeOK, Tasks
  <2>1. drift[m] \subseteq drift'[m] /\ ("gone" \in drift'[m] => "gone" \in drift[m])
    BY <2>0, CommitSendCounts
  <2>2. GroupIsFresh(t, m) /\ RecountIsFresh(t, m)
    BY <2>1 DEF IInv, NumbersAreFresh
  <2>3. Increments(t, m)' = Increments(t, m)
    BY <1>2 DEF Increments
  <2>4. SeenFor(t, m)' = SeenFor(t, m)
    BY <1>1, <1>2, UnsentIsNew DEF SeenFor, Unread
  <2>5. t.kind = "recount" /\ t.stage = "computed" => CountedFor(m)' = CountedFor(m)
    BY <2>0, CommitSendCounts DEF Recounting
  <2> QED BY <1>1, <1>2, <2>1, <2>2, <2>3, <2>4, <2>5 DEF GroupIsFresh, RecountIsFresh
<1> QED BY <1>3, <1>4, CommitSendFits DEF IInv

(* A message that is deleted is one less, or one the member does not count.  *)
LEMMA DeleteKeeps ==
    ASSUME ConstantsFit, IInv, NEW msg \in messages, Delete(msg)
    PROVE  IInv'
<1>1. /\ messages' = messages \ {msg}
      /\ drift' = [m \in Members |-> drift[m] \cup
                     (IF m \in {k \in Members : CountsFor(msg, k)} THEN {"gone"} ELSE {})]
      /\ UNCHANGED <<clock, sends, lastReadAt, unread, reads, rows, tasks,
                     ever, counted, readsBegun, abandons>>
  BY DEF Delete, Disturb
<1>2. \A a, m : CountsFor(a, m)' = CountsFor(a, m)
  BY <1>1 DEF CountsFor, Newer, Reaches
<1>3. \A m \in Members : /\ drift[m] \subseteq drift'[m]
                         /\ drift'[m] \subseteq drift[m] \cup {"gone"}
                         /\ CountsFor(msg, m) => "gone" \in drift'[m]
  BY <1>1
<1>4. \A m : CountedFor(m)' = CountedFor(m) \ {msg}
  BY <1>1, <1>2 DEF CountedFor, Unread
<1>5. \A m : /\ IsFiniteSet(CountedFor(m)')
             /\ Cardinality(CountedFor(m)') \in Nat /\ Cardinality(CountedFor(m)) \in Nat
             /\ Cardinality(CountedFor(m)') <= Cardinality(CountedFor(m))
  <2> TAKE m
  <2>1. CountedFor(m)' \in SUBSET CountedFor(m)
    BY <1>4
  <2> QED BY <2>1, CountedIsFinite, FS_Subset, FS_CardinalityType
<1>6. \A m : ~CountsFor(msg, m) => CountedFor(m)' = CountedFor(m)
  BY <1>4 DEF CountedFor, Unread
<1>7. TypeOK' /\ TablesFit' /\ TasksFit'
  <2>1. drift' \in [Members -> SUBSET Causes]
    BY <1>1 DEF Causes, IInv, TypeOK
  <2>2. TypeOK'
    BY <1>1, <2>1 DEF IInv, TypeOK
  <2>3. TablesFit' /\ TasksFit'
    BY <1>1 DEF IInv, TablesFit, TasksFit, Ids
  <2> QED BY <2>2, <2>3
<1>8. CountersFit'
  <2> SUFFICES ASSUME NEW m \in Members
               PROVE  /\ "gone" \notin drift'[m] =>
                            \A a \in (ever \ messages)' : ~CountsFor(a, m)'
                      /\ drift'[m] \cap {"gone", "twice", "stale"} = {} =>
                            unread'[m] <= Cardinality(CountedFor(m)')
                      /\ drift'[m] \cap {"merged", "late", "stale"} = {} =>
                            unread'[m] >= Cardinality(CountedFor(m)')
                      /\ unread'[m] > 0 /\ "stale" \notin drift'[m] =>
                            \E a \in ever' : CountsFor(a, m)'
    BY DEF CountersFit, GoneIsKnown, AtMost, AtLeast, NoPhantom
  <2>1. unread[m] \in Nat
    BY DEF IInv, TypeOK
  <2>2. "gone" \notin drift'[m] => \A a \in (ever \ messages)' : ~CountsFor(a, m)'
    BY <1>1, <1>2, <1>3 DEF IInv, CountersFit, GoneIsKnown
  <2>3. drift'[m] \cap {"gone", "twice", "stale"} = {} =>
            unread'[m] <= Cardinality(CountedFor(m)')
    BY <1>1, <1>3, <1>6 DEF IInv, CountersFit, AtMost
  <2>4. drift'[m] \cap {"merged", "late", "stale"} = {} =>
            unread'[m] >= Cardinality(CountedFor(m)')
    <3>1. drift'[m] \cap {"merged", "late", "stale"} = {} =>
            unread[m] >= Cardinality(CountedFor(m))
      BY <1>3 DEF IInv, CountersFit, AtLeast
    <3> QED BY <1>1, <1>5, <2>1, <3>1
  <2>5. unread'[m] > 0 /\ "stale" \notin drift'[m] => \E a \in ever' : CountsFor(a, m)'
    BY <1>1, <1>2, <1>3 DEF IInv, CountersFit, NoPhantom
  <2> QED BY <2>2, <2>3, <2>4, <2>5
<1>9. NumbersAreFresh'
  <2> SUFFICES ASSUME NEW t \in tasks, NEW m \in t.page, "stale" \notin drift'[m]
               PROVE  GroupIsFresh(t, m)' /\ RecountIsFresh(t, m)'
    BY <1>1 DEF NumbersAreFresh
  <2>0. m \in Members
    BY DEF IInv, TypeOK, Tasks
  <2>1. "stale" \notin drift[m] /\ ("gone" \notin drift'[m] => "gone" \notin drift[m])
    BY <2>0, <1>3
  <2>2. GroupIsFresh(t, m) /\ RecountIsFresh(t, m)
    BY <2>1 DEF IInv, NumbersAreFresh
  <2>3. Increments(t, m)' = Increments(t, m)
    BY <1>2 DEF Increments
  <2>4. SeenFor(t, m)' = SeenFor(t, m) \ {msg}
    BY <1>1, <1>2 DEF SeenFor, Unread
  <2>5. "gone" \notin drift'[m] => SeenFor(t, m)' = SeenFor(t, m)
    BY <2>0, <2>4, <1>3 DEF SeenFor, Unread
  <2>6. /\ Cardinality(SeenFor(t, m)') \in Nat /\ Cardinality(SeenFor(t, m)) \in Nat
        /\ Cardinality(SeenFor(t, m)') <= Cardinality(SeenFor(t, m))
    <3>1. SeenFor(t, m)' \in SUBSET SeenFor(t, m)
      BY <2>4
    <3>2. SeenFor(t, m) \in SUBSET ever /\ IsFiniteSet(ever)
      BY DEF SeenFor, Unread, IInv, TypeOK, TablesFit
    <3> QED BY <3>1, <3>2, FS_Subset, FS_CardinalityType
  <2>7. t.counts[m] \in Nat
    BY <2>0 DEF IInv, TypeOK, Tasks
  <2>8. CASE t.kind = "recount" /\ t.stage = "computed"
    <3>1. /\ CountedFor(m) \subseteq SeenFor(t, m)
          /\ t.counts[m] >= Cardinality(SeenFor(t, m))
          /\ "gone" \notin drift[m] => t.counts[m] <= Cardinality(SeenFor(t, m))
          /\ t.counts[m] > 0 => \E a \in ever : CountsFor(a, m)
      BY <2>2, <2>8 DEF RecountIsFresh
    <3>2. CountedFor(m)' \subseteq SeenFor(t, m)'
      BY <3>1, <2>4, <1>4
    <3>3. t.counts[m] >= Cardinality(SeenFor(t, m)')
      BY <3>1, <2>6, <2>7
    <3>4. "gone" \notin drift'[m] => t.counts[m] <= Cardinality(SeenFor(t, m)')
      BY <3>1, <2>5, <2>1
    <3>5. t.counts[m] > 0 => \E a \in ever' : CountsFor(a, m)'
      BY <3>1, <1>1, <1>2
    <3> QED BY <2>8, <3>2, <3>3, <3>4, <3>5 DEF RecountIsFresh, GroupIsFresh
  <2>9. CASE ~(t.kind = "recount" /\ t.stage = "computed")
    BY <2>9, <2>2, <2>3 DEF RecountIsFresh, GroupIsFresh
  <2> QED BY <2>8, <2>9
<1>10. WrittenIsCounted' /\ NobodyIsSkipped'
  <2>1. \A t \in tasks : t.page \subseteq Members
    BY DEF IInv, TypeOK, Tasks
  <2> QED BY <1>1, <2>1, WrittenKept, SkipsKept DEF IInv
<1> QED BY <1>7, <1>8, <1>9, <1>10 DEF IInv

-----------------------------------------------------------------------------
(* Readers.                                                                  *)

LEMMA BeginReadKeeps ==
    ASSUME ConstantsFit, IInv, NEW m \in Members, BeginRead(m)
    PROVE  IInv'
<1>1. /\ reads' = reads \cup {[member |-> m, at |-> clock]}
      /\ readsBegun < MaxReads /\ readsBegun' = readsBegun + 1
      /\ UNCHANGED <<clock, sends, messages, lastReadAt, unread, rows, tasks,
                     ever, counted, drift, abandons>>
  BY DEF BeginRead
<1>2. TypeOK'
  BY <1>1 DEF IInv, TypeOK, ConstantsFit
<1>3. TablesFit' /\ TasksFit'
  BY <1>1 DEF IInv, TablesFit, TasksFit, Ids
<1>4. CountersFit' /\ NumbersAreFresh'
  BY <1>1, CountersKept, NumbersKept DEF IInv
<1>5. WrittenIsCounted' /\ NobodyIsSkipped'
  <2>1. \A t \in tasks : t.page \subseteq Members
    BY DEF IInv, TypeOK, Tasks
  <2> QED BY <1>1, <2>1, WrittenKept, SkipsKept DEF IInv
<1> QED BY <1>2, <1>3, <1>4, <1>5 DEF IInv

(* A read clears the counter; what stays counted behind it is late, what was *)
(* deleted behind it gone, and what was computed before it stale.            *)
LEMMA ReadKeeps ==
    ASSUME ConstantsFit, IInv, NEW r \in reads, CommitRead(r)
    PROVE  IInv'
<1> DEFINE reader == r.member
           late == \E a \in messages : Reaches(a, reader) /\ r.at < a.at
                                       /\ a.id \in counted[reader]
           gone == \E a \in ever \ messages : Reaches(a, reader) /\ r.at < a.at
<1>0. reader \in Members /\ r.at \in 1 .. clock
  BY DEF IInv, TypeOK
<1>1. /\ reads' = reads \ {r}
      /\ lastReadAt' = [lastReadAt EXCEPT ![reader] = r.at]
      /\ unread' = [unread EXCEPT ![reader] = 0]
      /\ UNCHANGED <<clock, sends, messages, rows, tasks, ever, counted, readsBegun, abandons>>
  BY DEF CommitRead
<1>2. drift' = [drift EXCEPT ![reader] = (IF late THEN {"late"} ELSE {})
                   \cup (IF gone THEN {"gone"} ELSE {})
                   \cup (IF Computing(reader) THEN {"stale"} ELSE {})]
  BY DEF CommitRead
<1>3. /\ lastReadAt \in [Members -> 0 .. clock] /\ unread \in [Members -> Nat]
      /\ drift \in [Members -> SUBSET Causes] /\ clock \in Nat
  BY DEF IInv, TypeOK, ConstantsFit
<1>4. /\ \A a : CountsFor(a, reader)' = (Reaches(a, reader) /\ r.at < a.at)
      /\ \A m \in Members \ {reader} : \A a : CountsFor(a, m)' = CountsFor(a, m)
  BY <1>0, <1>1, <1>3 DEF CountsFor, Newer, Reaches
<1>5. /\ late <=> "late" \in drift'[reader]
      /\ gone <=> "gone" \in drift'[reader]
      /\ Computing(reader) <=> "stale" \in drift'[reader]
      /\ unread'[reader] = 0
      /\ \A m \in Members \ {reader} : unread'[m] = unread[m] /\ drift'[m] = drift[m]
  <2> HIDE DEF late, gone
  <2> QED BY <1>0, <1>1, <1>2, <1>3
<1>6. TypeOK'
  <2>1. drift' \in [Members -> SUBSET Causes]
    <3> HIDE DEF late, gone
    <3> QED BY <1>2, <1>3 DEF Causes
  <2>2. lastReadAt' \in [Members -> 0 .. clock]
    BY <1>0, <1>1, <1>3
  <2>3. unread' \in [Members -> Nat]
    BY <1>1, <1>3
  <2> HIDE DEF late, gone, reader
  <2> QED BY <1>1, <2>1, <2>2, <2>3 DEF IInv, TypeOK
<1>7. TablesFit' /\ TasksFit'
  BY <1>1 DEF IInv, TablesFit, TasksFit, Ids
<1>8. \A m \in Members \ {reader} : CountedFor(m)' = CountedFor(m)
  BY <1>1, <1>4 DEF CountedFor, Unread
<1>9. CountersFit'
  <2> SUFFICES ASSUME NEW m \in Members
               PROVE  /\ "gone" \notin drift'[m] =>
                            \A a \in (ever \ messages)' : ~CountsFor(a, m)'
                      /\ drift'[m] \cap {"gone", "twice", "stale"} = {} =>
                            unread'[m] <= Cardinality(CountedFor(m)')
                      /\ drift'[m] \cap {"merged", "late", "stale"} = {} =>
                            unread'[m] >= Cardinality(CountedFor(m)')
                      /\ unread'[m] > 0 /\ "stale" \notin drift'[m] =>
                            \E a \in ever' : CountsFor(a, m)'
    BY DEF CountersFit, GoneIsKnown, AtMost, AtLeast, NoPhantom
  <2>1. CASE m # reader
    BY <2>1, <1>1, <1>4, <1>5, <1>8 DEF IInv, CountersFit, GoneIsKnown, AtMost, AtLeast, NoPhantom
  <2>2. CASE m = reader
    <3>1. "gone" \notin drift'[m] => \A a \in (ever \ messages)' : ~CountsFor(a, m)'
      BY <2>2, <1>1, <1>4, <1>5
    <3>2. IsFiniteSet(CountedFor(m)') /\ Cardinality(CountedFor(m)') \in Nat
      <4>1. CountedFor(m)' \in SUBSET ever
        BY <1>1 DEF CountedFor, Unread, IInv, TypeOK
      <4>2. IsFiniteSet(ever)
        BY DEF IInv, TablesFit
      <4> QED BY <4>1, <4>2, FS_Subset, FS_CardinalityType
    <3>3. "late" \notin drift'[m] => CountedFor(m)' = {}
      BY <2>2, <1>1, <1>4, <1>5 DEF CountedFor, Unread
    <3>4. "late" \notin drift'[m] => Cardinality(CountedFor(m)') = 0
      BY <3>3, FS_EmptySet
    <3>5. unread'[m] = 0
      BY <2>2, <1>5
    <3> QED BY <3>1, <3>2, <3>4, <3>5
  <2> QED BY <2>1, <2>2
<1>10. NumbersAreFresh'
  <2> SUFFICES ASSUME NEW t \in tasks, NEW m \in t.page, "stale" \notin drift'[m]
               PROVE  GroupIsFresh(t, m)' /\ RecountIsFresh(t, m)'
    BY <1>1 DEF NumbersAreFresh
  <2>1. m \in Members
    BY DEF IInv, TypeOK, Tasks
  <2>2. CASE t.stage # "computed"
    BY <2>2 DEF RecountIsFresh, GroupIsFresh
  <2>3. CASE t.stage = "computed"
    <3>1. m # reader
      BY <2>3, <1>5 DEF Computing
    <3>2. GroupIsFresh(t, m) /\ RecountIsFresh(t, m)
      BY <3>1, <2>1, <1>5 DEF IInv, NumbersAreFresh
    <3>3. Increments(t, m)' = Increments(t, m)
      BY <1>4, <2>1, <3>1 DEF Increments
    <3>4. SeenFor(t, m)' = SeenFor(t, m)
      BY <1>1, <1>4, <2>1, <3>1 DEF SeenFor, Unread
    <3> HIDE DEF reader
    <3>5. \A a : CountsFor(a, m)' = CountsFor(a, m)
      BY <1>4, <2>1, <3>1
    <3>6. CountedFor(m)' = CountedFor(m) /\ drift'[m] = drift[m]
      BY <1>5, <1>8, <2>1, <3>1
    <3> QED BY <1>1, <3>2, <3>3, <3>4, <3>5, <3>6 DEF RecountIsFresh, GroupIsFresh
  <2> QED BY <2>2, <2>3
<1>11. WrittenIsCounted' /\ NobodyIsSkipped'
  <2>1. \A t \in tasks : t.page \subseteq Members
    BY DEF IInv, TypeOK, Tasks
  <2> QED BY <1>1, <2>1, WrittenKept, SkipsKept DEF IInv
<1> QED BY <1>6, <1>7, <1>9, <1>10, <1>11 DEF IInv

-----------------------------------------------------------------------------
(* The worker takes rows.                                                    *)

LEMMA TakeRowKeeps ==
    ASSUME ConstantsFit, IInv, NEW row \in rows, TakeRow(row)
    PROVE  IInv'
<1> DEFINE kind == IF row.msg.kind = "queued" THEN "single" ELSE "recount"
           t == Task(kind, {row}, PageOf(row))
           next == NewRow(row.msg, Max(PageOf(row)))
<1>0. row \in Rows /\ row.msg \in Messages /\ row.msg \in ever /\ PageOf(row) \in SUBSET Members
  BY DEF IInv, TypeOK, TablesFit, Rows, PageOf
<1>1. /\ tasks' = tasks \cup {t}
      /\ \A o \in tasks : row \notin o.rows
      /\ HasMore(row) => rows' = rows \cup {next}
      /\ ~HasMore(row) => rows' = rows
      /\ UNCHANGED <<clock, sends, messages, lastReadAt, unread, reads,
                     ever, counted, drift, readsBegun, abandons>>
  BY DEF TakeRow, Free, history
<1>2. /\ t \in Tasks /\ t.kind \in {"single", "recount"} /\ t.rows = {row} /\ t.page = PageOf(row)
      /\ t.stage = "taken" /\ t.seen = {}
  <2>1. {row} \in SUBSET Rows /\ kind \in {"single", "recount"}
    BY <1>0
  <2> HIDE DEF kind
  <2> QED BY <1>0, <2>1 DEF Task, Tasks, Stages
<1>3. /\ next.no \in Nat /\ next.msg = row.msg /\ next.after = Max(PageOf(row))
      /\ next \notin rows
      /\ next = [no |-> next.no, msg |-> row.msg, after |-> Max(PageOf(row))]
  BY RowIsFresh DEF IInv, TablesFit
<1>4. HasMore(row) => /\ Max(PageOf(row)) \in Members
                      /\ \A m \in Members : m # row.msg.sender /\ m > row.after
                           /\ m \notin PageOf(row) => Max(PageOf(row)) < m
  BY <1>0, PageIsFirst
<1> HIDE DEF t, next
<1>5. HasMore(row) => next \in Rows
  BY <1>0, <1>3, <1>4 DEF Rows
<1>6. TypeOK'
  <2>1. rows' \subseteq Rows /\ rows \subseteq rows'
    BY <1>1, <1>5 DEF IInv, TypeOK
  <2>2. tasks' \subseteq Tasks /\ \A o \in tasks' : o.rows \subseteq rows'
    BY <1>1, <1>2, <2>1 DEF IInv, TypeOK
  <2> QED BY <1>1, <2>1, <2>2 DEF IInv, TypeOK
<1>7. TablesFit'
  <2>1. IsFiniteSet(rows')
    BY <1>1, FS_AddElement DEF IInv, TablesFit
  <2>2. \A r \in rows' : r.msg \in ever
    BY <1>0, <1>1, <1>3 DEF IInv, TablesFit
  <2> QED BY <1>1, <2>1, <2>2 DEF IInv, TablesFit, Ids
<1>8. TasksFit'
  BY <1>1, <1>2 DEF IInv, TasksFit, Ids
<1>9. CountersFit' /\ NumbersAreFresh'
  BY <1>1, <1>2, CountersKept, NumbersKept DEF IInv
<1>10. WrittenIsCounted'
  BY <1>1, <1>2 DEF IInv, WrittenIsCounted, Counts
<1>11. NobodyIsSkipped'
  <2> SUFFICES ASSUME NEW a \in messages, NEW m \in Members, Reaches(a, m), a.id \notin counted[m]
               PROVE  Waits(a, m)'
    BY <1>1 DEF NobodyIsSkipped, Reaches
  <2>1. PICK r \in rows : r.msg = a /\ r.after < m /\ \A o \in tasks : r \in o.rows => m \in o.page
    BY DEF IInv, NobodyIsSkipped, Waits
  <2>2. CASE r # row \/ m \in PageOf(row)
    <3>1. \A o \in tasks' : r \in o.rows => m \in o.page
      BY <1>1, <1>2, <2>1, <2>2
    <3>2. r \in rows'
      BY <1>1
    <3> QED BY <3>1, <3>2, <2>1 DEF Waits
  <2>3. CASE r = row /\ m \notin PageOf(row)
    <3>1. m # row.msg.sender /\ m > row.after
      <4>1. m \in Nat /\ row.after \in Members \cup {0}
        BY <1>0 DEF ConstantsFit, Rows
      <4>2. Members \cup {0} \subseteq Nat
        BY DEF ConstantsFit
      <4>3. row.after \in Nat
        BY <4>1, <4>2
      <4> QED BY <2>1, <2>3, <4>1, <4>3 DEF Reaches
    <3>2. HasMore(row)
      BY <3>1, <2>3 DEF HasMore
    <3>3. next \in rows' /\ next.msg = a /\ next.after < m
      BY <1>1, <1>3, <1>4, <2>1, <2>3, <3>1, <3>2
    <3>4. \A o \in tasks' : next \notin o.rows
      BY <1>1, <1>2, <1>3 DEF IInv, TypeOK
    <3> QED BY <3>3, <3>4 DEF Waits
  <2> QED BY <2>2, <2>3
<1> QED BY <1>6, <1>7, <1>8, <1>9, <1>10, <1>11 DEF IInv

LEMMA TakeGroupKeeps ==
    ASSUME ConstantsFit, IInv, NEW rs \in SUBSET rows, TakeGroup(rs)
    PROVE  IInv'
<1>1. PICK u \in Members :
        /\ \A r \in rs : r.msg.sender = u
        /\ tasks' = tasks \cup {Task("batch", rs, Members \ {u})}
  BY DEF TakeGroup
<1> DEFINE t == Task("batch", rs, Members \ {u})
<1>2. /\ rs # {} /\ \A r \in rs : \A o \in tasks : r \notin o.rows
      /\ UNCHANGED <<clock, sends, messages, lastReadAt, unread, reads, rows,
                     ever, counted, drift, readsBegun, abandons>>
  BY DEF TakeGroup, Free, history
<1>3. /\ t \in Tasks /\ t.kind = "batch" /\ t.rows = rs /\ t.page = Members \ {u}
      /\ t.stage = "taken" /\ t.seen = {}
  <2>1. rs \in SUBSET Rows /\ Members \ {u} \in SUBSET Members
    BY DEF IInv, TypeOK
  <2> QED BY <2>1 DEF Task, Tasks, Stages
<1>4. tasks' = tasks \cup {t}
  BY <1>1
<1> HIDE DEF t
<1>5. TypeOK'
  BY <1>2, <1>3, <1>4 DEF IInv, TypeOK
<1>6. TablesFit'
  BY <1>2 DEF IInv, TablesFit, Ids
<1>7. TasksFit'
  BY <1>2, <1>3, <1>4 DEF IInv, TasksFit, Ids
<1>8. CountersFit' /\ NumbersAreFresh'
  BY <1>2, <1>3, <1>4, CountersKept, NumbersKept DEF IInv
<1>9. WrittenIsCounted'
  BY <1>2, <1>3, <1>4 DEF IInv, WrittenIsCounted, Counts
<1>10. NobodyIsSkipped'
  <2> SUFFICES ASSUME NEW a \in messages, NEW m \in Members, Reaches(a, m), a.id \notin counted[m]
               PROVE  Waits(a, m)'
    BY <1>2 DEF NobodyIsSkipped, Reaches
  <2>1. PICK r \in rows : r.msg = a /\ r.after < m /\ \A o \in tasks : r \in o.rows => m \in o.page
    BY DEF IInv, NobodyIsSkipped, Waits
  <2>2. r \in rs => m \in t.page
    BY <1>1, <1>3, <2>1 DEF Reaches
  <2>3. \A o \in tasks' : r \in o.rows => m \in o.page
    BY <1>3, <1>4, <2>1, <2>2
  <2> QED BY <1>2, <2>1, <2>3 DEF Waits
<1> QED BY <1>5, <1>6, <1>7, <1>8, <1>9, <1>10 DEF IInv

-----------------------------------------------------------------------------
(* The worker counts.                                                        *)

(* What an increment adds: a number for each time, and as many as there are  *)
(* messages when no two of them have the same time.                          *)
LEMMA IncrementsCount ==
    ASSUME IInv, NEW t, t.rows \subseteq rows, NEW m
    PROVE  LET S == {x \in t.rows : CountsFor(x.msg, m)}
               M == {x.msg : x \in S}
           IN  /\ IsFiniteSet(M) /\ Cardinality(M) \in Nat
               /\ Increments(t, m) \in Nat
               /\ Increments(t, m) <= Cardinality(M)
               /\ (\A r, s \in S : r # s => r.msg.at # s.msg.at) =>
                    Increments(t, m) = Cardinality(M)
               /\ Increments(t, m) > 0 => S # {}
<1> DEFINE S == {x \in t.rows : CountsFor(x.msg, m)}
           M == {x.msg : x \in S}
           A == {x.msg.at : x \in S}
           f == [x \in S |-> x.msg]
           g == [a \in M |-> a.at]
<1>1. S \in SUBSET rows /\ IsFiniteSet(rows)
  BY DEF IInv, TablesFit
<1>2. IsFiniteSet(S)
  <2> HIDE DEF S
  <2> QED BY <1>1, FS_Subset
<1>3. f \in Surjection(S, M)
  BY DEF Surjection
<1>4. g \in Surjection(M, A)
  BY DEF Surjection
<1>5. IsFiniteSet(M)
  <2> HIDE DEF S, M, f
  <2> QED BY <1>2, <1>3, FS_Surjection
<1>6. /\ IsFiniteSet(A) /\ Cardinality(A) <= Cardinality(M)
      /\ Cardinality(A) = Cardinality(M) <=> g \in Injection(M, A)
  <2> HIDE DEF M, A, g
  <2> QED BY <1>4, <1>5, FS_Surjection
<1>7. Increments(t, m) = Cardinality(A)
  BY DEF Increments
<1>8. Cardinality(A) \in Nat /\ Cardinality(M) \in Nat
  BY <1>5, <1>6, FS_CardinalityType
<1>9. ASSUME \A r, s \in S : r # s => r.msg.at # s.msg.at
      PROVE  g \in Injection(M, A)
  <2>1. \A a, b \in M : a # b => g[a] # g[b]
    BY <1>9
  <2>2. g \in [M -> A]
    OBVIOUS
  <2> HIDE DEF M, A, g
  <2> QED BY <2>1, <2>2 DEF Injection, IsInjective
<1>10. Cardinality(A) > 0 => S # {}
  <2>1. S = {} => A = {}
    OBVIOUS
  <2> HIDE DEF A, S
  <2> QED BY <2>1, <1>6, FS_EmptySet
<1> QED BY <1>5, <1>6, <1>7, <1>8, <1>9, <1>10

LEMMA ComputeKeeps ==
    ASSUME ConstantsFit, IInv, NEW t \in tasks, Compute(t)
    PROVE  IInv'
<1> DEFINE counts == [m \in Members |->
                       IF m \notin t.page THEN 0
                       ELSE IF t.kind = "batch" THEN Increments(t, m)
                       ELSE Cardinality(Unread(m))]
           u == [t EXCEPT !.stage = "computed", !.seen = Ids(messages), !.counts = counts]
<1>1. /\ t.stage = "taken" /\ t.kind \in {"batch", "recount"}
      /\ tasks' = (tasks \ {t}) \cup {u}
      /\ UNCHANGED <<clock, sends, messages, lastReadAt, unread, reads, rows,
                     ever, counted, drift, readsBegun, abandons>>
  BY DEF Compute, history
<1>2. t \in Tasks /\ t.rows \subseteq rows /\ t.page \subseteq Members
  BY DEF IInv, TypeOK, Tasks
<1>3. \A m : IsFiniteSet(Unread(m)) /\ Cardinality(Unread(m)) \in Nat
  <2> TAKE m
  <2>1. Unread(m) \in SUBSET ever /\ IsFiniteSet(ever)
    BY DEF Unread, IInv, TypeOK, TablesFit
  <2> QED BY <2>1, FS_Subset, FS_CardinalityType
<1>4. \A m : Increments(t, m) \in Nat
  BY <1>2, IncrementsCount
<1>5. counts \in [Members -> Nat]
  BY <1>3, <1>4
<1>6. Ids(messages) \subseteq Ids(ever) /\ Ids(messages) \subseteq MessageIds
  BY DEF Ids, Messages, IInv, TypeOK
<1>7. /\ u.stage = "computed" /\ u.seen = Ids(messages) /\ u.counts = counts
      /\ u.kind = t.kind /\ u.rows = t.rows /\ u.page = t.page
      /\ u \in Tasks
  <2> HIDE DEF counts
  <2> QED BY <1>2, <1>5, <1>6 DEF Tasks, Stages
<1>8. \A m \in t.page : counts[m] = IF t.kind = "batch" THEN Increments(t, m)
                                    ELSE Cardinality(Unread(m))
  BY <1>2
<1> HIDE DEF u, counts
<1>9. TypeOK'
  BY <1>1, <1>2, <1>7 DEF IInv, TypeOK
<1>10. TablesFit'
  BY <1>1 DEF IInv, TablesFit, Ids
<1>11. TasksFit'
  BY <1>1, <1>6, <1>7 DEF IInv, TasksFit, Ids
<1>12. CountersFit'
  BY <1>1, CountersKept DEF IInv
<1>13. NumbersAreFresh'
  <2>1. \A s, m : /\ CountedFor(m)' = CountedFor(m)
                  /\ SeenFor(s, m)' = SeenFor(s, m)
                  /\ Increments(s, m)' = Increments(s, m)
    BY <1>1 DEF CountedFor, SeenFor, Increments, Unread, CountsFor, Newer, Reaches
  <2>2. \A a, m : CountsFor(a, m)' = CountsFor(a, m)
    BY <1>1 DEF CountsFor, Newer, Reaches
  <2>3. \A s, m : /\ GroupIsFresh(s, m)' = GroupIsFresh(s, m)
                  /\ RecountIsFresh(s, m)' = RecountIsFresh(s, m)
    BY <1>1, <2>1, <2>2 DEF GroupIsFresh, RecountIsFresh
  <2> SUFFICES ASSUME NEW s \in tasks', NEW m \in s.page, "stale" \notin drift[m]
               PROVE  GroupIsFresh(s, m) /\ RecountIsFresh(s, m)
    BY <1>1, <2>3 DEF NumbersAreFresh
  <2>4. CASE s \in tasks
    BY <2>4 DEF IInv, NumbersAreFresh
  <2>5. CASE s = u
    <3>1. Increments(u, m) = Increments(t, m)
      BY <1>7 DEF Increments
    <3>2. GroupIsFresh(u, m)
      BY <3>1, <2>5, <1>7, <1>8 DEF GroupIsFresh
    <3>3. SeenFor(u, m) = Unread(m)
      BY <1>7 DEF SeenFor, Unread, Ids
    <3>4. CountedFor(m) \subseteq Unread(m)
      BY DEF CountedFor
    <3>5. u.kind = "recount" => u.counts[m] = Cardinality(Unread(m))
      BY <2>5, <1>7, <1>8
    <3>6. Cardinality(Unread(m)) > 0 => \E a \in ever : CountsFor(a, m)
      <4>1. Unread(m) = {} => Cardinality(Unread(m)) = 0
        BY FS_EmptySet
      <4>2. Unread(m) # {} => \E a \in ever : CountsFor(a, m)
        BY DEF Unread, IInv, TypeOK
      <4> QED BY <4>1, <4>2
    <3>7. RecountIsFresh(u, m)
      BY <3>3, <3>4, <3>5, <3>6, <1>3 DEF RecountIsFresh
    <3> QED BY <2>5, <3>2, <3>7
  <2> QED BY <1>1, <2>4, <2>5
<1>14. WrittenIsCounted'
  BY <1>1, <1>7 DEF IInv, WrittenIsCounted, Counts, Ids
<1>15. NobodyIsSkipped'
  BY <1>1, <1>7, SkipsKept DEF IInv
<1> QED BY <1>9, <1>10, <1>11, <1>12, <1>13, <1>14, <1>15 DEF IInv

LEMMA FinishKeeps ==
    ASSUME ConstantsFit, IInv, NEW t \in tasks, Finish(t)
    PROVE  IInv'
<1>1. /\ t.stage = "written" /\ rows' = rows \ t.rows /\ tasks' = tasks \ {t}
      /\ UNCHANGED <<clock, sends, messages, lastReadAt, unread, reads,
                     ever, counted, drift, readsBegun, abandons>>
  BY DEF Finish, history
<1>2. TypeOK'
  <2>1. \A o \in tasks' : o.rows \subseteq rows'
    BY <1>1 DEF IInv, TypeOK, TasksFit
  <2> QED BY <1>1, <2>1 DEF IInv, TypeOK
<1>3. TablesFit'
  <2>1. IsFiniteSet(rows')
    BY <1>1, FS_Subset DEF IInv, TablesFit
  <2> QED BY <1>1, <2>1 DEF IInv, TablesFit, Ids
<1>4. TasksFit'
  BY <1>1 DEF IInv, TasksFit, Ids
<1>5. CountersFit' /\ NumbersAreFresh'
  BY <1>1, CountersKept, NumbersKept DEF IInv
<1>6. WrittenIsCounted'
  <2>1. \A o \in tasks : o.page \subseteq Members
    BY DEF IInv, TypeOK, Tasks
  <2> QED BY <1>1, <2>1, WrittenKept DEF IInv
<1>7. NobodyIsSkipped'
  <2> SUFFICES ASSUME NEW a \in messages, NEW m \in Members, Reaches(a, m), a.id \notin counted[m]
               PROVE  Waits(a, m)'
    BY <1>1 DEF NobodyIsSkipped, Reaches
  <2>1. PICK r \in rows : r.msg = a /\ r.after < m /\ \A o \in tasks : r \in o.rows => m \in o.page
    BY DEF IInv, NobodyIsSkipped, Waits
  <2>2. r \notin t.rows
    <3> SUFFICES ASSUME r \in t.rows PROVE FALSE
      OBVIOUS
    <3>1. Counts(t) \subseteq counted[m]
      BY <1>1, <2>1 DEF IInv, WrittenIsCounted
    <3>2. r.msg.id \in Counts(t)
      BY <1>1, <2>1 DEF IInv, WrittenIsCounted, Counts
    <3> QED BY <2>1, <3>1, <3>2
  <2> QED BY <1>1, <2>1, <2>2 DEF Waits
<1> QED BY <1>2, <1>3, <1>4, <1>5, <1>6, <1>7 DEF IInv

LEMMA AbandonKeeps ==
    ASSUME ConstantsFit, IInv, NEW t \in tasks, Abandon(t)
    PROVE  IInv'
<1>1. /\ tasks' = tasks \ {t} /\ abandons < MaxAbandons /\ abandons' = abandons + 1
      /\ UNCHANGED <<clock, sends, messages, lastReadAt, unread, reads, rows,
                     ever, counted, drift, readsBegun>>
  BY DEF Abandon
<1>2. TypeOK'
  BY <1>1 DEF IInv, TypeOK, ConstantsFit
<1>3. TablesFit' /\ TasksFit'
  BY <1>1 DEF IInv, TablesFit, TasksFit, Ids
<1>4. CountersFit' /\ NumbersAreFresh'
  BY <1>1, CountersKept, NumbersKept DEF IInv
<1>5. WrittenIsCounted' /\ NobodyIsSkipped'
  <2>1. \A o \in tasks : o.page \subseteq Members
    BY DEF IInv, TypeOK, Tasks
  <2> QED BY <1>1, <2>1, WrittenKept, SkipsKept DEF IInv
<1> QED BY <1>2, <1>3, <1>4, <1>5 DEF IInv

LEMMA TickKeeps ==
    ASSUME ConstantsFit, IInv, Tick
    PROVE  IInv'
<1>1. /\ clock < MaxClock /\ clock' = clock + 1
      /\ UNCHANGED <<sends, messages, lastReadAt, unread, reads, rows, tasks,
                     ever, counted, drift, readsBegun, abandons>>
  BY DEF Tick, history
<1>2. TypeOK'
  <2>1. clock \in 1 .. MaxClock /\ MaxClock \in Nat
    BY DEF IInv, TypeOK, ConstantsFit
  <2>2. clock' \in 1 .. MaxClock
    BY <1>1, <2>1
  <2>3. lastReadAt' \in [Members -> 0 .. clock']
    BY <1>1, <2>1 DEF IInv, TypeOK
  <2>4. reads' \subseteq [member : Members, at : 1 .. clock']
    <3>1. 1 .. clock \subseteq 1 .. clock'
      BY <1>1, <2>1
    <3> QED BY <1>1, <3>1 DEF IInv, TypeOK
  <2> QED BY <1>1, <2>2, <2>3, <2>4 DEF IInv, TypeOK
<1>3. TablesFit' /\ TasksFit'
  BY <1>1 DEF IInv, TablesFit, TasksFit, Ids
<1>4. CountersFit' /\ NumbersAreFresh'
  BY <1>1, CountersKept, NumbersKept DEF IInv
<1>5. WrittenIsCounted' /\ NobodyIsSkipped'
  <2>1. \A o \in tasks : o.page \subseteq Members
    BY DEF IInv, TypeOK, Tasks
  <2> QED BY <1>1, <2>1, WrittenKept, SkipsKept DEF IInv
<1> QED BY <1>2, <1>3, <1>4, <1>5 DEF IInv

(* A message of a table is known by its id.                                  *)
LEMMA OneForAnId ==
    ASSUME IInv, NEW a \in ever, NEW b \in ever, a.id = b.id
    PROVE  a = b
BY DEF IInv, TablesFit

(* What a write of single rows or of a group leaves for a member of its      *)
(* page.                                                                     *)
LEMMA IncrementsWritten ==
    ASSUME ConstantsFit, IInv, NEW t \in tasks, Write(t), t.kind # "recount",
           NEW m \in t.page
    PROVE  /\ "gone" \notin drift'[m] =>
                 \A a \in (ever \ messages)' : ~CountsFor(a, m)'
           /\ drift'[m] \cap {"gone", "twice", "stale"} = {} =>
                 unread'[m] <= Cardinality(CountedFor(m)')
           /\ drift'[m] \cap {"merged", "late", "stale"} = {} =>
                 unread'[m] >= Cardinality(CountedFor(m)')
           /\ unread'[m] > 0 /\ "stale" \notin drift'[m] =>
                 \E a \in ever' : CountsFor(a, m)'
<1> DEFINE S == {x \in t.rows : CountsFor(x.msg, m)}
           M == {x.msg : x \in S}
           n == Increments(t, m)
<1>0. /\ m \in Members /\ t.rows \subseteq rows /\ t.kind \in {"single", "batch"}
      /\ \A r \in t.rows : r.msg \in ever
  BY DEF IInv, TypeOK, Tasks, TablesFit
<1>1. /\ IsFiniteSet(M) /\ Cardinality(M) \in Nat /\ n \in Nat /\ n <= Cardinality(M)
      /\ (\A r, s \in S : r # s => r.msg.at # s.msg.at) => n = Cardinality(M)
      /\ n > 0 => S # {}
  BY <1>0, IncrementsCount
<1>2. /\ UNCHANGED <<messages, ever, lastReadAt>>
      /\ t.kind = "batch" => t.stage = "computed"
      /\ unread'[m] = Written(t, m)
      /\ counted'[m] = counted[m] \cup {r.msg.id : r \in t.rows}
      /\ drift[m] \subseteq drift'[m]
      /\ Twice(t, m) => "twice" \in drift'[m]
      /\ Merged(t, m) => "merged" \in drift'[m]
      /\ "gone" \in drift'[m] => "gone" \in drift[m]
  BY <1>0 DEF Write, Count, Counts
<1>3. \A a : CountsFor(a, m)' = CountsFor(a, m)
  BY <1>2 DEF CountsFor, Newer, Reaches
<1>4. "stale" \notin drift'[m] => unread'[m] = unread[m] + n
  <2>1. t.kind = "single" => Written(t, m) = unread[m] + n
    BY DEF Written
  <2>2. t.kind = "batch" /\ "stale" \notin drift[m] => Written(t, m) = unread[m] + n
    BY <1>2 DEF Written, IInv, NumbersAreFresh, GroupIsFresh
  <2> QED BY <1>0, <1>2, <2>1, <2>2
<1>5. CountedFor(m)' = CountedFor(m) \cup (M \cap messages)
  <2>1. messages \subseteq ever
    BY DEF IInv, TypeOK
  <2>2. ASSUME NEW a \in messages, NEW r \in t.rows, a.id = r.msg.id
        PROVE  a = r.msg
    BY <2>1, <2>2, <1>0, OneForAnId
  <2>3. \A a \in messages : a.id \in counted'[m] <=> a.id \in counted[m] \/ \E r \in t.rows : a = r.msg
    BY <1>2, <2>2
  <2> QED BY <1>2, <1>3, <2>3 DEF CountedFor, Unread
<1>6. unread[m] \in Nat /\ IsFiniteSet(CountedFor(m)) /\ Cardinality(CountedFor(m)) \in Nat
  BY <1>0, CountedIsFinite DEF IInv, TypeOK
<1>7. "gone" \notin drift[m] => M \subseteq messages
  BY <1>0 DEF IInv, CountersFit, GoneIsKnown
<1>8. ~Twice(t, m) => M \cap CountedFor(m) = {}
  BY DEF Twice, CountedFor
<1>9. "merged" \notin drift'[m] => n = Cardinality(M)
  <2>1. CASE t.kind = "single"
    <3>1. \E r \in t.rows : t.rows = {r}
      BY <2>1 DEF IInv, TasksFit
    <3>2. \A r, s \in S : r # s => r.msg.at # s.msg.at
      BY <3>1
    <3> QED BY <3>2, <1>1
  <2>2. CASE t.kind = "batch"
    <3>1. ~Merged(t, m) => \A r, s \in S : r # s => r.msg.at # s.msg.at
      BY <2>2 DEF Merged
    <3> QED BY <3>1, <1>1, <1>2
  <2> QED BY <1>0, <2>1, <2>2
<1> HIDE DEF S, M, n
<1>10. "gone" \notin drift'[m] => \A a \in (ever \ messages)' : ~CountsFor(a, m)'
  BY <1>0, <1>2, <1>3 DEF IInv, CountersFit, GoneIsKnown
<1>11. ASSUME drift'[m] \cap {"gone", "twice", "stale"} = {}
       PROVE  unread'[m] <= Cardinality(CountedFor(m)')
  <2>1. "gone" \notin drift[m] /\ "stale" \notin drift'[m] /\ ~Twice(t, m)
    BY <1>2, <1>11
  <2>2. unread[m] <= Cardinality(CountedFor(m))
    BY <1>0, <1>2, <1>11 DEF IInv, CountersFit, AtMost
  <2>3. CountedFor(m)' = CountedFor(m) \cup M /\ CountedFor(m) \cap M = {}
    BY <2>1, <1>5, <1>7, <1>8
  <2>4. Cardinality(CountedFor(m)') =
          Cardinality(CountedFor(m)) + Cardinality(M) - Cardinality(CountedFor(m) \cap M)
    BY <2>3, <1>1, <1>6, FS_Union
  <2>5. Cardinality(CountedFor(m) \cap M) = 0
    BY <2>3, FS_EmptySet
  <2> QED BY <2>1, <2>2, <2>4, <2>5, <1>1, <1>4, <1>6
<1>12. ASSUME drift'[m] \cap {"merged", "late", "stale"} = {}
       PROVE  unread'[m] >= Cardinality(CountedFor(m)')
  <2>1. "stale" \notin drift'[m] /\ "merged" \notin drift'[m]
    BY <1>12
  <2>2. unread[m] >= Cardinality(CountedFor(m))
    BY <1>0, <1>2, <1>12 DEF IInv, CountersFit, AtLeast
  <2>3. /\ IsFiniteSet(CountedFor(m) \cup M)
        /\ Cardinality(CountedFor(m) \cup M) =
             Cardinality(CountedFor(m)) + Cardinality(M) - Cardinality(CountedFor(m) \cap M)
    BY <1>1, <1>6, FS_Union
  <2>4. Cardinality(CountedFor(m) \cap M) \in Nat
    <3>1. IsFiniteSet(CountedFor(m) \cap M)
      BY <1>6, FS_Intersection
    <3> QED BY <3>1, FS_CardinalityType
  <2>5. Cardinality(CountedFor(m)') <= Cardinality(CountedFor(m) \cup M)
    <3>1. CountedFor(m)' \in SUBSET (CountedFor(m) \cup M)
      BY <1>5
    <3> QED BY <3>1, <2>3, FS_Subset
  <2>6. Cardinality(CountedFor(m)') \in Nat
    <3>1. CountedFor(m)' \in SUBSET (CountedFor(m) \cup M)
      BY <1>5
    <3> QED BY <3>1, <2>3, FS_Subset, FS_CardinalityType
  <2> QED BY <2>1, <2>2, <2>3, <2>4, <2>5, <2>6, <1>1, <1>4, <1>6, <1>9
<1>13. ASSUME unread'[m] > 0, "stale" \notin drift'[m]
       PROVE  \E a \in ever' : CountsFor(a, m)'
  <2>1. unread[m] > 0 \/ n > 0
    BY <1>13, <1>4, <1>6, <1>1
  <2>2. CASE unread[m] > 0
    BY <2>2, <1>0, <1>2, <1>3, <1>13 DEF IInv, CountersFit, NoPhantom
  <2>3. CASE n > 0
    <3>1. PICK r \in t.rows : CountsFor(r.msg, m)
      BY <2>3, <1>1 DEF S
    <3> QED BY <3>1, <1>0, <1>2, <1>3
  <2> QED BY <2>1, <2>2, <2>3
<1> QED BY <1>10, <1>11, <1>12, <1>13

(* What a write of a recount leaves: the messages it has seen.               *)
LEMMA RecountWritten ==
    ASSUME ConstantsFit, IInv, NEW t \in tasks, Write(t), t.kind = "recount",
           NEW m \in t.page
    PROVE  /\ "gone" \notin drift'[m] =>
                 \A a \in (ever \ messages)' : ~CountsFor(a, m)'
           /\ drift'[m] \cap {"gone", "twice", "stale"} = {} =>
                 unread'[m] <= Cardinality(CountedFor(m)')
           /\ drift'[m] \cap {"merged", "late", "stale"} = {} =>
                 unread'[m] >= Cardinality(CountedFor(m)')
           /\ unread'[m] > 0 /\ "stale" \notin drift'[m] =>
                 \E a \in ever' : CountsFor(a, m)'
<1>0. m \in Members /\ t.page \subseteq Members
  BY DEF IInv, TypeOK, Tasks
<1>1. /\ UNCHANGED <<messages, ever, lastReadAt>>
      /\ t.stage = "computed"
      /\ unread'[m] = t.counts[m]
      /\ counted'[m] = counted[m] \cup t.seen
      /\ drift[m] \subseteq drift'[m]
      /\ "gone" \in drift'[m] => "gone" \in drift[m]
  BY <1>0 DEF Write, Written, Count, Counts
<1>2. \A a : CountsFor(a, m)' = CountsFor(a, m)
  BY <1>1 DEF CountsFor, Newer, Reaches
<1>3. CountedFor(m)' = CountedFor(m) \cup SeenFor(t, m)
  BY <1>1, <1>2 DEF CountedFor, SeenFor, Unread
<1>4. "gone" \notin drift'[m] => \A a \in (ever \ messages)' : ~CountsFor(a, m)'
  BY <1>0, <1>1, <1>2 DEF IInv, CountersFit, GoneIsKnown
<1>5. ASSUME "stale" \notin drift'[m]
      PROVE  /\ CountedFor(m)' = SeenFor(t, m)
             /\ t.counts[m] >= Cardinality(SeenFor(t, m))
             /\ "gone" \notin drift[m] => t.counts[m] <= Cardinality(SeenFor(t, m))
             /\ t.counts[m] > 0 => \E a \in ever : CountsFor(a, m)
  <2>1. RecountIsFresh(t, m)
    BY <1>1, <1>5 DEF IInv, NumbersAreFresh
  <2> QED BY <2>1, <1>1, <1>3 DEF RecountIsFresh
<1> QED BY <1>1, <1>2, <1>4, <1>5

LEMMA WriteKeeps ==
    ASSUME ConstantsFit, IInv, NEW t \in tasks, Write(t)
    PROVE  IInv'
<1> DEFINE u == [t EXCEPT !.stage = "written"]
<1>0. t \in Tasks /\ t.rows \subseteq rows /\ t.page \subseteq Members /\ t.stage # "written"
  BY DEF IInv, TypeOK, Tasks, Write
<1>1. /\ tasks' = (tasks \ {t}) \cup {u}
      /\ t.kind # "single" => t.stage = "computed"
      /\ UNCHANGED <<clock, sends, messages, lastReadAt, reads, rows,
                     ever, readsBegun, abandons>>
  BY DEF Write
<1>2. /\ u \in Tasks /\ u.stage = "written"
      /\ u.kind = t.kind /\ u.rows = t.rows /\ u.page = t.page /\ u.seen = t.seen
  BY <1>0 DEF Tasks, Stages
<1> HIDE DEF u
<1>3. Counts(t) \subseteq Ids(ever) /\ Counts(u) = Counts(t)
  <2>1. t.seen \subseteq Ids(ever) /\ \A r \in t.rows : r.msg \in ever
    BY <1>0 DEF IInv, TasksFit, TablesFit
  <2> QED BY <1>2, <2>1 DEF Counts, Ids
<1>4. \A m \in Members : counted'[m] = counted[m] \cup (IF m \in t.page THEN Counts(t) ELSE {})
  BY DEF Write, Count
<1>5. TypeOK'
  <2>1. unread' \in [Members -> Nat]
    <3>1. \A m \in t.page : Written(t, m) \in Nat
      <4> TAKE m \in t.page
      <4>1. unread[m] \in Nat /\ t.counts[m] \in Nat
        BY <1>0 DEF IInv, TypeOK, Tasks
      <4>2. Increments(t, m) \in Nat
        BY <1>0, IncrementsCount
      <4>3. t.kind \in {"single", "batch", "recount"}
        BY <1>0 DEF Tasks
      <4> QED BY <4>1, <4>2, <4>3 DEF Written
    <3> QED BY <3>1 DEF Write, IInv, TypeOK
  <2>2. counted' \in [Members -> SUBSET MessageIds]
    <3>1. Counts(t) \subseteq MessageIds
      <4>1. Ids(ever) \subseteq MessageIds
        BY DEF IInv, TypeOK, Ids, Messages
      <4> QED BY <4>1, <1>3
    <3> QED BY <3>1 DEF Write, Count, IInv, TypeOK
  <2>3. drift' \in [Members -> SUBSET Causes]
    BY DEF Write, Causes, IInv, TypeOK
  <2> QED BY <1>0, <1>1, <1>2, <2>1, <2>2, <2>3 DEF IInv, TypeOK
<1>6. TablesFit'
  <2>1. \A m \in Members : counted'[m] \subseteq Ids(ever)
    BY <1>3, <1>4 DEF IInv, TablesFit
  <2> QED BY <1>1, <2>1 DEF IInv, TablesFit, Ids
<1>7. TasksFit'
  BY <1>1, <1>2 DEF IInv, TasksFit, Ids
<1>8. \A m \in Members \ t.page :
        /\ unread'[m] = unread[m] /\ counted'[m] = counted[m] /\ drift'[m] = drift[m]
        /\ CountedFor(m)' = CountedFor(m)
  <2> TAKE m \in Members \ t.page
  <2>1. unread'[m] = unread[m] /\ counted'[m] = counted[m] /\ drift'[m] = drift[m]
    BY DEF Write, Count
  <2> QED BY <1>1, <2>1 DEF CountedFor, Unread, CountsFor, Newer, Reaches
<1>9. \A a, m : CountsFor(a, m)' = CountsFor(a, m)
  BY <1>1 DEF CountsFor, Newer, Reaches
<1>10. CountersFit'
  <2> SUFFICES ASSUME NEW m \in Members
               PROVE  /\ "gone" \notin drift'[m] =>
                            \A a \in (ever \ messages)' : ~CountsFor(a, m)'
                      /\ drift'[m] \cap {"gone", "twice", "stale"} = {} =>
                            unread'[m] <= Cardinality(CountedFor(m)')
                      /\ drift'[m] \cap {"merged", "late", "stale"} = {} =>
                            unread'[m] >= Cardinality(CountedFor(m)')
                      /\ unread'[m] > 0 /\ "stale" \notin drift'[m] =>
                            \E a \in ever' : CountsFor(a, m)'
    BY DEF CountersFit, GoneIsKnown, AtMost, AtLeast, NoPhantom
  <2>1. CASE m \notin t.page
    BY <2>1, <1>1, <1>8, <1>9 DEF IInv, CountersFit, GoneIsKnown, AtMost, AtLeast, NoPhantom
  <2>2. CASE m \in t.page /\ t.kind = "recount"
    BY <2>2, RecountWritten
  <2>3. CASE m \in t.page /\ t.kind # "recount"
    BY <2>3, IncrementsWritten
  <2> QED BY <2>1, <2>2, <2>3
<1>11. NumbersAreFresh'
  <2> SUFFICES ASSUME NEW s \in tasks', NEW m \in s.page, "stale" \notin drift'[m]
               PROVE  GroupIsFresh(s, m)' /\ RecountIsFresh(s, m)'
    BY DEF NumbersAreFresh
  <2>1. CASE s = u
    BY <2>1, <1>2 DEF GroupIsFresh, RecountIsFresh
  <2>2. CASE s \in tasks \ {t}
    <3>0. m \in Members
      BY <2>2 DEF IInv, TypeOK, Tasks
    <3>1. drift[m] \subseteq drift'[m] /\ ("gone" \in drift'[m] => "gone" \in drift[m])
      BY <3>0 DEF Write
    <3>2. GroupIsFresh(s, m) /\ RecountIsFresh(s, m)
      BY <2>2, <3>1 DEF IInv, NumbersAreFresh
    <3>3. Increments(s, m)' = Increments(s, m)
      BY <1>9 DEF Increments
    <3>4. SeenFor(s, m)' = SeenFor(s, m)
      BY <1>1, <1>9 DEF SeenFor, Unread
    <3>5. ~(s.kind = "recount" /\ s.stage = "computed") \/ m \notin t.page
      <4>1. Overtakes(t, m) /\ m \in t.page => "stale" \in drift'[m]
        BY <3>0 DEF Write
      <4> QED BY <4>1, <2>2 DEF Overtakes
    <3>6. m \notin t.page => CountedFor(m)' = CountedFor(m)
      BY <3>0, <1>8
    <3> QED BY <1>1, <1>9, <3>1, <3>2, <3>3, <3>4, <3>5, <3>6 DEF GroupIsFresh, RecountIsFresh
  <2> QED BY <1>1, <2>1, <2>2
<1>12. WrittenIsCounted'
  <2>1. \A s \in tasks : s.page \subseteq Members
    BY DEF IInv, TypeOK, Tasks
  <2>2. u.stage = "written" /\ \A m \in u.page : Counts(u) \subseteq counted'[m]
    BY <1>0, <1>2, <1>3, <1>4
  <2>3. u.kind = "recount" => \A r \in u.rows : r.msg \in messages => r.msg.id \in u.seen
    BY <1>1, <1>2 DEF IInv, WrittenIsCounted
  <2>4. ASSUME NEW s \in tasks, s.stage = "written", NEW m \in s.page
        PROVE  Counts(s) \subseteq counted'[m]
    BY <2>1, <2>4, <1>4 DEF IInv, WrittenIsCounted
  <2>5. \A s \in tasks : s.kind = "recount" /\ s.stage # "taken" =>
            \A r \in s.rows : r.msg \in messages => r.msg.id \in s.seen
    BY DEF IInv, WrittenIsCounted
  <2>6. \A s \in tasks' : s \in tasks \/ s = u
    BY <1>1
  <2>7. \A s : Counts(s)' = Counts(s)
    BY DEF Counts
  <2> QED BY <1>1, <2>2, <2>3, <2>4, <2>5, <2>6, <2>7 DEF WrittenIsCounted
<1>13. NobodyIsSkipped'
  BY <1>1, <1>2, <1>4, SkipsKept DEF IInv
<1> QED BY <1>5, <1>6, <1>7, <1>10, <1>11, <1>12, <1>13 DEF IInv

-----------------------------------------------------------------------------
(* The invariant holds at the start and is kept.                             *)

LEMMA InitHolds ==
    ASSUME ConstantsFit, Init
    PROVE  IInv
<1>1. TypeOK
  BY DEF Init, TypeOK, ConstantsFit
<1>2. TablesFit /\ TasksFit
  BY FS_EmptySet DEF Init, TablesFit, TasksFit
<1>3. \A m \in Members : CountedFor(m) = {} /\ unread[m] = 0
  BY DEF Init, CountedFor, Unread
<1>4. CountersFit
  BY <1>3, FS_EmptySet DEF Init, CountersFit, GoneIsKnown, AtMost, AtLeast, NoPhantom
<1>5. NumbersAreFresh /\ WrittenIsCounted /\ NobodyIsSkipped
  BY DEF Init, NumbersAreFresh, WrittenIsCounted, NobodyIsSkipped
<1> QED BY <1>1, <1>2, <1>4, <1>5 DEF IInv

LEMMA StutterKeeps ==
    ASSUME ConstantsFit, IInv, UNCHANGED vars
    PROVE  IInv'
<1>1. UNCHANGED <<clock, sends, messages, lastReadAt, unread, reads, rows, tasks,
                  ever, counted, drift, readsBegun, abandons>>
  BY DEF vars
<1>2. TypeOK' /\ TablesFit' /\ TasksFit'
  BY <1>1 DEF IInv, TypeOK, TablesFit, TasksFit, Ids
<1>3. CountersFit' /\ NumbersAreFresh'
  BY <1>1, CountersKept, NumbersKept DEF IInv
<1>4. WrittenIsCounted' /\ NobodyIsSkipped'
  <2>1. \A o \in tasks : o.page \subseteq Members
    BY DEF IInv, TypeOK, Tasks
  <2> QED BY <1>1, <2>1, WrittenKept, SkipsKept DEF IInv
<1> QED BY <1>2, <1>3, <1>4 DEF IInv

LEMMA NextKeeps ==
    ASSUME ConstantsFit, IInv, [Next]_vars
    PROVE  IInv'
<1>1. ASSUME NEW u \in Members, NEW kind \in SendKinds, BeginSend(u, kind) PROVE IInv'
  BY <1>1, BeginSendKeeps
<1>2. ASSUME NEW msg \in sends, CommitSend(msg) PROVE IInv'
  BY <1>2, CommitSendKeeps
<1>3. ASSUME NEW msg \in messages, Delete(msg) PROVE IInv'
  BY <1>3, DeleteKeeps
<1>4. ASSUME NEW m \in Members, BeginRead(m) PROVE IInv'
  BY <1>4, BeginReadKeeps
<1>5. ASSUME NEW r \in reads, CommitRead(r) PROVE IInv'
  BY <1>5, ReadKeeps
<1>6. ASSUME NEW r \in rows, TakeRow(r) PROVE IInv'
  BY <1>6, TakeRowKeeps
<1>7. ASSUME NEW rs \in SUBSET rows, TakeGroup(rs) PROVE IInv'
  BY <1>7, TakeGroupKeeps
<1>8. ASSUME NEW t \in tasks, Work(t) \/ Abandon(t) PROVE IInv'
  BY <1>8, ComputeKeeps, WriteKeeps, FinishKeeps, AbandonKeeps DEF Work
<1>9. CASE Tick
  BY <1>9, TickKeeps
<1>10. CASE UNCHANGED vars
  BY <1>10, StutterKeeps
<1> QED BY <1>1, <1>2, <1>3, <1>4, <1>5, <1>6, <1>7, <1>8, <1>9, <1>10 DEF Next, Take

-----------------------------------------------------------------------------
(* What the invariant says of the counters.                                  *)

(* A counter nothing has disturbed is exact.                                 *)
LEMMA AccountedFollows ==
    ASSUME IInv
    PROVE  Accounted
<1> SUFFICES ASSUME NEW m \in Members, drift[m] = {}
             PROVE  unread[m] = Cardinality(CountedFor(m))
  BY DEF Accounted, CountedFor
<1>1. unread[m] <= Cardinality(CountedFor(m)) /\ unread[m] >= Cardinality(CountedFor(m))
  BY DEF IInv, CountersFit, AtMost, AtLeast
<1> QED BY <1>1, CountedIsFinite DEF IInv, TypeOK

(* No message is skipped once no row is left.                                *)
LEMMA NoneForgottenFollows ==
    ASSUME IInv
    PROVE  NoneForgotten
BY DEF IInv, NobodyIsSkipped, Waits, NoneForgotten, Quiet

(* A counter that is off has been disturbed, by what can set it off that way.*)
LEMMA DriftExplainedFollows ==
    ASSUME IInv
    PROVE  DriftExplained
<1>1. ASSUME NEW m \in Members
      PROVE  /\ Cardinality(CountedFor(m)) \in Nat /\ Cardinality(Unread(m)) \in Nat
             /\ Cardinality(CountedFor(m)) <= Cardinality(Unread(m))
             /\ unread[m] \in Nat
  <2>1. Unread(m) \in SUBSET ever /\ IsFiniteSet(ever) /\ unread[m] \in Nat
    BY DEF Unread, IInv, TypeOK, TablesFit
  <2>2. CountedFor(m) \in SUBSET Unread(m)
    BY DEF CountedFor
  <2> QED BY <2>1, <2>2, FS_Subset, FS_CardinalityType
<1>2. NeverAbove
  <2> SUFFICES ASSUME NEW m \in Members, drift[m] \cap {"gone", "twice", "stale"} = {}
               PROVE  unread[m] <= Cardinality(Unread(m))
    BY DEF NeverAbove
  <2>1. unread[m] <= Cardinality(CountedFor(m))
    BY DEF IInv, CountersFit, AtMost
  <2> QED BY <2>1, <1>1
<1>3. NeverBelowWhenQuiet
  <2> SUFFICES ASSUME NEW m \in Members, Quiet, drift[m] \cap {"merged", "late", "stale"} = {}
               PROVE  unread[m] >= Cardinality(Unread(m))
    BY DEF NeverBelowWhenQuiet
  <2>1. unread[m] >= Cardinality(CountedFor(m))
    BY DEF IInv, CountersFit, AtLeast
  <2>2. CountedFor(m) = Unread(m)
    BY NoneForgottenFollows DEF NoneForgotten, CountedFor, Unread, CountsFor
  <2> QED BY <2>1, <2>2
<1>4. NoPhantom
  BY DEF IInv, CountersFit
<1> QED BY <1>2, <1>3, <1>4 DEF DriftExplained

(* The unread counters of any members, whatever is sent, read, deleted,      *)
(* grouped, paged, redelivered or overtaken: an undisturbed counter is the   *)
(* number of the newer visible messages that were counted, a disturbed one   *)
(* is off only as its disturbances allow, and no message is skipped.         *)
THEOREM CountersAccounted ==
    ASSUME ConstantsFit
    PROVE  Spec => [](Accounted /\ DriftExplained /\ NoneForgotten)
<1>1. Init => IInv
  BY InitHolds
<1>2. IInv /\ [Next]_vars => IInv'
  BY NextKeeps
<1>3. IInv => Accounted /\ DriftExplained /\ NoneForgotten
  BY AccountedFollows, DriftExplainedFollows, NoneForgottenFollows
<1> QED BY <1>1, <1>2, <1>3, PTL DEF Spec
=============================================================================
