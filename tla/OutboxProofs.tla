---------------------------- MODULE OutboxProofs ----------------------------
(* Safety of the outbox, for any rows, workers, batch keys and bounds.      *)
EXTENDS Outbox, TLAPS

(* Eligible rows are rows, and what a claim picks is among them.            *)
LEMMA PickedAreRows ==
    ASSUME NEW lag \in 0..ClaimLag
    PROVE  /\ FirstOf(EligibleRows(lag)) \subseteq Events
           /\ \A e \in FirstOf(EligibleRows(lag)) : Eligible(e, lag)
           /\ \A e \in Oldest(EligibleRows(lag)) : e \in Events /\ Eligible(e, lag)
BY DEF FirstOf, EligibleRows, Oldest

(* A group holds only rows that were picked.                                *)
LEMMA GroupsAreRows ==
    ASSUME NEW rows \in SUBSET Events
    PROVE  \A g \in Groups(rows) : g \subseteq rows
BY DEF Groups

(* Each picked row is in exactly one group.                                 *)
LEMMA GroupsDisjoint ==
    ASSUME NEW rows \in SUBSET Events
    PROVE  \A g, h \in Groups(rows) : g # h => g \cap h = {}
BY DEF Groups

LEMMA FlagTyped ==
    ASSUME NEW f \in [Workers -> BOOLEAN], NEW w \in Workers, NEW b \in BOOLEAN
    PROVE  [f EXCEPT ![w] = b] \in [Workers -> BOOLEAN]
OBVIOUS

LEMMA InitTyped == Init => TypeOK /\ LoopConsistent
<1> SUFFICES ASSUME Init PROVE TypeOK /\ LoopConsistent
  OBVIOUS
<1> USE LimitsAssumption, BudgetAssumption DEF Init
<1>1. status \in [Events -> Statuses] /\ attempts \in [Events -> Nat] /\ avail \in [Events -> Int]
  BY DEF Statuses
<1>2. lockAge \in [Events -> 0..(StaleAfter + ClaimLag)]
  OBVIOUS
<1>3. running \in [Workers -> BOOLEAN] /\ reading \in [Workers -> Readings \cup {None}]
  OBVIOUS
<1>4. left \in [Workers -> 0..MaxEventsPerRun]
  OBVIOUS
<1>5. tasks \subseteq Tasks /\ ran \subseteq Claims
  OBVIOUS
<1>6. \A e \in Events : status[e] # "processing" => lockAge[e] = 0
  OBVIOUS
<1>7. LoopConsistent
  BY DEF LoopConsistent
<1>8. crashes \in 0..MaxCrashes /\ overruns \in 0..MaxOverruns /\ dbErrors \in 0..MaxDbErrors
  OBVIOUS
<1>9. disturbed \in BOOLEAN
  BY Zenon
<1> QED BY <1>1, <1>2, <1>3, <1>4, <1>5, <1>6, <1>7, <1>8, <1>9 DEF TypeOK

(* Removing a claim from a task leaves tasks.                               *)
LEMMA WithoutTyped ==
    ASSUME tasks \subseteq Tasks, NEW t \in tasks, NEW c \in t.claims
    PROVE  Without(t, c) \subseteq Tasks
BY DEF Without, Tasks

LEMMA AdvanceTyped ==
    ASSUME tasks \subseteq Tasks, NEW t \in tasks, NEW s \in Stages
    PROVE  AdvanceTo(t, s) \subseteq Tasks
BY DEF AdvanceTo, Tasks

LEMMA UnawaitedTyped ==
    ASSUME NEW w \in Workers, NEW rest \in SUBSET Tasks
    PROVE  Unawaited(w, rest) \subseteq Tasks
BY DEF Unawaited, Tasks

LEMMA StepTyped == TypeOK /\ LoopConsistent /\ [Next]_vars => TypeOK'
<1> SUFFICES ASSUME TypeOK, LoopConsistent, [Next]_vars PROVE TypeOK'
  OBVIOUS
<1> USE LimitsAssumption, BudgetAssumption
<1>1. ASSUME NEW e \in Events, Enqueue(e) PROVE TypeOK'
  BY <1>1 DEF Enqueue, TypeOK, Statuses, workerVars, faultVars
<1>2. ASSUME NEW w \in Workers, Claim(w) PROVE TypeOK'
  <2>1. PICK lag \in 0..ClaimLag :
          LET picked == FirstOf(EligibleRows(lag)) IN
           /\ picked # {}
           /\ status'   = [e \in Events |-> IF e \in picked THEN "processing" ELSE status[e]]
           /\ lockAge'  = [e \in Events |-> IF e \in picked THEN lag ELSE lockAge[e]]
           /\ attempts' = [e \in Events |-> attempts[e] + IF e \in picked THEN 1 ELSE 0]
           /\ tasks' = tasks \cup
                {FreshTask(w, {<<e, attempts[e] + 1>> : e \in g}) : g \in Groups(picked)}
    BY <1>2 DEF Claim
  <2> DEFINE picked == FirstOf(EligibleRows(lag))
  <2>2. picked \in SUBSET Events
    BY PickedAreRows
  <2>3. tasks' \subseteq Tasks
    <3>1. \A g \in Groups(picked) : FreshTask(w, {<<e, attempts[e] + 1>> : e \in g}) \in Tasks
      <4> SUFFICES ASSUME NEW g \in Groups(picked)
                   PROVE  FreshTask(w, {<<e, attempts[e] + 1>> : e \in g}) \in Tasks
        OBVIOUS
      <4>1. g \subseteq Events
        BY <2>2, GroupsAreRows
      <4>2. {<<e, attempts[e] + 1>> : e \in g} \subseteq Claims
        BY <4>1 DEF Claims, TypeOK
      <4> QED BY <4>2 DEF FreshTask, Tasks, Stages
    <3> QED BY <3>1, <2>1 DEF TypeOK
  <2>4. lockAge' \in [Events -> 0..(StaleAfter + ClaimLag)]
    BY <2>1, <2>2 DEF TypeOK
  <2>5. status' \in [Events -> Statuses] /\ attempts' \in [Events -> Nat]
    BY <2>1, <2>2 DEF TypeOK, Statuses
  <2>6. \A e \in Events : status'[e] # "processing" => lockAge'[e] = 0
    BY <2>1, <2>2 DEF TypeOK
  <2> QED BY <1>2, <2>3, <2>4, <2>5, <2>6 DEF Claim, TypeOK, faultVars
<1>3. ASSUME NEW w \in Workers, SeqRead(w) PROVE TypeOK'
  <2>1. PICK e \in Oldest(EligibleRows(0)) :
          reading' = [reading EXCEPT ![w] = [event |-> e, attempts |-> attempts[e], age |-> 0]]
    BY <1>3 DEF SeqRead
  <2>2. e \in Events
    BY PickedAreRows
  <2>3. reading' \in [Workers -> Readings \cup {None}]
    BY <2>1, <2>2 DEF TypeOK, Readings
  <2> QED BY <1>3, <2>3 DEF SeqRead, TypeOK, rowVars, faultVars
<1>4. ASSUME NEW w \in Workers, SeqIdle(w) PROVE TypeOK'
  BY <1>4 DEF SeqIdle, TypeOK, rowVars, faultVars
<1>5. ASSUME NEW w \in Workers, SeqClaim(w) PROVE TypeOK'
  <2> DEFINE r == reading[w]
  <2>1. r \in Readings
    BY <1>5 DEF SeqClaim, TypeOK
  <2>2. r.event \in Events /\ r.attempts \in Nat /\ r.age \in 0..ClaimLag
    BY <2>1 DEF Readings
  <2>3. tasks' \subseteq Tasks
    <3>1. {<<r.event, r.attempts + 1>>} \in SUBSET Claims
      BY <2>2 DEF Claims
    <3>2. FreshTask(w, {<<r.event, r.attempts + 1>>}) \in Tasks
      BY <3>1 DEF FreshTask, Tasks, Stages
    <3> QED BY <1>5, <3>2 DEF SeqClaim, TypeOK
  <2>4. left' \in [Workers -> 0..MaxEventsPerRun]
    BY <1>5 DEF SeqClaim, TypeOK, LoopConsistent
  <2>5. lockAge' \in [Events -> 0..(StaleAfter + ClaimLag)]
    BY <1>5, <2>2 DEF SeqClaim, TypeOK
  <2>6. status' \in [Events -> Statuses]
    BY <1>5, <2>2 DEF SeqClaim, TypeOK, Statuses
  <2>7. attempts' \in [Events -> Nat]
    BY <1>5, <2>2 DEF SeqClaim, TypeOK
  <2>8. \A e \in Events : status'[e] # "processing" => lockAge'[e] = 0
    BY <1>5, <2>2 DEF SeqClaim, TypeOK
  <2>9. reading' \in [Workers -> Readings \cup {None}]
    BY <1>5 DEF SeqClaim, TypeOK
  <2> QED BY <1>5, <2>3, <2>4, <2>5, <2>6, <2>7, <2>8, <2>9 DEF SeqClaim, TypeOK, faultVars
<1>6. ASSUME NEW w \in Workers, SeqLost(w) PROVE TypeOK'
  BY <1>6 DEF SeqLost, TypeOK, rowVars, faultVars
<1>7. ASSUME NEW t \in tasks, HandlerCompletes(t) \/ HandlerThrows(t) PROVE TypeOK'
  <2>1. tasks' \subseteq Tasks
    BY <1>7, AdvanceTyped DEF HandlerCompletes, HandlerThrows, TypeOK, Stages
  <2>2. t.claims \subseteq Claims
    BY DEF TypeOK, Tasks
  <2> QED BY <1>7, <2>1, <2>2 DEF HandlerCompletes, HandlerThrows, TypeOK, rowVars, faultVars
<1>8. ASSUME NEW t \in tasks, WriteDone(t)
      PROVE  /\ status' \in [Events -> Statuses]
             /\ lockAge' \in [Events -> 0..(StaleAfter + ClaimLag)]
             /\ \A e \in Events : status'[e] # "processing" => lockAge'[e] = 0
  BY <1>8 DEF WriteDone, TypeOK, Statuses
<1>9. ASSUME NEW t \in tasks, MarkDone(t) PROVE TypeOK'
  BY <1>8, <1>9 DEF MarkDone, TypeOK, faultVars, StillRunning
<1>10. ASSUME NEW t \in tasks, MarkDoneFails(t) PROVE TypeOK'
  <2>1. tasks' \subseteq Tasks
    BY <1>10, AdvanceTyped DEF MarkDoneFails, TypeOK, Stages
  <2>2. CASE UNCHANGED <<status, lockAge, disturbed>>
    BY <1>10, <2>1, <2>2 DEF MarkDoneFails, TypeOK
  <2>3. CASE WriteDone(t) /\ disturbed' = TRUE
    BY <1>8, <1>10, <2>1, <2>3 DEF MarkDoneFails, TypeOK
  <2> QED BY <1>10, <2>2, <2>3 DEF MarkDoneFails
<1>11. ASSUME NEW t \in tasks, NEW c \in t.claims, ReportFailure(t, c) PROVE TypeOK'
  <2>1. c[1] \in Events /\ c[2] \in Nat
    BY DEF TypeOK, Tasks, Claims
  <2>2. tasks' \subseteq Tasks
    BY <1>11, WithoutTyped DEF ReportFailure, TypeOK
  <2>3. avail' \in [Events -> Int]
    BY <1>11, <2>1 DEF ReportFailure, TypeOK, RetryDelay, LesserOf
  <2>4. running' \in [Workers -> BOOLEAN]
    <3>1. StillRunning(t.worker, Without(t, c)) \in BOOLEAN
      BY DEF StillRunning
    <3>2. running' = [running EXCEPT ![t.worker] = StillRunning(t.worker, Without(t, c))]
      BY <1>11 DEF ReportFailure
    <3>3. t.worker \in Workers /\ running \in [Workers -> BOOLEAN]
      BY DEF TypeOK, Tasks
    <3> QED BY <3>1, <3>2, <3>3, FlagTyped, Zenon
  <2>5. status' \in [Events -> Statuses] /\ lockAge' \in [Events -> 0..(StaleAfter + ClaimLag)]
    BY <1>11, <2>1 DEF ReportFailure, TypeOK, Statuses, Exhausted
  <2>6. \A e \in Events : status'[e] # "processing" => lockAge'[e] = 0
    BY <1>11, <2>1 DEF ReportFailure, TypeOK, Statuses, Exhausted
  <2> QED BY <1>11, <2>2, <2>3, <2>4, <2>5, <2>6 DEF ReportFailure, TypeOK, faultVars
<1>12. ASSUME NEW t \in tasks, NEW c \in t.claims, ReportLost(t, c) PROVE TypeOK'
  <2>1. PICK rest \in {Without(t, c),
                    {u \in Without(t, c) : u.worker = t.worker => u.stage # "queued"}} :
          tasks' = IF t.awaited THEN Unawaited(t.worker, rest) ELSE rest
    BY <1>12 DEF ReportLost
  <2>2. rest \in SUBSET Tasks /\ t.worker \in Workers
    BY WithoutTyped DEF TypeOK, Tasks
  <2>3. tasks' \subseteq Tasks
    BY <2>1, <2>2, UnawaitedTyped
  <2>4. running' \in [Workers -> BOOLEAN]
    <3> DEFINE still == running[t.worker] /\ ~t.awaited
    <3>1. still \in BOOLEAN
      OBVIOUS
    <3>2. running' = [running EXCEPT ![t.worker] = still]
      BY <1>12 DEF ReportLost
    <3> HIDE DEF still
    <3>3. t.worker \in Workers /\ running \in [Workers -> BOOLEAN]
      BY DEF TypeOK, Tasks
    <3> QED BY <3>1, <3>2, <3>3, FlagTyped, Zenon
  <2>5. left' \in [Workers -> 0..MaxEventsPerRun]
    <3>1. left' = [left EXCEPT ![t.worker] = IF t.awaited THEN 0 ELSE left[t.worker]]
      BY <1>12 DEF ReportLost
    <3>2. t.worker \in Workers /\ left \in [Workers -> 0..MaxEventsPerRun]
      BY DEF TypeOK, Tasks
    <3>3. CASE t.awaited
      BY <3>1, <3>2, <3>3
    <3>4. CASE ~t.awaited
      BY <3>1, <3>2, <3>4
    <3> QED BY <3>3, <3>4
  <2>6. dbErrors' \in 0..MaxDbErrors
    BY <1>12 DEF ReportLost, TypeOK
  <2> QED BY <1>12, <2>3, <2>4, <2>5, <2>6 DEF ReportLost, TypeOK, rowVars
<1>13. ASSUME NEW w \in Workers, Crash(w) PROVE TypeOK'
  BY <1>13 DEF Crash, TypeOK, rowVars
<1>14. ASSUME Tick PROVE TypeOK'
  <2>1. avail' \in [Events -> Int]
    BY <1>14 DEF Tick, TypeOK, GreaterOf
  <2>2. lockAge' \in [Events -> 0..(StaleAfter + ClaimLag)]
    BY <1>14 DEF Tick, TypeOK, LesserOf
  <2>3. reading' \in [Workers -> Readings \cup {None}]
    BY <1>14 DEF Tick, TypeOK, Readings
  <2>4. overruns' \in 0..MaxOverruns /\ disturbed' \in BOOLEAN
    BY <1>14 DEF Tick, TypeOK
  <2> QED BY <1>14, <2>1, <2>2, <2>3, <2>4 DEF Tick, TypeOK
<1>15. CASE UNCHANGED vars
  BY <1>15 DEF vars, rowVars, workerVars, faultVars, TypeOK
<1> QED
  BY <1>1, <1>2, <1>3, <1>4, <1>5, <1>6, <1>7, <1>9, <1>10, <1>11, <1>12, <1>13, <1>14, <1>15
     DEF Next, Fetch, Work, Fault
----------------------------------------------------------------------------
(* How a step that claims nothing changes the tasks.                        *)

(* The claims of the tasks in ts come from tasks of today that are no       *)
(* further on.                                                              *)
Narrows(ts) ==
    /\ Disjoint(ts)
    /\ \A x \in ts : \E u \in tasks :
         /\ x.claims \subseteq u.claims
         /\ x.stage \in {u.stage, "threw"}

LEMMA SubsetNarrows ==
    ASSUME Disjoint(tasks), NEW ts \in SUBSET tasks
    PROVE  Narrows(ts)
BY DEF Narrows, Disjoint

LEMMA AdvanceNarrows ==
    ASSUME tasks \subseteq Tasks, Disjoint(tasks), NEW t \in tasks
    PROVE  Narrows(AdvanceTo(t, "threw"))
<1> DEFINE a == [t EXCEPT !.stage = "threw"]
<1>1. a.claims = t.claims /\ a.stage = "threw"
  BY DEF Tasks
<1>2. AdvanceTo(t, "threw") = (tasks \ {t}) \cup {a}
  BY DEF AdvanceTo
<1> HIDE DEF a
<1>3. Disjoint(AdvanceTo(t, "threw"))
  BY <1>1, <1>2 DEF Disjoint
<1> QED BY <1>1, <1>2, <1>3 DEF Narrows

(* Besides, the claim that was removed is gone.                             *)
LEMMA WithoutNarrows ==
    ASSUME tasks \subseteq Tasks, Disjoint(tasks), NEW t \in tasks, NEW c \in t.claims
    PROVE  Narrows(Without(t, c)) /\ \A x \in Without(t, c) : c \notin x.claims
<1> DEFINE a == [t EXCEPT !.claims = t.claims \ {c}]
<1>1. a.claims = t.claims \ {c} /\ a.stage = t.stage
  BY DEF Tasks
<1>2. Without(t, c) \subseteq (tasks \ {t}) \cup {a}
  BY DEF Without
<1> HIDE DEF a
<1>3. Disjoint(Without(t, c))
  BY <1>1, <1>2 DEF Disjoint
<1>4. \A x \in Without(t, c) : c \notin x.claims
  BY <1>1, <1>2 DEF Disjoint
<1> QED BY <1>1, <1>2, <1>3, <1>4 DEF Narrows

LEMMA UnawaitedNarrows ==
    ASSUME tasks \subseteq Tasks, NEW rest \in SUBSET Tasks, Narrows(rest), NEW w
    PROVE  Narrows(Unawaited(w, rest))
<1> DEFINE f(u) == IF u.worker = w THEN [u EXCEPT !.awaited = FALSE] ELSE u
<1>1. \A u \in rest : f(u).claims = u.claims /\ f(u).stage = u.stage
  BY DEF Tasks
<1>2. \A x \in Unawaited(w, rest) : \E u \in rest : x = f(u)
  BY DEF Unawaited
<1> HIDE DEF f
<1>3. ASSUME NEW x \in Unawaited(w, rest), NEW y \in Unawaited(w, rest), x # y
      PROVE  x.claims \cap y.claims = {}
  <2>1. PICK u \in rest, v \in rest : x = f(u) /\ y = f(v)
    BY <1>2
  <2>2. u # v
    BY <1>3, <2>1
  <2> QED BY <1>1, <2>1, <2>2 DEF Narrows, Disjoint
<1>4. \A x \in Unawaited(w, rest) : \E u \in tasks :
        x.claims \subseteq u.claims /\ x.stage \in {u.stage, "threw"}
  BY <1>1, <1>2 DEF Narrows
<1> QED BY <1>3, <1>4 DEF Narrows, Disjoint

(* A step that releases claims and makes none.                              *)
Releases == Narrows(tasks') /\ UNCHANGED <<attempts, ran>>

LEMMA StepsRelease ==
    ASSUME TypeOK, ClaimsDistinct
    PROVE  /\ \A t \in tasks : MarkDone(t) \/ MarkDoneFails(t) => Releases
           /\ \A t \in tasks : \A c \in t.claims : ReportFailure(t, c) \/ ReportLost(t, c) => Releases
           /\ \A w \in Workers : Crash(w) => Releases
<1>1. tasks \subseteq Tasks /\ Disjoint(tasks)
  BY DEF TypeOK, ClaimsDistinct
<1>2. ASSUME NEW t \in tasks, MarkDone(t) PROVE Releases
  BY <1>1, <1>2, SubsetNarrows DEF MarkDone, Releases
<1>3. ASSUME NEW t \in tasks, MarkDoneFails(t) PROVE Releases
  BY <1>1, <1>3, AdvanceNarrows DEF MarkDoneFails, Releases
<1>4. ASSUME NEW t \in tasks, NEW c \in t.claims, ReportFailure(t, c) PROVE Releases
  BY <1>1, <1>4, WithoutNarrows DEF ReportFailure, Releases
<1>5. ASSUME NEW t \in tasks, NEW c \in t.claims, ReportLost(t, c) PROVE Releases
  <2>1. PICK rest \in {Without(t, c),
                    {u \in Without(t, c) : u.worker = t.worker => u.stage # "queued"}} :
          tasks' = IF t.awaited THEN Unawaited(t.worker, rest) ELSE rest
    BY <1>5 DEF ReportLost
  <2>2. rest \in SUBSET Tasks
    BY <1>1, WithoutTyped
  <2>3. Narrows(rest)
    BY <1>1, WithoutNarrows DEF Narrows, Disjoint
  <2>4. Narrows(Unawaited(t.worker, rest))
    BY <1>1, <2>2, <2>3, UnawaitedNarrows
  <2>5. UNCHANGED <<attempts, ran>>
    BY <1>5 DEF ReportLost, rowVars
  <2> QED BY <2>1, <2>3, <2>4, <2>5 DEF Releases
<1>6. ASSUME NEW w \in Workers, Crash(w) PROVE Releases
  BY <1>1, <1>6, SubsetNarrows DEF Crash, Releases, rowVars
<1> QED BY <1>2, <1>3, <1>4, <1>5, <1>6

LEMMA ReleaseKeeps ==
    ASSUME TypeOK, ClaimsDistinct, RanClaimed, Releases
    PROVE  ClaimsDistinct' /\ RanClaimed' /\ LiveClaims' \subseteq LiveClaims
<1>1. LiveClaims' \subseteq LiveClaims
  BY DEF Releases, Narrows, LiveClaims
<1>2. \A t \in tasks' : t.stage = "queued" => t.claims \cap ran = {}
  BY DEF Releases, Narrows, ClaimsDistinct
<1>3. \A t \in tasks' : t.stage = "handled" => t.claims \subseteq ran
  BY DEF Releases, Narrows, RanClaimed
<1>4. Disjoint(tasks')
  BY DEF Releases, Narrows
<1>5. \A c \in LiveClaims' : c[2] \in 1..attempts[c[1]]
  BY <1>1 DEF ClaimsDistinct
<1> QED BY <1>1, <1>2, <1>3, <1>4, <1>5 DEF Releases, ClaimsDistinct, RanClaimed, Disjoint
----------------------------------------------------------------------------
(* How a step that claims rows changes the tasks.                           *)

(* The new tasks are queued, and their claims carry the next number of a    *)
(* row that was picked.                                                     *)
ClaimsRows(rows, fresh) ==
    /\ rows \subseteq Events
    /\ attempts' = [e \in Events |-> attempts[e] + IF e \in rows THEN 1 ELSE 0]
    /\ status'   = [e \in Events |-> IF e \in rows THEN "processing" ELSE status[e]]
    /\ tasks' = tasks \cup fresh /\ ran' = ran
    /\ Disjoint(fresh)
    /\ \A x \in fresh : x.stage = "queued" /\ x.claims \subseteq {<<e, attempts'[e]>> : e \in rows}

LEMMA ClaimShape ==
    ASSUME TypeOK, NEW w \in Workers, Claim(w)
    PROVE  \E lag \in 0..ClaimLag : \E rows \in SUBSET Events : \E fresh :
             /\ \A e \in rows : Eligible(e, lag)
             /\ lockAge' = [e \in Events |-> IF e \in rows THEN lag ELSE lockAge[e]]
             /\ ClaimsRows(rows, fresh)
<1>1. PICK lag \in 0..ClaimLag :
        LET picked == FirstOf(EligibleRows(lag)) IN
         /\ picked # {}
         /\ status'   = [e \in Events |-> IF e \in picked THEN "processing" ELSE status[e]]
         /\ lockAge'  = [e \in Events |-> IF e \in picked THEN lag ELSE lockAge[e]]
         /\ attempts' = [e \in Events |-> attempts[e] + IF e \in picked THEN 1 ELSE 0]
         /\ tasks' = tasks \cup
              {FreshTask(w, {<<e, attempts[e] + 1>> : e \in g}) : g \in Groups(picked)}
  BY DEF Claim
<1> DEFINE picked == FirstOf(EligibleRows(lag))
           claimsOf(g) == {<<e, attempts[e] + 1>> : e \in g}
           fresh == {FreshTask(w, claimsOf(g)) : g \in Groups(picked)}
<1>2. picked \in SUBSET Events /\ \A e \in picked : Eligible(e, lag)
  BY PickedAreRows
<1>3. \A g \in Groups(picked) : g \subseteq picked
  BY <1>2, GroupsAreRows
<1>4. \A g, h \in Groups(picked) : g # h => claimsOf(g) \cap claimsOf(h) = {}
  <2> SUFFICES ASSUME NEW g \in Groups(picked), NEW h \in Groups(picked), g # h
               PROVE  claimsOf(g) \cap claimsOf(h) = {}
    OBVIOUS
  <2>1. g \cap h = {}
    BY <1>2, GroupsDisjoint
  <2> QED BY <2>1
<1>5. \A x \in fresh : \E g \in Groups(picked) : x = FreshTask(w, claimsOf(g))
  OBVIOUS
<1>6. Disjoint(fresh)
  <2> SUFFICES ASSUME NEW x \in fresh, NEW y \in fresh, x # y
               PROVE  x.claims \cap y.claims = {}
    BY DEF Disjoint
  <2>1. PICK g \in Groups(picked), h \in Groups(picked) :
          x = FreshTask(w, claimsOf(g)) /\ y = FreshTask(w, claimsOf(h))
    BY <1>5
  <2>2. g # h
    BY <2>1
  <2>3. x.claims = claimsOf(g) /\ y.claims = claimsOf(h)
    BY <2>1 DEF FreshTask
  <2> QED BY <1>4, <2>2, <2>3
<1>7. \A x \in fresh : x.stage = "queued" /\ x.claims \subseteq {<<e, attempts'[e]>> : e \in picked}
  <2> SUFFICES ASSUME NEW x \in fresh
               PROVE  x.stage = "queued" /\ x.claims \subseteq {<<e, attempts'[e]>> : e \in picked}
    OBVIOUS
  <2>1. PICK g \in Groups(picked) : x = FreshTask(w, claimsOf(g))
    BY <1>5
  <2>2. x.stage = "queued" /\ x.claims = claimsOf(g)
    BY <2>1 DEF FreshTask
  <2>3. \A e \in g : <<e, attempts[e] + 1>> = <<e, attempts'[e]>> /\ e \in picked
    BY <1>1, <1>2, <1>3
  <2> QED BY <2>2, <2>3
<1>8. ran' = ran
  BY DEF Claim
<1>9. ClaimsRows(picked, fresh)
  BY <1>1, <1>2, <1>6, <1>7, <1>8 DEF ClaimsRows
<1> QED BY <1>1, <1>2, <1>9

LEMMA SeqClaimShape ==
    ASSUME TypeOK, LoopConsistent, ReadCurrent, NEW w \in Workers, SeqClaim(w)
    PROVE  LET r == reading[w] IN
             /\ r.event \in Events /\ r.age \in 0..ClaimLag
             /\ Eligible(r.event, r.age) /\ attempts[r.event] = r.attempts
             /\ ClaimsRows({r.event}, {FreshTask(w, {<<r.event, r.attempts + 1>>})})
<1> DEFINE r == reading[w]
<1>1. r \in Readings
  BY DEF SeqClaim, TypeOK
<1>2. r.event \in Events /\ r.attempts \in Nat /\ r.age \in 0..ClaimLag
  BY <1>1 DEF Readings
<1>3. Eligible(r.event, r.age)
  BY DEF SeqClaim
<1>4. attempts[r.event] = r.attempts
  BY <1>2, <1>3, LimitsAssumption DEF ReadCurrent, Eligible, SeqClaim, TypeOK
<1>5. attempts' = [e \in Events |-> attempts[e] + IF e \in {r.event} THEN 1 ELSE 0]
  <2>1. attempts' = [attempts EXCEPT ![r.event] = attempts[r.event] + 1]
    BY DEF SeqClaim
  <2>2. attempts \in [Events -> Nat]
    BY DEF TypeOK
  <2> HIDE DEF r
  <2>3. ASSUME NEW e \in Events
        PROVE  attempts'[e] = attempts[e] + IF e \in {r.event} THEN 1 ELSE 0
    BY <2>1, <2>2
  <2> QED BY <2>1, <2>2, <2>3
<1>6. status' = [e \in Events |-> IF e \in {r.event} THEN "processing" ELSE status[e]]
  <2>1. status' = [status EXCEPT ![r.event] = "processing"] /\ status \in [Events -> Statuses]
    BY DEF SeqClaim, TypeOK
  <2> HIDE DEF r
  <2> QED BY <2>1
<1>7. attempts'[r.event] = r.attempts + 1
  BY <1>2, <1>4, <1>5
<1> DEFINE x == FreshTask(w, {<<r.event, r.attempts + 1>>})
<1>8. x.stage = "queued" /\ x.claims = {<<r.event, r.attempts + 1>>}
  BY DEF FreshTask
<1>9. Disjoint({x})
  BY DEF Disjoint
<1>10. tasks' = tasks \cup {x} /\ ran' = ran
  BY DEF SeqClaim
<1> HIDE DEF x
<1>11. ClaimsRows({r.event}, {x})
  BY <1>2, <1>5, <1>6, <1>7, <1>8, <1>9, <1>10 DEF ClaimsRows
<1> QED BY <1>2, <1>3, <1>4, <1>11 DEF x

LEMMA ClaimKeeps ==
    ASSUME TypeOK, ClaimsDistinct, RanClaimed, NEW rows, NEW fresh, ClaimsRows(rows, fresh)
    PROVE  /\ ClaimsDistinct' /\ RanClaimed'
           /\ \A c \in LiveClaims' : c \in LiveClaims \/ (c[1] \in rows /\ c[2] = attempts'[c[1]])
<1>1. \A e \in Events : attempts'[e] \in Nat /\ attempts[e] \in Nat /\ attempts'[e] >= attempts[e]
  BY DEF ClaimsRows, TypeOK
<1>2. \A e \in rows : e \in Events /\ attempts'[e] = attempts[e] + 1
  BY DEF ClaimsRows, TypeOK
<1>3. ASSUME NEW x \in fresh, NEW c \in x.claims
      PROVE  c[1] \in rows /\ c[2] = attempts'[c[1]] /\ c[2] > attempts[c[1]]
  <2>1. PICK e \in rows : c = <<e, attempts'[e]>>
    BY DEF ClaimsRows
  <2> QED BY <1>1, <1>2, <2>1
<1>4. \A t \in tasks : \A c \in t.claims : c[1] \in Events /\ c[2] \in 1..attempts[c[1]]
  BY DEF ClaimsDistinct, LiveClaims, TypeOK, Tasks, Claims
<1>5. \A c \in ran : c[1] \in Events /\ c[2] \in 1..attempts[c[1]]
  BY DEF RanClaimed, TypeOK, Claims
<1>6. Disjoint(tasks')
  <2>1. \A x \in fresh, t \in tasks : x.claims \cap t.claims = {}
    BY <1>1, <1>2, <1>3, <1>4
  <2> QED BY <2>1 DEF ClaimsDistinct, ClaimsRows, Disjoint
<1>7. \A c \in LiveClaims' : c \in LiveClaims \/ (c[1] \in rows /\ c[2] = attempts'[c[1]])
  BY <1>3 DEF LiveClaims, ClaimsRows
<1>8. \A c \in LiveClaims' : c[2] \in 1..attempts'[c[1]]
  <2> SUFFICES ASSUME NEW c \in LiveClaims' PROVE c[2] \in 1..attempts'[c[1]]
    OBVIOUS
  <2>1. CASE c \in LiveClaims
    BY <1>1, <1>4, <2>1 DEF LiveClaims
  <2>2. CASE c[1] \in rows /\ c[2] = attempts'[c[1]]
    BY <1>1, <1>2, <2>2
  <2> QED BY <1>7, <2>1, <2>2
<1>9. \A t \in tasks' : t.stage = "queued" => t.claims \cap ran = {}
  <2>1. \A x \in fresh : x.claims \cap ran = {}
    BY <1>1, <1>2, <1>3, <1>5
  <2> QED BY <2>1 DEF ClaimsRows, ClaimsDistinct
<1>10. \A t \in tasks' : t.stage = "handled" => t.claims \subseteq ran
  BY DEF ClaimsRows, RanClaimed
<1>11. \A c \in ran : c[2] \in 1..attempts'[c[1]]
  BY <1>1, <1>5
<1>12. ran' = ran
  BY DEF ClaimsRows
<1> QED BY <1>6, <1>7, <1>8, <1>9, <1>10, <1>11, <1>12 DEF ClaimsDistinct, RanClaimed, Disjoint
----------------------------------------------------------------------------
(* The inductive invariant.                                                 *)

LEMMA StepLoopConsistent == IInv /\ [Next]_vars => LoopConsistent'
<1> SUFFICES ASSUME TypeOK, LoopConsistent, [Next]_vars PROVE LoopConsistent'
  BY DEF IInv
<1> USE DEF LoopConsistent, TasksOf
<1>1. ASSUME NEW e \in Events, Enqueue(e) PROVE LoopConsistent'
  BY <1>1 DEF Enqueue, workerVars
<1>2. ASSUME NEW w \in Workers, Claim(w) PROVE LoopConsistent'
  BY <1>2 DEF Claim, TypeOK, Tasks, FreshTask
<1>3. ASSUME NEW w \in Workers, SeqRead(w) PROVE LoopConsistent'
  <2>1. PICK e \in Oldest(EligibleRows(0)) :
          reading' = [reading EXCEPT ![w] = [event |-> e, attempts |-> attempts[e], age |-> 0]]
    BY <1>3 DEF SeqRead
  <2>2. ASSUME NEW v \in Workers, v # w, reading'[v] # None
        PROVE  v \notin BatchWorkers /\ running'[v] /\ left'[v] > 0 /\ \A t \in tasks' : t.worker = v => ~t.awaited
    BY <1>3, <2>1, <2>2 DEF SeqRead, TypeOK
  <2>3. w \notin BatchWorkers /\ running'[w] /\ left'[w] > 0
    BY <1>3, LimitsAssumption DEF SeqRead, AtLoopHead, TypeOK
  <2>4. \A t \in tasks : t.worker = w => ~t.awaited
    BY <1>3 DEF SeqRead, AtLoopHead, TypeOK
  <2>5. \A t \in tasks' : t.awaited => running'[t.worker]
    BY <1>3, <2>4 DEF SeqRead, TypeOK, Tasks
  <2> QED BY <1>3, <2>2, <2>3, <2>4, <2>5 DEF SeqRead
<1>4. ASSUME NEW w \in Workers, SeqIdle(w) PROVE LoopConsistent'
  BY <1>4 DEF SeqIdle, AtLoopHead, TypeOK, Tasks
<1>5. ASSUME NEW w \in Workers, SeqClaim(w) PROVE LoopConsistent'
  BY <1>5 DEF SeqClaim, TypeOK, FreshTask
<1>6. ASSUME NEW w \in Workers, SeqLost(w) PROVE LoopConsistent'
  BY <1>6 DEF SeqLost, TypeOK, Tasks
<1>7. ASSUME NEW t \in tasks, NEW s \in Stages, tasks' = AdvanceTo(t, s),
             UNCHANGED <<running, left, reading>>
      PROVE  LoopConsistent'
  BY <1>7 DEF AdvanceTo, TypeOK, Tasks
<1>8. ASSUME NEW t \in tasks, MarkDone(t) PROVE LoopConsistent'
  BY <1>8 DEF MarkDone, TypeOK, Tasks, StillRunning
<1>9. ASSUME NEW t \in tasks, NEW c \in t.claims, ReportFailure(t, c) PROVE LoopConsistent'
  BY <1>9 DEF ReportFailure, Without, TypeOK, Tasks, StillRunning
<1>10. ASSUME NEW t \in tasks, NEW c \in t.claims, ReportLost(t, c) PROVE LoopConsistent'
  BY <1>10 DEF ReportLost, Without, Unawaited, TypeOK, Tasks
<1>11. ASSUME NEW w \in Workers, Crash(w) PROVE LoopConsistent'
  BY <1>11 DEF Crash, TypeOK, Tasks
<1>12. CASE Tick
  BY <1>12 DEF Tick
<1>13. CASE UNCHANGED vars
  BY <1>13 DEF vars, workerVars
<1>14. ASSUME NEW t \in tasks, HandlerCompletes(t) \/ HandlerThrows(t) \/ MarkDoneFails(t)
       PROVE  LoopConsistent'
  BY <1>7, <1>14 DEF HandlerCompletes, HandlerThrows, MarkDoneFails, Stages
<1> QED
  BY <1>1, <1>2, <1>3, <1>4, <1>5, <1>6, <1>8, <1>9, <1>10, <1>11, <1>12, <1>13, <1>14
     DEF Next, Fetch, Work, Fault

LEMMA StepReadCurrent == IInv /\ [Next]_vars => ReadCurrent'
<1> SUFFICES ASSUME IInv, [Next]_vars,
                    NEW w \in Workers, reading'[w] # None
             PROVE  LET r == reading'[w] IN
                      /\ status'[r.event] # "absent" /\ r.attempts <= attempts'[r.event]
                      /\ r.attempts # attempts'[r.event] =>
                           /\ status'[r.event] = "pending" => avail'[r.event] > -r.age
                           /\ status'[r.event] = "processing" => lockAge'[r.event] < StaleAfter + r.age
  BY DEF ReadCurrent
<1> DEFINE r == reading'[w]
           Good == /\ status'[r.event] # "absent" /\ r.attempts <= attempts'[r.event]
                   /\ r.attempts # attempts'[r.event] =>
                        /\ status'[r.event] = "pending" => avail'[r.event] > -r.age
                        /\ status'[r.event] = "processing" => lockAge'[r.event] < StaleAfter + r.age
<1> USE LimitsAssumption
<1>0. TypeOK /\ LoopConsistent /\ ReadCurrent
  BY DEF IInv
<1>a. TypeOK'
  BY <1>0, StepTyped
<1>b. r \in Readings
  BY <1>a DEF TypeOK
<1>c. r.event \in Events /\ r.attempts \in Nat /\ r.age \in 0..ClaimLag
  BY <1>b DEF Readings
(* What the row and the read looked like before the step.                   *)
<1>d. ASSUME reading[w] = r
      PROVE  /\ status[r.event] # "absent" /\ r.attempts <= attempts[r.event]
             /\ r.attempts # attempts[r.event] =>
                  /\ status[r.event] = "pending" => avail[r.event] > -r.age
                  /\ status[r.event] = "processing" => lockAge[r.event] < StaleAfter + r.age
  BY <1>0, <1>d DEF ReadCurrent
<1> HIDE DEF r
<1>1. ASSUME NEW e \in Events, Enqueue(e) PROVE Good
  BY <1>0, <1>1, <1>c, <1>d DEF Enqueue, workerVars, TypeOK, r
<1>2. ASSUME NEW v \in Workers, Claim(v) PROVE Good
  <2>1. PICK lag \in 0..ClaimLag :
          /\ status' = [e \in Events |->
                IF e \in FirstOf(EligibleRows(lag)) THEN "processing" ELSE status[e]]
          /\ lockAge' = [e \in Events |->
                IF e \in FirstOf(EligibleRows(lag)) THEN lag ELSE lockAge[e]]
          /\ attempts' = [e \in Events |->
                attempts[e] + IF e \in FirstOf(EligibleRows(lag)) THEN 1 ELSE 0]
    BY <1>2 DEF Claim
  <2>2. reading[w] = r /\ avail' = avail
    BY <1>2 DEF Claim, r
  <2>3. CASE r.event \in FirstOf(EligibleRows(lag))
    <3>1. /\ status'[r.event] = "processing" /\ lockAge'[r.event] = lag
          /\ attempts'[r.event] = attempts[r.event] + 1
      BY <2>1, <2>3, <1>c
    <3> QED BY <3>1, <2>2, <1>c, <1>d, <1>0 DEF TypeOK
  <2>4. CASE r.event \notin FirstOf(EligibleRows(lag))
    <3>1. /\ status'[r.event] = status[r.event] /\ lockAge'[r.event] = lockAge[r.event]
          /\ attempts'[r.event] = attempts[r.event]
      BY <2>1, <2>4, <1>c, <1>0 DEF TypeOK
    <3> QED BY <3>1, <2>2, <1>c, <1>d
  <2> QED BY <2>3, <2>4
<1>3. ASSUME NEW v \in Workers, SeqRead(v) PROVE Good
  <2>1. PICK e \in Oldest(EligibleRows(0)) :
          reading' = [reading EXCEPT ![v] = [event |-> e, attempts |-> attempts[e], age |-> 0]]
    BY <1>3 DEF SeqRead
  <2>2. e \in Events /\ Eligible(e, 0)
    BY PickedAreRows
  <2>3. CASE v = w
    BY <1>0, <1>3, <2>1, <2>2, <2>3 DEF SeqRead, rowVars, Eligible, TypeOK, r
  <2>4. CASE v # w
    BY <1>0, <1>3, <1>c, <1>d, <2>1, <2>4 DEF SeqRead, rowVars, TypeOK, r
  <2> QED BY <2>3, <2>4
<1>4. ASSUME NEW v \in Workers, SeqIdle(v) PROVE Good
  BY <1>4, <1>d DEF SeqIdle, rowVars, r
<1>5. ASSUME NEW v \in Workers, SeqClaim(v) PROVE Good
  <2>1. v # w /\ reading[w] = r
    BY <1>0, <1>5 DEF SeqClaim, TypeOK, r
  <2> DEFINE q == reading[v]
  <2>2. q.event \in Events /\ q.age \in 0..ClaimLag
    BY <1>0, <1>5, SeqClaimShape
  <2>3. CASE q.event = r.event
    BY <1>0, <1>5, <1>c, <1>d, <2>1, <2>2, <2>3 DEF SeqClaim, TypeOK
  <2>4. CASE q.event # r.event
    BY <1>0, <1>5, <1>c, <1>d, <2>1, <2>2, <2>4 DEF SeqClaim, TypeOK
  <2> QED BY <2>3, <2>4
<1>6. ASSUME NEW v \in Workers, SeqLost(v) PROVE Good
  BY <1>0, <1>6, <1>c, <1>d DEF SeqLost, rowVars, TypeOK, r
<1>7. ASSUME UNCHANGED <<status, attempts, avail, lockAge, reading>> PROVE Good
  BY <1>7, <1>d DEF r
<1>8. ASSUME NEW t \in tasks, WriteDone(t), UNCHANGED <<attempts, avail, reading>> PROVE Good
  BY <1>8, <1>c, <1>d DEF WriteDone, r
<1>9. ASSUME NEW t \in tasks, NEW c \in t.claims, ReportFailure(t, c) PROVE Good
  <2>1. c[1] \in Events /\ c[2] \in Nat \ {0}
    <3>1. c \in Claims /\ c \in LiveClaims
      BY <1>0 DEF TypeOK, Tasks, LiveClaims
    <3>2. c[2] \in 1..attempts[c[1]] /\ attempts[c[1]] \in Nat
      BY <1>0, <3>1 DEF IInv, ClaimsDistinct, TypeOK, Claims
    <3> QED BY <3>1, <3>2 DEF Claims
  <2>2. RetryDelay(c[2]) \in Nat \ {0}
    <3>1. c[2] * RetryStep \in Nat \ {0}
      BY <2>1
    <3> QED BY <3>1 DEF RetryDelay, LesserOf
  <2>3. reading[w] = r
    BY <1>9 DEF ReportFailure, r
  <2>4. CASE c[1] = r.event
    <3>1. CASE Exhausted(c[2])
      BY <1>0, <1>9, <1>c, <1>d, <2>3, <2>4, <3>1 DEF ReportFailure, TypeOK
    <3>2. CASE ~Exhausted(c[2])
      BY <1>0, <1>9, <1>c, <1>d, <2>2, <2>3, <2>4, <3>2 DEF ReportFailure, TypeOK
    <3> QED BY <3>1, <3>2
  <2>5. CASE c[1] # r.event
    BY <1>0, <1>9, <1>c, <1>d, <2>3, <2>5 DEF ReportFailure, TypeOK
  <2> QED BY <2>4, <2>5
<1>10. ASSUME NEW v \in Workers, Crash(v) PROVE Good
  BY <1>0, <1>10, <1>c, <1>d DEF Crash, rowVars, TypeOK, r
<1>11. ASSUME Tick PROVE Good
  <2>1. reading[w] # None /\ r = [reading[w] EXCEPT !.age = reading[w].age + 1]
    BY <1>11 DEF Tick, r
  <2> DEFINE q == reading[w]
  <2>2. q \in Readings
    BY <1>0, <2>1 DEF TypeOK
  <2>3. r.event = q.event /\ r.attempts = q.attempts /\ r.age = q.age + 1 /\ q.age \in Nat
    BY <2>1, <2>2 DEF Readings
  <2>4. /\ status[r.event] # "absent" /\ r.attempts <= attempts[r.event]
        /\ r.attempts # attempts[r.event] =>
             /\ status[r.event] = "pending" => avail[r.event] > -q.age
             /\ status[r.event] = "processing" => lockAge[r.event] < StaleAfter + q.age
    BY <1>0, <2>1, <2>3 DEF ReadCurrent
  <2>5. /\ avail[r.event] \in Int /\ lockAge[r.event] \in Nat
        /\ avail'[r.event] = GreaterOf(avail[r.event] - 1, -ClaimLag)
        /\ lockAge'[r.event] = IF status[r.event] = "processing"
             THEN LesserOf(lockAge[r.event] + 1, StaleAfter + ClaimLag) ELSE lockAge[r.event]
        /\ UNCHANGED <<status, attempts>>
    BY <1>0, <1>11, <1>c DEF Tick, TypeOK
  <2> HIDE DEF q
  <2>6. r.attempts # attempts[r.event] /\ status[r.event] = "pending" => avail'[r.event] > -r.age
    BY <1>c, <2>3, <2>4, <2>5 DEF GreaterOf
  <2>7. r.attempts # attempts[r.event] /\ status[r.event] = "processing"
          => lockAge'[r.event] < StaleAfter + r.age
    BY <1>c, <2>3, <2>4, <2>5 DEF LesserOf
  <2> QED BY <2>4, <2>5, <2>6, <2>7
<1>12. ASSUME UNCHANGED vars PROVE Good
  BY <1>7, <1>12 DEF vars, rowVars, workerVars
<1>13. ASSUME NEW t \in tasks,
              HandlerCompletes(t) \/ HandlerThrows(t) \/ MarkDone(t) \/ MarkDoneFails(t)
       PROVE  Good
  BY <1>7, <1>8, <1>13 DEF HandlerCompletes, HandlerThrows, MarkDone, MarkDoneFails, rowVars
<1>14. ASSUME NEW t \in tasks, NEW c \in t.claims, ReportLost(t, c) PROVE Good
  BY <1>7, <1>14 DEF ReportLost, rowVars
<1>15. Good
  BY <1>1, <1>2, <1>3, <1>4, <1>5, <1>6, <1>9, <1>10, <1>11, <1>12, <1>13, <1>14
     DEF Next, Fetch, Work, Fault
<1> QED BY <1>15 DEF r

(* Claims stay distinct, and effects stay with claims that were made.       *)
LEMMA StepClaims == IInv /\ [Next]_vars => ClaimsDistinct' /\ RanClaimed'
<1> SUFFICES ASSUME IInv, [Next]_vars PROVE ClaimsDistinct' /\ RanClaimed'
  OBVIOUS
<1>0. TypeOK /\ LoopConsistent /\ ReadCurrent /\ ClaimsDistinct /\ RanClaimed
  BY DEF IInv
<1>1. ASSUME UNCHANGED <<attempts, tasks, ran>> PROVE ClaimsDistinct' /\ RanClaimed'
  BY <1>0, <1>1 DEF ClaimsDistinct, RanClaimed, LiveClaims, Disjoint
<1>2. ASSUME NEW w \in Workers, Claim(w) PROVE ClaimsDistinct' /\ RanClaimed'
  BY <1>0, <1>2, ClaimShape, ClaimKeeps
<1>3. ASSUME NEW w \in Workers, SeqClaim(w) PROVE ClaimsDistinct' /\ RanClaimed'
  BY <1>0, <1>3, SeqClaimShape, ClaimKeeps
<1>4. ASSUME Releases PROVE ClaimsDistinct' /\ RanClaimed'
  BY <1>0, <1>4, ReleaseKeeps
<1>5. ASSUME NEW t \in tasks, HandlerCompletes(t) \/ HandlerThrows(t)
      PROVE  ClaimsDistinct' /\ RanClaimed'
  <2>1. PICK s \in {"handled", "threw"} :
          /\ tasks' = AdvanceTo(t, s) /\ attempts' = attempts
          /\ ran' \in {ran, ran \cup t.claims}
          /\ s = "handled" => ran' = ran \cup t.claims
    BY <1>5 DEF HandlerCompletes, HandlerThrows, rowVars
  <2> DEFINE a == [t EXCEPT !.stage = s]
  <2>2. a.claims = t.claims /\ a.stage = s /\ tasks' = (tasks \ {t}) \cup {a}
    BY <1>0, <2>1 DEF AdvanceTo, TypeOK, Tasks
  <2> HIDE DEF a
  <2>3. Disjoint(tasks')
    BY <1>0, <2>2 DEF ClaimsDistinct, Disjoint
  <2>4. LiveClaims' \subseteq LiveClaims
    BY <2>2 DEF LiveClaims
  <2>5. \A u \in tasks' : u.stage = "queued" => u.claims \cap ran' = {}
    <3> SUFFICES ASSUME NEW u \in tasks', u.stage = "queued" PROVE u.claims \cap ran' = {}
      OBVIOUS
    <3>1. u \in tasks /\ u # t
      BY <2>1, <2>2
    <3>2. u.claims \cap t.claims = {} /\ u.claims \cap ran = {}
      BY <1>0, <3>1 DEF ClaimsDistinct, Disjoint
    <3> QED BY <2>1, <3>2
  <2>6. \A u \in tasks' : u.stage = "handled" => u.claims \subseteq ran'
    BY <1>0, <2>1, <2>2 DEF RanClaimed
  <2>7. \A c \in ran' : c[2] \in 1..attempts[c[1]]
    <3>1. t.claims \subseteq LiveClaims
      BY DEF LiveClaims
    <3> QED BY <1>0, <2>1, <3>1 DEF RanClaimed, ClaimsDistinct
  <2> QED BY <1>0, <2>1, <2>3, <2>4, <2>5, <2>6, <2>7 DEF ClaimsDistinct, RanClaimed, Disjoint
<1>6. ASSUME NEW w \in Workers, SeqRead(w) \/ SeqIdle(w) \/ SeqLost(w)
      PROVE  UNCHANGED <<attempts, tasks, ran>>
  BY <1>6 DEF SeqRead, SeqIdle, SeqLost, rowVars
<1>7. ASSUME (\E e \in Events : Enqueue(e)) \/ Tick \/ UNCHANGED vars
      PROVE  UNCHANGED <<attempts, tasks, ran>>
  BY <1>7 DEF Enqueue, Tick, vars, rowVars, workerVars
<1> QED
  BY <1>0, <1>1, <1>2, <1>3, <1>4, <1>5, <1>6, <1>7, StepsRelease DEF Next, Fetch, Work, Fault

(* Without disturbance every live claim keeps its row.                      *)
LEMMA StepLeaseHeld == IInv /\ [Next]_vars => LeaseHeld'
<1> SUFFICES ASSUME IInv, [Next]_vars, ~disturbed', NEW c \in LiveClaims'
             PROVE  status'[c[1]] = "processing" /\ attempts'[c[1]] = c[2] /\ lockAge'[c[1]] < StaleAfter
  BY DEF LeaseHeld
<1> DEFINE Held == status'[c[1]] = "processing" /\ attempts'[c[1]] = c[2] /\ lockAge'[c[1]] < StaleAfter
<1> USE LimitsAssumption
<1>0. TypeOK /\ LoopConsistent /\ ReadCurrent /\ ClaimsDistinct /\ RanClaimed /\ LeaseHeld
  BY DEF IInv
<1>a. TypeOK' /\ c[1] \in Events
  <2>1. TypeOK'
    BY <1>0, StepTyped
  <2> QED BY <2>1 DEF LiveClaims, TypeOK, Tasks, Claims
<1>b. ASSUME c \in LiveClaims, ~disturbed
      PROVE  status[c[1]] = "processing" /\ attempts[c[1]] = c[2] /\ lockAge[c[1]] < StaleAfter
  BY <1>0, <1>b DEF LeaseHeld
(* Under a held lease no other live claim is on the row.                    *)
<1>c. ASSUME ~disturbed, c \in LiveClaims, NEW d \in LiveClaims, d[1] = c[1] PROVE d = c
  <2>1. attempts[c[1]] = c[2] /\ attempts[d[1]] = d[2]
    BY <1>0, <1>c DEF LeaseHeld
  <2>2. c \in Claims /\ d \in Claims
    BY <1>0, <1>c DEF LiveClaims, TypeOK, Tasks
  <2> QED BY <1>c, <2>1, <2>2 DEF Claims
<1>1. ASSUME NEW e \in Events, Enqueue(e) PROVE Held
  BY <1>0, <1>1, <1>a, <1>b DEF Enqueue, workerVars, faultVars, LiveClaims, TypeOK
<1>2. ASSUME NEW lag \in 0..ClaimLag, NEW rows \in SUBSET Events, NEW fresh,
             \A e \in rows : Eligible(e, lag), ClaimsRows(rows, fresh), ~disturbed,
             lockAge' = [e \in Events |-> IF e \in rows THEN lag ELSE lockAge[e]]
      PROVE  Held
  <2>1. c \in LiveClaims \/ (c[1] \in rows /\ c[2] = attempts'[c[1]])
    BY <1>0, <1>2, ClaimKeeps
  <2>2. CASE c[1] \in rows /\ c[2] = attempts'[c[1]]
    BY <1>2, <1>a, <2>2 DEF ClaimsRows
  <2>3. CASE c \in LiveClaims
    <3>1. c[1] \notin rows
      BY <1>0, <1>2, <1>a, <1>b, <2>3 DEF Eligible, TypeOK
    <3>2. attempts'[c[1]] = attempts[c[1]]
      BY <1>0, <1>2, <1>a, <3>1 DEF ClaimsRows, TypeOK
    <3> QED BY <1>2, <1>a, <1>b, <2>3, <3>1, <3>2 DEF ClaimsRows
  <2> QED BY <2>1, <2>2, <2>3
<1>3. ASSUME NEW w \in Workers, Claim(w) PROVE Held
  <2>1. ~disturbed
    BY <1>3 DEF Claim, faultVars
  <2> HIDE DEF Held
  <2> QED BY <1>0, <1>2, <1>3, <2>1, ClaimShape
<1>4. ASSUME NEW w \in Workers, SeqClaim(w) PROVE Held
  <2> DEFINE r == reading[w]
  <2>1. ~disturbed
    BY <1>4 DEF SeqClaim, faultVars
  <2>2. /\ r.event \in Events /\ r.age \in 0..ClaimLag /\ Eligible(r.event, r.age)
        /\ ClaimsRows({r.event}, {FreshTask(w, {<<r.event, r.attempts + 1>>})})
    BY <1>0, <1>4, SeqClaimShape
  <2>3. lockAge' = [e \in Events |-> IF e \in {r.event} THEN r.age ELSE lockAge[e]]
    <3>1. lockAge' = [lockAge EXCEPT ![r.event] = r.age] /\ lockAge \in [Events -> 0..(StaleAfter + ClaimLag)]
      BY <1>0, <1>4 DEF SeqClaim, TypeOK
    <3> HIDE DEF r
    <3> QED BY <3>1
  <2> HIDE DEF Held, r
  <2> QED BY <1>2, <2>1, <2>2, <2>3
<1>5. ASSUME ~disturbed, LiveClaims' \subseteq LiveClaims, UNCHANGED <<status, attempts, lockAge>>
      PROVE  Held
  BY <1>5, <1>b
<1>6. ASSUME NEW t \in tasks, MarkDone(t) PROVE Held
  <2>1. ~disturbed /\ c \in LiveClaims /\ attempts' = attempts
    BY <1>0, <1>6, StepsRelease, ReleaseKeeps DEF MarkDone, faultVars
  <2>2. ~Touches(t, c[1])
    <3> SUFFICES ASSUME NEW d \in t.claims, d[1] = c[1] PROVE FALSE
      BY DEF Touches
    <3>1. d \in LiveClaims
      BY DEF LiveClaims
    <3>2. c \in t.claims
      BY <1>c, <2>1, <3>1
    <3>3. PICK u \in tasks \ {t} : c \in u.claims
      BY <1>6 DEF MarkDone, LiveClaims
    <3> QED BY <1>0, <3>2, <3>3 DEF ClaimsDistinct, Disjoint
  <2> QED BY <1>6, <1>a, <1>b, <2>1, <2>2 DEF MarkDone, WriteDone
<1>7. ASSUME NEW t \in tasks, MarkDoneFails(t) PROVE Held
  <2>1. LiveClaims' \subseteq LiveClaims
    BY <1>0, <1>7, StepsRelease, ReleaseKeeps
  <2>2. UNCHANGED <<status, attempts, lockAge, disturbed>>
    BY <1>7 DEF MarkDoneFails
  <2> QED BY <1>5, <2>1, <2>2
<1>8. ASSUME NEW t \in tasks, NEW d \in t.claims, ReportFailure(t, d) PROVE Held
  <2>1. ~disturbed /\ c \in LiveClaims /\ attempts' = attempts
    BY <1>0, <1>8, StepsRelease, ReleaseKeeps DEF ReportFailure, faultVars
  <2>2. c # d
    BY <1>0, <1>8, WithoutNarrows DEF ReportFailure, LiveClaims, TypeOK, ClaimsDistinct
  <2>3. c[1] # d[1]
    BY <1>c, <2>1, <2>2 DEF LiveClaims
  <2> QED BY <1>0, <1>8, <1>a, <1>b, <2>1, <2>3 DEF ReportFailure, TypeOK
<1>9. ASSUME NEW t \in tasks, NEW d \in t.claims, ReportLost(t, d) PROVE Held
  <2>1. LiveClaims' \subseteq LiveClaims
    BY <1>0, <1>9, StepsRelease, ReleaseKeeps
  <2> QED BY <1>5, <1>9, <2>1 DEF ReportLost, rowVars
<1>10. ASSUME NEW w \in Workers, Crash(w) PROVE Held
  <2>1. LiveClaims' \subseteq LiveClaims
    BY <1>0, <1>10, StepsRelease, ReleaseKeeps
  <2> QED BY <1>5, <1>10, <2>1 DEF Crash, rowVars
<1>11. ASSUME Tick PROVE Held
  <2>1. ~disturbed /\ ~LeaseEnding /\ c \in LiveClaims /\ UNCHANGED <<status, attempts>>
    BY <1>11 DEF Tick, LiveClaims
  <2>2. lockAge[c[1]] # StaleAfter - 1
    BY <1>b, <2>1 DEF LeaseEnding
  <2>3. lockAge'[c[1]] = LesserOf(lockAge[c[1]] + 1, StaleAfter + ClaimLag)
    BY <1>11, <1>a, <1>b, <2>1 DEF Tick
  <2>4. lockAge[c[1]] \in Nat
    BY <1>0, <1>a DEF TypeOK
  <2> QED BY <1>b, <2>1, <2>2, <2>3, <2>4 DEF LesserOf
<1>12. ASSUME NEW t \in tasks, HandlerCompletes(t) \/ HandlerThrows(t) PROVE Held
  <2>1. LiveClaims' \subseteq LiveClaims
    <3>1. \A s \in Stages : \A x \in AdvanceTo(t, s) : \E u \in tasks : x.claims = u.claims
      BY <1>0 DEF AdvanceTo, TypeOK, Tasks
    <3> QED BY <1>12, <3>1 DEF HandlerCompletes, HandlerThrows, LiveClaims, Stages
  <2> QED BY <1>5, <1>12, <2>1 DEF HandlerCompletes, HandlerThrows, rowVars, faultVars
<1>13. ASSUME NEW w \in Workers, SeqRead(w) \/ SeqIdle(w) \/ SeqLost(w) PROVE Held
  BY <1>5, <1>13 DEF SeqRead, SeqIdle, SeqLost, rowVars, faultVars, LiveClaims
<1>14. ASSUME UNCHANGED vars PROVE Held
  BY <1>5, <1>14 DEF vars, rowVars, workerVars, faultVars, LiveClaims
<1>15. Held
  BY <1>1, <1>3, <1>4, <1>6, <1>7, <1>8, <1>9, <1>10, <1>11, <1>12, <1>13, <1>14
     DEF Next, Fetch, Work, Fault
<1> QED BY <1>15

(* Which steps settle rows, and what they know of them.                     *)
LEMMA StepRows ==
    IInv /\ [Next]_vars =>
      /\ ran \subseteq ran' /\ \A e \in Events : attempts'[e] >= attempts[e]
      /\ \A e \in Events : status'[e] # status[e] =>
           \/ status[e] = "absent" /\ status'[e] = "pending"
           \/ status[e] \in {"pending", "processing"} /\ status'[e] = "processing"
           \/ status'[e] = "done" /\ \E c \in LiveClaims : c[1] = e /\ c \in ran
           \/ \E c \in LiveClaims : /\ c[1] = e
                                    /\ status'[e] = "failed" => c[2] >= MaxAttempts
                                    /\ status'[e] \in {"failed", "pending"}
      /\ \A e \in Events : status[e] # "absent" => status'[e] # "absent"
      /\ \A e \in Events : status'[e] = "absent" => attempts'[e] = attempts[e]
<1> SUFFICES ASSUME IInv, [Next]_vars
    PROVE /\ ran \subseteq ran' /\ \A e \in Events : attempts'[e] >= attempts[e]
          /\ \A e \in Events :
               /\ status'[e] # status[e] =>
                    \/ status[e] = "absent" /\ status'[e] = "pending"
                    \/ status[e] \in {"pending", "processing"} /\ status'[e] = "processing"
                    \/ status'[e] = "done" /\ \E c \in LiveClaims : c[1] = e /\ c \in ran
                    \/ \E c \in LiveClaims : /\ c[1] = e
                                             /\ status'[e] = "failed" => c[2] >= MaxAttempts
                                             /\ status'[e] \in {"failed", "pending"}
               /\ status[e] # "absent" => status'[e] # "absent"
               /\ status'[e] = "absent" => attempts'[e] = attempts[e]
  OBVIOUS
<1> DEFINE Fine ==
          /\ ran \subseteq ran' /\ \A e \in Events : attempts'[e] >= attempts[e]
          /\ \A e \in Events :
               /\ status'[e] # status[e] =>
                    \/ status[e] = "absent" /\ status'[e] = "pending"
                    \/ status[e] \in {"pending", "processing"} /\ status'[e] = "processing"
                    \/ status'[e] = "done" /\ \E c \in LiveClaims : c[1] = e /\ c \in ran
                    \/ \E c \in LiveClaims : /\ c[1] = e
                                             /\ status'[e] = "failed" => c[2] >= MaxAttempts
                                             /\ status'[e] \in {"failed", "pending"}
               /\ status[e] # "absent" => status'[e] # "absent"
               /\ status'[e] = "absent" => attempts'[e] = attempts[e]
<1>0. TypeOK /\ LoopConsistent /\ ReadCurrent /\ ClaimsDistinct /\ RanClaimed
  BY DEF IInv
<1>1. ASSUME ran \subseteq ran', UNCHANGED <<status, attempts>> PROVE Fine
  BY <1>0, <1>1 DEF TypeOK
<1>2. ASSUME NEW e \in Events, Enqueue(e) PROVE Fine
  BY <1>0, <1>2 DEF Enqueue, TypeOK
<1>3. ASSUME NEW lag \in 0..ClaimLag, NEW rows \in SUBSET Events, NEW fresh,
             \A e \in rows : Eligible(e, lag), ClaimsRows(rows, fresh)
      PROVE  Fine
  BY <1>0, <1>3 DEF ClaimsRows, Eligible, TypeOK
<1>4. ASSUME NEW w \in Workers, Claim(w) PROVE Fine
  <2> HIDE DEF Fine
  <2> QED BY <1>0, <1>3, <1>4, ClaimShape
<1>5. ASSUME NEW w \in Workers, SeqClaim(w) PROVE Fine
  <2> DEFINE r == reading[w]
  <2>1. /\ r.event \in Events /\ r.age \in 0..ClaimLag /\ Eligible(r.event, r.age)
        /\ ClaimsRows({r.event}, {FreshTask(w, {<<r.event, r.attempts + 1>>})})
    BY <1>0, <1>5, SeqClaimShape
  <2> HIDE DEF Fine, r
  <2> QED BY <1>3, <2>1
<1>6. ASSUME NEW t \in tasks, t.stage = "handled", WriteDone(t), UNCHANGED <<attempts, ran>>
      PROVE  Fine
  <2>1. t.claims \subseteq LiveClaims /\ t.claims \subseteq ran
    BY <1>0, <1>6 DEF LiveClaims, RanClaimed
  <2>2. \A e \in Events : status'[e] # status[e] =>
          status'[e] = "done" /\ \E c \in LiveClaims : c[1] = e /\ c \in ran
    BY <1>6, <2>1 DEF WriteDone, Touches
  <2>3. \A e \in Events : status'[e] \in {status[e], "done"}
    BY <1>6 DEF WriteDone
  <2> QED BY <1>0, <1>6, <2>2, <2>3 DEF TypeOK
<1>7. ASSUME NEW t \in tasks, NEW c \in t.claims, ReportFailure(t, c) PROVE Fine
  <2>1. c \in LiveClaims
    BY DEF LiveClaims
  <2>2. status' = [status EXCEPT ![c[1]] = IF Exhausted(c[2]) THEN "failed" ELSE "pending"]
    BY <1>7 DEF ReportFailure
  <2>3. UNCHANGED <<attempts, ran>>
    BY <1>7 DEF ReportFailure
  <2>4. CASE Exhausted(c[2])
    BY <1>0, <2>1, <2>2, <2>3, <2>4 DEF Exhausted, TypeOK
  <2>5. CASE ~Exhausted(c[2])
    BY <1>0, <2>1, <2>2, <2>3, <2>5 DEF TypeOK
  <2> QED BY <2>4, <2>5
<1>8. ASSUME NEW t \in tasks, MarkDone(t) PROVE Fine
  BY <1>6, <1>8 DEF MarkDone
<1>9. ASSUME NEW t \in tasks, MarkDoneFails(t) PROVE Fine
  BY <1>1, <1>6, <1>9 DEF MarkDoneFails
<1>10. ASSUME NEW t \in tasks, HandlerCompletes(t) \/ HandlerThrows(t) PROVE Fine
  BY <1>1, <1>10 DEF HandlerCompletes, HandlerThrows, rowVars
<1>11. ASSUME NEW t \in tasks, NEW c \in t.claims, ReportLost(t, c) PROVE Fine
  BY <1>1, <1>11 DEF ReportLost, rowVars
<1>12. ASSUME NEW w \in Workers, SeqRead(w) \/ SeqIdle(w) \/ SeqLost(w) \/ Crash(w) PROVE Fine
  BY <1>1, <1>12 DEF SeqRead, SeqIdle, SeqLost, Crash, rowVars
<1>13. ASSUME Tick \/ UNCHANGED vars PROVE Fine
  BY <1>1, <1>13 DEF Tick, vars, rowVars
<1>14. Fine
  BY <1>2, <1>4, <1>5, <1>7, <1>8, <1>9, <1>10, <1>11, <1>12, <1>13 DEF Next, Fetch, Work, Fault
<1> QED BY <1>14

LEMMA StepHistory == IInv /\ [Next]_vars => (DoneMeansHandled /\ FailedMeansExhausted /\ AbsentUntouched)'
<1> SUFFICES ASSUME IInv, [Next]_vars
             PROVE  DoneMeansHandled' /\ FailedMeansExhausted' /\ AbsentUntouched'
  OBVIOUS
<1>0. TypeOK /\ ClaimsDistinct /\ DoneMeansHandled /\ FailedMeansExhausted /\ AbsentUntouched /\ TypeOK'
  BY StepTyped DEF IInv
<1>1. \A e \in Events : attempts[e] \in Nat /\ attempts'[e] \in Nat /\ attempts'[e] >= attempts[e]
  BY <1>0, StepRows DEF TypeOK
<1>2. \A c \in LiveClaims : c = <<c[1], c[2]>> /\ c[2] \in 1..attempts[c[1]]
  BY <1>0 DEF ClaimsDistinct, LiveClaims, TypeOK, Tasks, Claims
<1>3. DoneMeansHandled'
  <2> SUFFICES ASSUME NEW e \in Events, status'[e] = "done"
               PROVE  \E n \in 1..attempts'[e] : <<e, n>> \in ran'
    BY DEF DoneMeansHandled
  <2>1. CASE status[e] = "done"
    <3>1. PICK n \in 1..attempts[e] : <<e, n>> \in ran
      BY <1>0, <2>1 DEF DoneMeansHandled
    <3> QED BY <1>1, <3>1, StepRows
  <2>2. CASE status[e] # "done"
    <3>1. PICK c \in LiveClaims : c[1] = e /\ c \in ran
      BY <2>2, StepRows
    <3>2. <<e, c[2]>> \in ran /\ c[2] \in 1..attempts[e]
      BY <1>2, <3>1
    <3> QED BY <1>1, <3>2, StepRows
  <2> QED BY <2>1, <2>2
<1>4. FailedMeansExhausted'
  <2> SUFFICES ASSUME NEW e \in Events, status'[e] = "failed" PROVE attempts'[e] >= MaxAttempts
    BY DEF FailedMeansExhausted
  <2>1. CASE status[e] = "failed"
    BY <1>0, <1>1, <2>1, LimitsAssumption DEF FailedMeansExhausted
  <2>2. CASE status[e] # "failed"
    <3>1. PICK c \in LiveClaims : c[1] = e /\ c[2] >= MaxAttempts
      BY <2>2, StepRows
    <3> QED BY <1>1, <1>2, <3>1, LimitsAssumption
  <2> QED BY <2>1, <2>2
<1>5. AbsentUntouched'
  BY <1>0, StepRows DEF AbsentUntouched
<1> QED BY <1>3, <1>4, <1>5

LEMMA InitIInv == Init => IInv
<1> SUFFICES ASSUME Init PROVE IInv
  OBVIOUS
<1>1. TypeOK /\ LoopConsistent
  BY InitTyped
<1> QED
  BY <1>1 DEF Init, IInv, ReadCurrent, ClaimsDistinct, RanClaimed, LeaseHeld, LiveClaims,
              Disjoint, DoneMeansHandled, FailedMeansExhausted, AbsentUntouched

LEMMA StepIInv == IInv /\ [Next]_vars => IInv'
<1>1. IInv => TypeOK /\ LoopConsistent
  BY DEF IInv
<1> QED
  BY <1>1, StepTyped, StepLoopConsistent, StepReadCurrent, StepClaims, StepLeaseHeld, StepHistory
     DEF IInv
----------------------------------------------------------------------------
(* The theorems.                                                            *)

(* The inductive invariant of the worker loop.                              *)
THEOREM Invariance == Spec => []IInv
BY InitIInv, StepIInv, PTL DEF Spec

(* Rows, claims and loop counters keep their types, and only a processing   *)
(* row has a lock.                                                          *)
THEOREM TypeCorrect == Spec => []TypeOK
<1>1. IInv => TypeOK
  BY DEF IInv
<1> QED BY <1>1, Invariance, PTL

(* No attempt number of a row is ever held twice, in either claim mode.     *)
THEOREM ClaimsAreDistinct == Spec => []ClaimsDistinct
<1>1. IInv => ClaimsDistinct
  BY DEF IInv
<1> QED BY <1>1, Invariance, PTL

(* At-least-once delivery: done rows were handled, and rows are not given   *)
(* up before MaxAttempts claims.                                            *)
THEOREM SettledRightly == Spec => []SettledAsRun
<1>1. IInv => SettledAsRun
  BY DEF IInv, SettledAsRun
<1> QED BY <1>1, Invariance, PTL

(* While every claim ends within its lease and every done write is          *)
(* answered, done and failed are final.                                     *)
THEOREM SettledStays == Spec => SettledIsFinal
<1>1. IInv /\ [Next]_vars =>
        [\A e \in Events : ~disturbed' /\ status[e] \in {"done", "failed"}
                             => status'[e] = status[e]]_vars
  <2> SUFFICES ASSUME IInv, [Next]_vars, NEW e \in Events,
                      ~disturbed', status[e] \in {"done", "failed"}, status'[e] # status[e]
               PROVE  FALSE
    OBVIOUS
  <2>1. PICK c \in LiveClaims : c[1] = e
    BY StepRows
  <2>2. ~disturbed
    BY DEF Next, Fetch, Work, Fault, Enqueue, Claim, SeqRead, SeqIdle, SeqClaim, SeqLost,
           HandlerCompletes, HandlerThrows, MarkDone, MarkDoneFails, ReportFailure, ReportLost,
           Crash, Tick, vars, faultVars
  <2> QED BY <2>1, <2>2 DEF IInv, LeaseHeld
<1> QED BY <1>1, Invariance, PTL DEF Spec, SettledIsFinal
----------------------------------------------------------------------------
(* The refinement.                                                          *)

Delivered == {c[1] : c \in ran}

LEMMA StepQueue == IInv /\ [Next]_vars => [Queue!QNext]_<<QState, Delivered, disturbed>>
<1> SUFFICES ASSUME IInv, [Next]_vars
             PROVE  Queue!QNext \/ UNCHANGED <<QState, Delivered, disturbed>>
  OBVIOUS
<1> DEFINE Goal == Queue!QNext \/ UNCHANGED <<QState, Delivered, disturbed>>
<1>0. TypeOK /\ LoopConsistent /\ ReadCurrent /\ ClaimsDistinct /\ RanClaimed /\ LeaseHeld
      /\ AbsentUntouched
  BY DEF IInv
<1>a. QState = [e \in Events |->
                  IF status[e] \in {"pending", "processing"} THEN "open" ELSE status[e]]
  BY DEF QState
<1>b. QState' = [e \in Events |->
                  IF status'[e] \in {"pending", "processing"} THEN "open" ELSE status'[e]]
  BY DEF QState
(* A live claim is on a row that was inserted, and on an open one unless    *)
(* something was disturbed.                                                 *)
<1>c. \A c \in LiveClaims : /\ c[1] \in Events /\ QState[c[1]] # "absent"
                            /\ ~disturbed => QState[c[1]] = "open"
  <2> SUFFICES ASSUME NEW c \in LiveClaims
               PROVE  /\ c[1] \in Events /\ QState[c[1]] # "absent"
                      /\ ~disturbed => QState[c[1]] = "open"
    OBVIOUS
  <2>1. c[1] \in Events /\ c[2] \in 1..attempts[c[1]]
    BY <1>0 DEF ClaimsDistinct, LiveClaims, TypeOK, Tasks, Claims
  <2>2. status[c[1]] # "absent"
    BY <1>0, <2>1 DEF AbsentUntouched
  <2>3. ~disturbed => status[c[1]] = "processing"
    BY <1>0 DEF LeaseHeld
  <2> QED BY <1>a, <2>1, <2>2, <2>3
<1>1. ASSUME UNCHANGED <<status, ran, disturbed>> PROVE Goal
  BY <1>1 DEF QState, Delivered
<1>2. ASSUME NEW e \in Events, Enqueue(e) PROVE Goal
  <2>1. QState[e] = "absent" /\ QState' = [QState EXCEPT ![e] = "open"]
    BY <1>0, <1>2, <1>a, <1>b DEF Enqueue, TypeOK
  <2>2. UNCHANGED <<Delivered, disturbed>>
    BY <1>2 DEF Enqueue, faultVars, Delivered
  <2>3. Queue!Insert(e)
    BY <2>1, <2>2 DEF Queue!Insert, Delivered
  <2> QED BY <2>3 DEF Queue!QNext
<1>3. ASSUME NEW lag \in 0..ClaimLag, NEW rows \in SUBSET Events, NEW fresh,
             \A e \in rows : Eligible(e, lag), ClaimsRows(rows, fresh), disturbed' = disturbed
      PROVE  Goal
  <2>1. \A e \in Events : QState'[e] = QState[e]
    BY <1>3, <1>a, <1>b DEF ClaimsRows, Eligible
  <2>2. QState' = QState
    BY <1>a, <1>b, <2>1
  <2> QED BY <1>3, <2>2 DEF ClaimsRows, Delivered
<1>4. ASSUME NEW w \in Workers, Claim(w) PROVE Goal
  <2>1. disturbed' = disturbed
    BY <1>4 DEF Claim, faultVars
  <2> HIDE DEF Goal
  <2> QED BY <1>0, <1>3, <1>4, <2>1, ClaimShape
<1>5. ASSUME NEW w \in Workers, SeqClaim(w) PROVE Goal
  <2> DEFINE r == reading[w]
  <2>1. /\ r.event \in Events /\ r.age \in 0..ClaimLag /\ Eligible(r.event, r.age)
        /\ ClaimsRows({r.event}, {FreshTask(w, {<<r.event, r.attempts + 1>>})})
    BY <1>0, <1>5, SeqClaimShape
  <2>2. disturbed' = disturbed
    BY <1>5 DEF SeqClaim, faultVars
  <2> HIDE DEF Goal, r
  <2> QED BY <1>3, <2>1, <2>2
<1>6. ASSUME NEW t \in tasks, ran' = ran \cup t.claims, UNCHANGED <<status, disturbed>>
      PROVE  Goal
  <2> DEFINE rows == {c[1] : c \in t.claims}
  <2>1. t.claims \subseteq LiveClaims
    BY DEF LiveClaims
  <2>2. rows \in SUBSET Events
    BY <1>c, <2>1
  <2>3. \A e \in rows : IF disturbed THEN QState[e] # "absent" ELSE QState[e] = "open"
    BY <1>c, <2>1
  <2>4. Delivered' = Delivered \cup rows
    BY <1>6 DEF Delivered
  <2>5. UNCHANGED <<QState, disturbed>>
    BY <1>6 DEF QState
  <2>6. Queue!Deliver(rows)
    BY <2>3, <2>4, <2>5 DEF Queue!Deliver, Delivered
  <2> QED BY <2>2, <2>6 DEF Queue!QNext
<1>7. ASSUME NEW t \in tasks, t.stage = "handled", WriteDone(t), ran' = ran,
             disturbed' \in {disturbed, TRUE}
      PROVE  Goal
  <2> DEFINE rows == {c[1] : c \in t.claims}
  <2>1. t.claims \subseteq LiveClaims /\ t.claims \subseteq ran
    BY <1>0, <1>7 DEF LiveClaims, RanClaimed
  <2>2. rows \in SUBSET Events /\ rows \subseteq Delivered
    BY <1>c, <2>1 DEF Delivered
  <2>3. \A e \in rows : IF disturbed' THEN QState[e] # "absent" ELSE QState[e] = "open"
    <3>1. ~disturbed' => ~disturbed
      BY <1>7
    <3>2. \A e \in rows : QState[e] # "absent" /\ (~disturbed => QState[e] = "open")
      BY <1>c, <2>1
    <3> QED BY <3>1, <3>2, Zenon
  <2>4. \A e \in Events : e \in rows <=> Touches(t, e)
    BY DEF Touches
  <2>5. \A e \in Events : status'[e] = IF e \in rows THEN "done" ELSE status[e]
    BY <1>7, <2>4 DEF WriteDone
  <2>6. QState' = [e \in Events |-> IF e \in rows THEN "done" ELSE QState[e]]
    BY <1>a, <1>b, <2>5
  <2>7. Queue!Complete(rows)
    BY <1>7, <2>2, <2>3, <2>6 DEF Queue!Complete, Queue!MayMove, Delivered
  <2> QED BY <2>2, <2>7 DEF Queue!QNext
<1>8. ASSUME NEW t \in tasks, NEW c \in t.claims, ReportFailure(t, c) PROVE Goal
  <2> DEFINE e == c[1]
  <2>1. c \in LiveClaims
    BY DEF LiveClaims
  <2>2. e \in Events /\ QState[e] # "absent" /\ (~disturbed => QState[e] = "open")
    BY <1>c, <2>1
  <2>3. UNCHANGED <<Delivered, disturbed>>
    BY <1>8 DEF ReportFailure, faultVars, Delivered
  <2>4. status' = [status EXCEPT ![e] = IF Exhausted(c[2]) THEN "failed" ELSE "pending"]
        /\ status \in [Events -> Statuses]
    BY <1>0, <1>8 DEF ReportFailure, TypeOK
  <2> HIDE DEF e
  <2>5. CASE Exhausted(c[2])
    <3>1. status' = [status EXCEPT ![e] = "failed"]
      BY <2>4, <2>5
    <3>2. QState' = [QState EXCEPT ![e] = "failed"]
      BY <1>a, <1>b, <2>2, <2>4, <3>1
    <3>3. Queue!GiveUp(e)
      BY <2>2, <2>3, <3>2 DEF Queue!GiveUp, Queue!MayMove, Delivered
    <3> QED BY <2>2, <3>3 DEF Queue!QNext
  <2>6. CASE ~Exhausted(c[2])
    <3>1. status' = [status EXCEPT ![e] = "pending"]
      BY <2>4, <2>6
    <3>2. QState' = [QState EXCEPT ![e] = "open"]
      BY <1>a, <1>b, <2>2, <2>4, <3>1
    <3>3. CASE QState[e] = "open"
      <4>1. QState' = QState
        BY <1>a, <2>2, <3>2, <3>3
      <4> QED BY <2>3, <4>1
    <3>4. CASE QState[e] # "open"
      <4>1. QState[e] \in {"done", "failed"}
        BY <1>a, <2>2, <2>4, <3>4 DEF Statuses
      <4>2. Queue!Reopen(e)
        BY <2>2, <2>3, <3>2, <3>4, <4>1 DEF Queue!Reopen, Delivered
      <4> QED BY <2>2, <4>2 DEF Queue!QNext
    <3> QED BY <3>3, <3>4
  <2> QED BY <2>5, <2>6
<1>9. ASSUME NEW t \in tasks, MarkDone(t) PROVE Goal
  BY <1>7, <1>9 DEF MarkDone, faultVars
<1>10. ASSUME NEW t \in tasks, MarkDoneFails(t) PROVE Goal
  BY <1>1, <1>7, <1>10 DEF MarkDoneFails
<1>11. ASSUME NEW t \in tasks, HandlerCompletes(t) \/ HandlerThrows(t) PROVE Goal
  BY <1>1, <1>6, <1>11 DEF HandlerCompletes, HandlerThrows, rowVars, faultVars
<1>12. ASSUME NEW t \in tasks, NEW c \in t.claims, ReportLost(t, c) PROVE Goal
  BY <1>1, <1>12 DEF ReportLost, rowVars
<1>13. ASSUME NEW w \in Workers, SeqRead(w) \/ SeqIdle(w) \/ SeqLost(w) \/ Crash(w) PROVE Goal
  BY <1>1, <1>13 DEF SeqRead, SeqIdle, SeqLost, Crash, rowVars, faultVars
<1>14. ASSUME Tick PROVE Goal
  <2>1. UNCHANGED <<status, ran>>
    BY <1>14 DEF Tick
  <2>2. CASE disturbed' = disturbed
    BY <1>1, <2>1, <2>2
  <2>3. CASE disturbed' # disturbed
    <3>1. disturbed' = TRUE
      BY <1>0, <1>14, <2>3 DEF Tick, TypeOK
    <3>2. UNCHANGED <<QState, Delivered>>
      BY <2>1 DEF QState, Delivered
    <3>3. Queue!BecomeLate
      BY <3>1, <3>2 DEF Queue!BecomeLate, Delivered
    <3> QED BY <3>3 DEF Queue!QNext
  <2> QED BY <2>2, <2>3
<1>15. ASSUME UNCHANGED vars PROVE Goal
  BY <1>1, <1>15 DEF vars, rowVars, faultVars
<1>16. Goal
  BY <1>2, <1>4, <1>5, <1>8, <1>9, <1>10, <1>11, <1>12, <1>13, <1>14, <1>15
     DEF Next, Fetch, Work, Fault
<1> QED BY <1>16

(* The worker loop implements the queue its producers rely on.              *)
THEOREM Refinement == Spec => ImplementsQueue
<1>1. Init => Queue!QInit
  BY DEF Init, Queue!QInit, QState
<1>2. IInv /\ [Next]_vars => [Queue!QNext]_(Queue!qvars)
  BY StepQueue DEF Delivered, Queue!qvars
<1> QED BY <1>1, <1>2, Invariance, PTL DEF Spec, ImplementsQueue, Queue!QSpec
=============================================================================
