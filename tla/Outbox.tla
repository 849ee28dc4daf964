------------------------------- MODULE Outbox -------------------------------
(* The outbox table and the worker loop that drains it                      *)
(* (backend/apps/worker/src/worker.service.ts).                             *)
(*                                                                          *)
(* A row of "OutboxEvent" is claimed by a worker (status processing, a lock *)
(* timestamp, attempts + 1), its handler runs, and the row is marked done,  *)
(* put back with a delay, or failed for good.  A row whose lock is older    *)
(* than PROCESSING_STALE_AFTER_MS may be claimed again.  Neither the done   *)
(* write nor the failure write checks that the writer still owns the row.   *)
(*                                                                          *)
(* Time is relative: avail[e] is the number of ticks until availableAt (it  *)
(* goes negative once the row is due) and lockAge[e] is the age of the lock.*)
EXTENDS Integers, FiniteSets

CONSTANTS
    Events,            \* rows that may be inserted; the number orders (createdAt, id)
    Workers,           \* worker processes (WORKER_REALTIME_SCALE of them)
    MaxAttempts,       \* the literal 5 of handleFailure
    StaleAfter,        \* PROCESSING_STALE_AFTER_MS, in ticks
    RetryStep,         \* the literal 15 s of handleFailure, in ticks
    RetryCap,          \* the literal 300 s of handleFailure, in ticks
    ClaimLag,          \* bound: age of the clock value a claim statement carries
    MaxEventsPerRun,   \* WORKER_MAX_EVENTS_PER_RUN
    BatchWorkers,      \* those started with WORKER_OUTBOX_BATCH_CLAIM on
    BatchKey,          \* chatId:actorUserId of a batchable row, else NoKey
    NoKey,             \* a row that is processed on its own
    None,              \* no row read
    MaxCrashes,        \* bound: process crashes
    MaxOverruns,       \* bound: ticks in which a live claim outlives its lease
    MaxDbErrors        \* bound: failed or unanswered database writes

ASSUME EventsAssumption == Events \subseteq Nat
ASSUME LimitsAssumption ==
    /\ MaxAttempts \in Nat \ {0} /\ MaxEventsPerRun \in Nat \ {0}
    /\ RetryStep \in Nat \ {0} /\ RetryCap \in Nat \ {0}
    /\ ClaimLag \in Nat /\ StaleAfter \in Nat /\ ClaimLag < StaleAfter
ASSUME ModeAssumption == BatchWorkers \subseteq Workers
ASSUME NoneAssumption == None \notin [event : Events, attempts : Nat, age : 0..ClaimLag]
ASSUME BudgetAssumption ==
    MaxCrashes \in Nat /\ MaxOverruns \in Nat /\ MaxDbErrors \in Nat

VARIABLES
    status,    \* per row: absent, pending, processing, done or failed
    attempts,  \* per row: the attempts column
    avail,     \* per row: ticks until availableAt, not below -ClaimLag
    lockAge,   \* per row: age of lockedAt while processing, else 0
    running,   \* per worker: the running flag of runOnce
    left,      \* per worker: claims the sequential loop of runOnce may still make
    reading,   \* per worker: the row claimNextEvent has read and not yet claimed
    tasks,     \* work in memory: claims <<row, attempts returned>> and how far they got
    ran,       \* history: claims whose handler has had its effect
    crashes, overruns, dbErrors,   \* faults so far
    disturbed  \* history: a claim outlived its lease, or a done write lost its answer

rowVars    == <<status, attempts, avail, lockAge>>
workerVars == <<running, left, reading, tasks>>
faultVars  == <<crashes, overruns, dbErrors, disturbed>>
vars == <<rowVars, workerVars, ran, faultVars>>

Statuses == {"absent", "pending", "processing", "done", "failed"}
Stages   == {"queued", "handled", "threw"}
Readings == [event : Events, attempts : Nat, age : 0..ClaimLag]
Claims   == Events \X Nat
Tasks    == [worker : Workers, awaited : BOOLEAN, claims : SUBSET Claims, stage : Stages]

LesserOf(a, b)  == IF a < b THEN a ELSE b
GreaterOf(a, b) == IF a > b THEN a ELSE b
----------------------------------------------------------------------------
(* Helpers.                                                                 *)

TasksOf(w) == {t \in tasks : t.worker = w}

LiveClaims == UNION {t.claims : t \in tasks}

(* Slip: the lease is taken for one tick shorter than it is.                *)
EligibleEarly(e, lag) ==
    \/ status[e] = "pending" /\ avail[e] <= -lag
    \/ status[e] = "processing" /\ lockAge[e] >= StaleAfter + lag - 1

(* Slip: rows left processing by a dead worker are never looked at again.   *)
EligiblePendingOnly(e, lag) == status[e] = "pending" /\ avail[e] <= -lag

(* A row matches the WHERE clause of a claim whose clock value is lag old.  *)
Eligible(e, lag) ==
    \/ status[e] = "pending" /\ avail[e] <= -lag
    \/ status[e] = "processing" /\ lockAge[e] >= StaleAfter + lag

EligibleRows(lag) == {e \in Events : Eligible(e, lag)}

Oldest(rows) == {e \in rows : \A f \in rows : e <= f}

FirstOf(rows) == {e \in rows : Cardinality({f \in rows : f < e}) < MaxEventsPerRun}

(* Slip: a batchable row is also kept among the rows processed alone.       *)
GroupsOverlapping(rows) ==
    {{e} : e \in rows}
      \cup {{e \in rows : BatchKey[e] = k} : k \in {BatchKey[e] : e \in rows} \ {NoKey}}

(* processClaimedEvents: batchable rows with one key share a task.          *)
Groups(rows) ==
    {{e} : e \in {x \in rows : BatchKey[x] = NoKey}}
      \cup {{e \in rows : BatchKey[e] = k} : k \in {BatchKey[e] : e \in rows} \ {NoKey}}

(* Slip: the limit is off by one.                                           *)
ExhaustedEarly(n) == n >= MaxAttempts - 1

(* handleFailure: shouldFailPermanently.                                    *)
Exhausted(n) == n >= MaxAttempts

RetryDelay(n) == LesserOf(RetryCap, n * RetryStep)

(* runOnce reaches its finally block once it awaits no task of the worker   *)
(* any more and has no iterations left.                                     *)
StillRunning(w, rest) ==
    running[w] /\ (left[w] > 0 \/ \E t \in rest : t.worker = w /\ t.awaited)

FreshTask(w, claims) ==
    [worker |-> w, awaited |-> TRUE, claims |-> claims, stage |-> "queued"]

(* Promise.all of a run has rejected: what still runs is awaited by no one. *)
Unawaited(w, rest) ==
    {t \in rest : t.worker # w} \cup {[t EXCEPT !.awaited = FALSE] : t \in {u \in rest : u.worker = w}}

(* A task is over once none of its claims is left.                          *)
Without(t, c) ==
    IF t.claims = {c} THEN tasks \ {t}
    ELSE (tasks \ {t}) \cup {[t EXCEPT !.claims = @ \ {c}]}
----------------------------------------------------------------------------
Init ==
    /\ status   = [e \in Events |-> "absent"]
    /\ attempts = [e \in Events |-> 0]
    /\ avail    = [e \in Events |-> 0]
    /\ lockAge  = [e \in Events |-> 0]
    /\ running  = [w \in Workers |-> FALSE]
    /\ left     = [w \in Workers |-> 0]
    /\ reading  = [w \in Workers |-> None]
    /\ tasks = {} /\ ran = {}
    /\ crashes = 0 /\ overruns = 0 /\ dbErrors = 0 /\ disturbed = FALSE

(* A transaction of the API or the chat server commits an outbox row.       *)
Enqueue(e) ==
    /\ status[e] = "absent"
    /\ status' = [status EXCEPT ![e] = "pending"]
    /\ UNCHANGED <<attempts, avail, lockAge, workerVars, ran, faultVars>>

(* claimNextEvents: one statement claims the oldest due rows.               *)
Claim(w) ==
    /\ w \in BatchWorkers /\ ~running[w]
    /\ \E lag \in 0..ClaimLag :
         LET picked == FirstOf(EligibleRows(lag)) IN
           /\ picked # {}
           /\ status'   = [e \in Events |-> IF e \in picked THEN "processing" ELSE status[e]]
           /\ lockAge'  = [e \in Events |-> IF e \in picked THEN lag ELSE lockAge[e]]
           /\ attempts' = [e \in Events |-> attempts[e] + IF e \in picked THEN 1 ELSE 0]
           /\ tasks' = tasks \cup
                {FreshTask(w, {<<e, attempts[e] + 1>> : e \in g}) : g \in Groups(picked)}
    /\ running' = [running EXCEPT ![w] = TRUE]
    /\ UNCHANGED <<avail, left, reading, ran, faultVars>>

(* The sequential loop reaches claimNextEvent: at the start of a run, or    *)
(* after the previous row with iterations left.                             *)
AtLoopHead(w) ==
    /\ w \notin BatchWorkers /\ reading[w] = None
    /\ ~running[w] \/ (left[w] > 0 /\ \A t \in TasksOf(w) : ~t.awaited)

(* claimNextEvent, first query: the oldest due row is read without a lock.  *)
SeqRead(w) ==
    /\ AtLoopHead(w)
    /\ \E e \in Oldest(EligibleRows(0)) :
         reading' = [reading EXCEPT ![w] = [event |-> e, attempts |-> attempts[e], age |-> 0]]
    /\ left' = [left EXCEPT ![w] = IF running[w] THEN @ ELSE MaxEventsPerRun]
    /\ running' = [running EXCEPT ![w] = TRUE]
    /\ UNCHANGED <<rowVars, tasks, ran, faultVars>>

(* claimNextEvent finds no due row: the run ends.                           *)
SeqIdle(w) ==
    /\ AtLoopHead(w) /\ running[w] /\ EligibleRows(0) = {}
    /\ running' = [running EXCEPT ![w] = FALSE]
    /\ left' = [left EXCEPT ![w] = 0]
    /\ UNCHANGED <<rowVars, reading, tasks, ran, faultVars>>

(* Slip: the update is by id alone.                                         *)
SeqClaimBlind(w) ==
    /\ reading[w] # None
    /\ LET r == reading[w] IN
         /\ status'   = [status EXCEPT ![r.event] = "processing"]
         /\ lockAge'  = [lockAge EXCEPT ![r.event] = r.age]
         /\ attempts' = [attempts EXCEPT ![r.event] = @ + 1]
         /\ tasks' = tasks \cup {FreshTask(w, {<<r.event, r.attempts + 1>>})}
    /\ reading' = [reading EXCEPT ![w] = None]
    /\ left' = [left EXCEPT ![w] = @ - 1]
    /\ UNCHANGED <<avail, running, ran, faultVars>>

(* claimNextEvent, second query: the guarded update.  The attempt number    *)
(* handed on is the one read before it, plus one.                           *)
SeqClaim(w) ==
    /\ reading[w] # None
    /\ LET r == reading[w] IN
         /\ Eligible(r.event, r.age)
         /\ status'   = [status EXCEPT ![r.event] = "processing"]
         /\ lockAge'  = [lockAge EXCEPT ![r.event] = r.age]
         /\ attempts' = [attempts EXCEPT ![r.event] = @ + 1]
         /\ tasks' = tasks \cup {FreshTask(w, {<<r.event, r.attempts + 1>>})}
    /\ reading' = [reading EXCEPT ![w] = None]
    /\ left' = [left EXCEPT ![w] = @ - 1]
    /\ UNCHANGED <<avail, running, ran, faultVars>>

(* The guarded update matched nothing: claimNextEvent returns null and the  *)
(* run ends.                                                                *)
SeqLost(w) ==
    /\ reading[w] # None
    /\ ~Eligible(reading[w].event, reading[w].age)
    /\ reading' = [reading EXCEPT ![w] = None]
    /\ running' = [running EXCEPT ![w] = FALSE]
    /\ left' = [left EXCEPT ![w] = 0]
    /\ UNCHANGED <<rowVars, tasks, ran, faultVars>>

AdvanceTo(t, stage) == (tasks \ {t}) \cup {[t EXCEPT !.stage = stage]}

(* The handler of a task returns.                                           *)
HandlerCompletes(t) ==
    /\ t.stage = "queued"
    /\ tasks' = AdvanceTo(t, "handled")
    /\ ran' = ran \cup t.claims
    /\ UNCHANGED <<rowVars, running, left, reading, faultVars>>

(* Slip: the catch block is left out and the done write follows.            *)
HandlerThrowsSwallowed(t) ==
    /\ t.stage = "queued"
    /\ tasks' = AdvanceTo(t, "handled")
    /\ ran' \in {ran, ran \cup t.claims}
    /\ UNCHANGED <<rowVars, running, left, reading, faultVars>>

(* The handler throws, before its effect or after it.                       *)
HandlerThrows(t) ==
    /\ t.stage = "queued"
    /\ tasks' = AdvanceTo(t, "threw")
    /\ ran' \in {ran, ran \cup t.claims}
    /\ UNCHANGED <<rowVars, running, left, reading, faultVars>>

Touches(t, e) == \E c \in t.claims : c[1] = e

(* What the done write does to the rows of a task, whoever owns them now.   *)
WriteDone(t) ==
    /\ status'  = [e \in Events |-> IF Touches(t, e) THEN "done" ELSE status[e]]
    /\ lockAge' = [e \in Events |-> IF Touches(t, e) THEN 0 ELSE lockAge[e]]

(* processEvent and processChatUnreadFanoutBatch: the write by id to done.  *)
MarkDone(t) ==
    /\ t.stage = "handled"
    /\ WriteDone(t)
    /\ tasks' = tasks \ {t}
    /\ running' = [running EXCEPT ![t.worker] = StillRunning(t.worker, tasks \ {t})]
    /\ UNCHANGED <<attempts, avail, left, reading, ran, faultVars>>

(* The done write throws.  It may have been applied, its answer lost; the   *)
(* catch block goes on to handleFailure either way.                         *)
MarkDoneFails(t) ==
    /\ t.stage = "handled" /\ dbErrors < MaxDbErrors
    /\ \/ UNCHANGED <<status, lockAge, disturbed>>
       \/ WriteDone(t) /\ disturbed' = TRUE
    /\ tasks' = AdvanceTo(t, "threw")
    /\ dbErrors' = dbErrors + 1
    /\ UNCHANGED <<attempts, avail, running, left, reading, ran, crashes, overruns>>

(* handleFailure for one claim: failed, or pending again after a delay that *)
(* depends on the attempt number the claim carries.                         *)
ReportFailure(t, c) ==
    /\ t.stage = "threw"
    /\ status'  = [status EXCEPT ![c[1]] = IF Exhausted(c[2]) THEN "failed" ELSE "pending"]
    /\ lockAge' = [lockAge EXCEPT ![c[1]] = 0]
    /\ avail'   = [avail EXCEPT ![c[1]] = IF Exhausted(c[2]) THEN @ ELSE RetryDelay(c[2])]
    /\ tasks' = Without(t, c)
    /\ running' = [running EXCEPT ![t.worker] = StillRunning(t.worker, Without(t, c))]
    /\ UNCHANGED <<attempts, left, reading, ran, faultVars>>

(* handleFailure itself throws: the row stays processing with no owner.     *)
(* A run that awaits the task rejects and clears running; the lane that     *)
(* threw takes no further task, other lanes of runWithConcurrency may go on.*)
ReportLost(t, c) ==
    /\ t.stage = "threw" /\ dbErrors < MaxDbErrors
    /\ \E rest \in {Without(t, c),
                    {u \in Without(t, c) : u.worker = t.worker => u.stage # "queued"}} :
         tasks' = IF t.awaited THEN Unawaited(t.worker, rest) ELSE rest
    /\ running' = [running EXCEPT ![t.worker] = @ /\ ~t.awaited]
    /\ left' = [left EXCEPT ![t.worker] = IF t.awaited THEN 0 ELSE @]
    /\ dbErrors' = dbErrors + 1
    /\ UNCHANGED <<rowVars, reading, ran, crashes, overruns, disturbed>>

(* The process dies and comes back: everything in memory is gone.           *)
Crash(w) ==
    /\ crashes < MaxCrashes
    /\ running[w] \/ TasksOf(w) # {}
    /\ tasks' = tasks \ TasksOf(w)
    /\ running' = [running EXCEPT ![w] = FALSE]
    /\ left' = [left EXCEPT ![w] = 0]
    /\ reading' = [reading EXCEPT ![w] = None]
    /\ crashes' = crashes + 1
    /\ UNCHANGED <<rowVars, ran, overruns, dbErrors, disturbed>>

(* A live claim whose row becomes reclaimable with the next tick.           *)
LeaseEnding ==
    \E c \in LiveClaims :
        /\ status[c[1]] = "processing" /\ attempts[c[1]] = c[2]
        /\ lockAge[c[1]] = StaleAfter - 1

(* Time passes.  No claim statement is under way for more than ClaimLag.    *)
Tick ==
    /\ \A w \in Workers : reading[w] # None => reading[w].age < ClaimLag
    /\ LeaseEnding => overruns < MaxOverruns
    /\ overruns' = overruns + IF LeaseEnding THEN 1 ELSE 0
    /\ disturbed' = (disturbed \/ LeaseEnding)
    /\ avail' = [e \in Events |-> GreaterOf(avail[e] - 1, -ClaimLag)]
    /\ lockAge' = [e \in Events |->
                     IF status[e] = "processing"
                     THEN LesserOf(lockAge[e] + 1, StaleAfter + ClaimLag) ELSE lockAge[e]]
    /\ reading' = [w \in Workers |->
                     IF reading[w] = None THEN None ELSE [reading[w] EXCEPT !.age = @ + 1]]
    /\ UNCHANGED <<status, attempts, running, left, tasks, ran, crashes, dbErrors>>
----------------------------------------------------------------------------
(* Next-state relation and fairness.                                        *)

Fetch(w) == Claim(w) \/ SeqRead(w) \/ SeqIdle(w) \/ SeqClaim(w) \/ SeqLost(w)

Work(t) ==
    \/ HandlerCompletes(t) \/ HandlerThrows(t)
    \/ MarkDone(t) \/ \E c \in t.claims : ReportFailure(t, c)

Fault ==
    \/ \E t \in tasks : MarkDoneFails(t) \/ \E c \in t.claims : ReportLost(t, c)
    \/ \E w \in Workers : Crash(w)

Next ==
    \/ \E e \in Events : Enqueue(e)
    \/ \E w \in Workers : Fetch(w)
    \/ \E t \in tasks : Work(t)
    \/ Fault
    \/ Tick

Spec == Init /\ [][Next]_vars

(* setInterval calls runOnce for ever, promises settle, the clock moves;    *)
(* nothing obliges anyone to insert rows or to fail.                        *)
Fairness ==
    /\ WF_vars(Tick)
    /\ \A w \in Workers : WF_vars(Fetch(w)) /\ WF_vars(\E t \in TasksOf(w) : Work(t))

LiveSpec == Spec /\ Fairness
----------------------------------------------------------------------------
(* Properties.                                                              *)

(* Every variable has its type, and only a processing row has a lock.       *)
TypeOK ==
    /\ status \in [Events -> Statuses]
    /\ attempts \in [Events -> Nat]
    /\ avail \in [Events -> Int]
    /\ lockAge \in [Events -> 0..(StaleAfter + ClaimLag)]
    /\ \A e \in Events : status[e] # "processing" => lockAge[e] = 0
    /\ running \in [Workers -> BOOLEAN]
    /\ left \in [Workers -> 0..MaxEventsPerRun]
    /\ reading \in [Workers -> Readings \cup {None}]
    /\ tasks \subseteq Tasks
    /\ ran \subseteq Claims
    /\ crashes \in 0..MaxCrashes /\ overruns \in 0..MaxOverruns
    /\ dbErrors \in 0..MaxDbErrors /\ disturbed \in BOOLEAN

(* A run that awaits tasks is running, and the sequential loop reads a row  *)
(* only with an iteration left and nothing of its own run under way.        *)
LoopConsistent ==
    /\ \A t \in tasks : t.awaited => running[t.worker]
    /\ \A w \in Workers : reading[w] # None =>
          w \notin BatchWorkers /\ running[w] /\ left[w] > 0 /\ \A t \in TasksOf(w) : ~t.awaited

Disjoint(ts) == \A t, u \in ts : t # u => t.claims \cap u.claims = {}

(* The attempt number identifies a claim: no claim is held by two tasks,    *)
(* none carries a number the row has not reached, and one that waits for    *)
(* its handler has not run yet.  claimNextEvent hands on a number read      *)
(* before its update, so this rests on the guard the update repeats.        *)
ClaimsDistinct ==
    /\ Disjoint(tasks)
    /\ \A c \in LiveClaims : c[2] \in 1..attempts[c[1]]
    /\ \A t \in tasks : t.stage = "queued" => t.claims \cap ran = {}

(* At least once: a done row had its handler take effect under some claim,  *)
(* whatever crashes, reclaims and lost answers came between.                *)
DoneMeansHandled ==
    \A e \in Events : status[e] = "done" => \E n \in 1..attempts[e] : <<e, n>> \in ran

(* A row is given up only after MaxAttempts claims of it.                   *)
FailedMeansExhausted ==
    \A e \in Events : status[e] = "failed" => attempts[e] >= MaxAttempts

(* A row ends as its handler's runs say.                                    *)
SettledAsRun == DoneMeansHandled /\ FailedMeansExhausted

(* A poisoned row is claimed MaxAttempts times, and once more per fault: a  *)
(* late failure report can put a failed row back, but not without limit.    *)
AttemptsBounded ==
    \A e \in Events : attempts[e] <= MaxAttempts + crashes + overruns + dbErrors

(* Done and failed are final, as long as every claim ends within its lease  *)
(* and no done write loses its answer.                                      *)
SettledIsFinal ==
    [][\A e \in Events : ~disturbed' /\ status[e] \in {"done", "failed"}
                            => status'[e] = status[e]]_vars

(* Each row ends up done or failed for good, although processes crash,      *)
(* leases run out and failure reports get lost.                             *)
EventuallySettled ==
    \A e \in Events : status[e] # "absent" ~> [](status[e] \in {"done", "failed"})

(* What makes the sequential claim sound: once another worker has claimed   *)
(* the row that was read, the guard of the update no longer holds.          *)
ReadCurrent ==
    \A w \in Workers : reading[w] # None =>
        LET r == reading[w] IN
          /\ status[r.event] # "absent" /\ r.attempts <= attempts[r.event]
          /\ r.attempts # attempts[r.event] =>
               /\ status[r.event] = "pending" => avail[r.event] > -r.age
               /\ status[r.event] = "processing" => lockAge[r.event] < StaleAfter + r.age

(* Handlers that took effect belong to claims that were made, and a task    *)
(* that is past its handler has had the effect of every claim left in it.   *)
RanClaimed ==
    /\ \A c \in ran : c[2] \in 1..attempts[c[1]]
    /\ \A t \in tasks : t.stage = "handled" => t.claims \subseteq ran

(* Until a lease runs out or a done write loses its answer, each live claim *)
(* is the latest of its row and the row is still locked for it.             *)
LeaseHeld ==
    ~disturbed => \A c \in LiveClaims :
        status[c[1]] = "processing" /\ attempts[c[1]] = c[2] /\ lockAge[c[1]] < StaleAfter

(* A row that was not inserted has never been claimed.                      *)
AbsentUntouched == \A e \in Events : status[e] = "absent" => attempts[e] = 0

(* The inductive invariant behind the safety theorems.                      *)
IInv ==
    /\ TypeOK /\ LoopConsistent /\ ReadCurrent /\ ClaimsDistinct /\ RanClaimed /\ LeaseHeld
    /\ DoneMeansHandled /\ FailedMeansExhausted /\ AbsentUntouched

(* The refinement: a row that is pending or processing is open.             *)
QState == [e \in Events |->
             IF status[e] \in {"pending", "processing"} THEN "open" ELSE status[e]]

Queue == INSTANCE AtLeastOnceQueue WITH
             state <- QState, delivered <- {c[1] : c \in ran}, late <- disturbed

(* The worker loop implements the queue its producers rely on.              *)
ImplementsQueue == Queue!QSpec
=============================================================================
