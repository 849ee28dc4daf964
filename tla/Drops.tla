------------------------------- MODULE Drops --------------------------------
(* Raffles ("drops"): rewards give a user tickets, up to a limit a month,   *)
(* he puts them into a drop, and an administrator draws it.                 *)
(*                                                                          *)
(* One user's tickets of one month and one drop. Each call is a transaction *)
(* under READ COMMITTED: its reads are steps of their own, because the code *)
(* locks nothing; its writes and the commit are one step, for the first     *)
(* written row keeps every other writer of that row out until the commit.   *)
EXTENDS Integers, FiniteSets, FiniteSetsExt

CONSTANTS
    Rewards,        \* rewards the user can earn (idempotency keys)
    Earlier,        \* those he has when the model starts
    TicketsOf,      \* the tickets of each reward; tickets are numbers
    TaskOf,         \* the task each reward is for
    Rank,           \* the order of the tickets' draw hashes
    Calls,          \* transactions that may overlap
    MonthlyLimit,   \* MAX_TICKETS_PER_MONTH
    TaskLimit,      \* TASK_LIMITS, by task
    PerUser,        \* the drop's maxTicketsPerUser
    Winners,        \* places the draw has to give
    Reserves,       \* reserve places
    MaxCalls,       \* bound on calls
    MaxCancels      \* bound on tickets cancelled by hand

VARIABLES
    granted,    \* DropRewardEvent rows, by idempotency key
    ticket,     \* DropTicket rows: status, whether assigned to the drop, and
                \* createdAt, the order in which the granting calls began
    drop,       \* Drop.status
    snapshot,   \* DropDrawSnapshot: the tickets drawn from
    winner,     \* DropWinner rows, by ticket: position, reserve
    draws,      \* number of draws committed (rows of an older draw are gone)
    call,       \* open transactions: what each has read
    left,       \* calls and cancellations left
    twins,      \* (history) two grants counted the same month's tickets
    crowded,    \* (history) an apply counted before another one was committed and listed
                \* after it, or two listed different tickets
    late,       \* (history) tickets put in after a draw had read its tickets, or the drop had ended
    revived,    \* (history) cancelled tickets a draw or a choice has made count again
    choices,    \* (history) choices of a reserve committed
    overtaken   \* (history) a choice was committed after two others it has not seen

vars == <<granted, ticket, drop, snapshot, winner, draws, call, left, twins,
          crowded, late, revived, choices, overtaken>>
rewardVars == <<granted, twins>>
drawVars == <<snapshot, winner, draws, revived, choices, overtaken>>

Tickets == UNION {TicketsOf[r] : r \in Rewards}
Idle == [op |-> "idle"]
Status == {"none", "active", "used", "winner", "cancelled"}

With(status) == {t \in Tickets : ticket[t].st \in status}
Assigned == {t \in Tickets : ticket[t].in}
Free == With({"active"}) \ Assigned

(* The first n of a set in the order given by key.                          *)
Firsts(n, S, key) == {t \in S : Cardinality({u \in S : key[u] < key[t]}) < n}
(* createdAt, then id.                                                      *)
ByAge == [t \in Tickets |-> ticket[t].age * (Max(Tickets) + 1) + t]
ByHash == Rank

-----------------------------------------------------------------------------
Init ==
    /\ granted = Earlier
    /\ ticket = [t \in Tickets |->
                    [st |-> IF \E r \in Earlier : t \in TicketsOf[r] THEN "active" ELSE "none",
                     in |-> FALSE, age |-> 0]]
    /\ drop \in {"scheduled", "active"}
    /\ snapshot = {}
    /\ winner = <<>>
    /\ draws = 0
    /\ call = [k \in Calls |-> Idle]
    /\ left = [calls |-> MaxCalls, cancels |-> MaxCancels]
    /\ twins = FALSE
    /\ crowded = FALSE
    /\ late = {}
    /\ revived = {}
    /\ choices = 0
    /\ overtaken = FALSE

Begin(k, c) ==
    /\ call[k] = Idle
    /\ left.calls > 0
    /\ left' = [left EXCEPT !.calls = @ - 1]
    /\ call' = [call EXCEPT ![k] = c]

End(k) == call' = [call EXCEPT ![k] = Idle]

(* A call that throws, or is chosen as the victim of a deadlock, leaves     *)
(* nothing behind.                                                          *)
Abort(k) ==
    /\ call[k] # Idle
    /\ End(k)
    /\ UNCHANGED <<granted, ticket, drop, left, twins, crowded, late>>
    /\ UNCHANGED drawVars

-----------------------------------------------------------------------------
(* Rewards *)

(* Slip: tickets already drawn are forgotten.                               *)
ReservedActive == With({"active"})

(* Cancelled tickets give their room back.                                  *)
Reserved == With({"active", "used", "winner"})

OfTask(task) == UNION {TicketsOf[r] : r \in {q \in granted : TaskOf[q] = task}}

(* assertMonthlyLimit, after the look for the idempotency key.              *)
CountTickets(k, r) ==
    LET n == Cardinality(TicketsOf[r]) IN
    /\ r \notin granted
    /\ Cardinality(Reserved) + n <= MonthlyLimit
    /\ Cardinality(OfTask(TaskOf[r])) + n <= TaskLimit[TaskOf[r]]
    /\ Begin(k, [op |-> "grant", reward |-> r, saw |-> granted,
                 age |-> MaxCalls - left.calls])
    /\ UNCHANGED <<ticket, drop, crowded, late>>
    /\ UNCHANGED rewardVars
    /\ UNCHANGED drawVars

(* The key is unique: the second of two equal rewards fails here.           *)
InsertTickets(k) ==
    LET c == call[k] IN
    /\ c.op = "grant"
    /\ c.reward \notin granted
    /\ granted' = granted \union {c.reward}
    /\ twins' = (twins \/ granted # c.saw)
    /\ ticket' = [t \in Tickets |->
                     IF t \in TicketsOf[c.reward]
                     THEN [st |-> "active", in |-> FALSE, age |-> c.age] ELSE ticket[t]]
    /\ End(k)
    /\ UNCHANGED <<drop, left, crowded, late>>
    /\ UNCHANGED drawVars

(* An administrator cancels any ticket, at any time.                        *)
CancelTicket(t) ==
    /\ left.cancels > 0
    /\ left' = [left EXCEPT !.cancels = @ - 1]
    /\ ticket[t].st \notin {"none", "cancelled"}
    /\ ticket' = [ticket EXCEPT ![t].st = "cancelled", ![t].in = FALSE]
    /\ UNCHANGED <<drop, call, crowded, late>>
    /\ UNCHANGED rewardVars
    /\ UNCHANGED drawVars

-----------------------------------------------------------------------------
(* Applying tickets: the drop, the count of tickets in it, and the list of  *)
(* free tickets are read one after another.                                 *)
BeginApply(k, n) ==
    /\ drop = "active"
    /\ Begin(k, [op |-> "apply", at |-> "begun", n |-> n])
    /\ UNCHANGED <<ticket, drop, crowded, late>>
    /\ UNCHANGED rewardVars
    /\ UNCHANGED drawVars

InDrop == Assigned \intersect With({"active", "used", "winner"})

(* Slip: the limit is compared with this request alone.                     *)
CountRequested(k) ==
    /\ call[k].op = "apply"
    /\ call[k].at = "begun"
    /\ call[k].n <= PerUser
    /\ call' = [call EXCEPT ![k] = [op |-> "apply", at |-> "counted",
                                    n |-> call[k].n, saw |-> InDrop]]
    /\ UNCHANGED <<ticket, drop, left, crowded, late>>
    /\ UNCHANGED rewardVars
    /\ UNCHANGED drawVars

CountAssigned(k) ==
    /\ call[k].op = "apply"
    /\ call[k].at = "begun"
    /\ Cardinality(InDrop) + call[k].n <= PerUser
    /\ call' = [call EXCEPT ![k] = [op |-> "apply", at |-> "counted",
                                    n |-> call[k].n, saw |-> InDrop]]
    /\ UNCHANGED <<ticket, drop, left, crowded, late>>
    /\ UNCHANGED rewardVars
    /\ UNCHANGED drawVars

(* Any other list that is still to be assigned holds this one or is held by it. *)
Nested(list) ==
    \A l \in Calls :
        call[l].op = "apply" /\ call[l].at = "listed" =>
            call[l].list \subseteq list \/ list \subseteq call[l].list

ListFree(k) ==
    LET c == call[k] IN
    /\ c.op = "apply"
    /\ c.at = "counted"
    /\ Cardinality(Free) >= c.n
    /\ call' = [call EXCEPT ![k] = [op |-> "apply", at |-> "listed",
                                    list |-> Firsts(c.n, Free, ByAge)]]
    /\ crowded' = (crowded \/ ~(InDrop \subseteq c.saw) \/ ~Nested(Firsts(c.n, Free, ByAge)))
    /\ UNCHANGED <<ticket, drop, left, late>>
    /\ UNCHANGED rewardVars
    /\ UNCHANGED drawVars

(* A draw that has read its tickets and not yet written.                    *)
Drawing == \E k \in Calls : call[k].op = "draw" /\ call[k].at = "listed"

(* The guarded update: tickets that have gone meanwhile are left alone,     *)
(* though the answer counts them as applied. The drop is not looked at again. *)
Assign(k) ==
    LET c == call[k] IN
    /\ c.op = "apply"
    /\ c.at = "listed"
    /\ ticket' = [t \in Tickets |->
                     IF t \in c.list \intersect Free THEN [ticket[t] EXCEPT !.in = TRUE]
                     ELSE ticket[t]]
    /\ late' = IF drop = "active" /\ ~Drawing THEN late
               ELSE late \union (c.list \intersect Free)
    /\ End(k)
    /\ UNCHANGED <<drop, left, crowded>>
    /\ UNCHANGED rewardVars
    /\ UNCHANGED drawVars

-----------------------------------------------------------------------------
(* The drop *)

BeginActivate(k) ==
    /\ drop = "scheduled"
    /\ Begin(k, [op |-> "activate"])
    /\ UNCHANGED <<ticket, drop, crowded, late>>
    /\ UNCHANGED rewardVars
    /\ UNCHANGED drawVars

(* Written by id: a drop cancelled meanwhile is active again.               *)
Activate(k) ==
    /\ call[k].op = "activate"
    /\ drop' = "active"
    /\ End(k)
    /\ UNCHANGED <<ticket, left, crowded, late>>
    /\ UNCHANGED rewardVars
    /\ UNCHANGED drawVars

(* cancelDrop has no condition on the status; it gives the tickets that     *)
(* were not drawn back.                                                     *)
CancelDrop ==
    /\ left.cancels > 0
    /\ left' = [left EXCEPT !.cancels = @ - 1]
    /\ ticket' = [t \in Tickets |->
                     IF ticket[t].in /\ ticket[t].st = "active"
                     THEN [ticket[t] EXCEPT !.in = FALSE] ELSE ticket[t]]
    /\ drop' = "cancelled"
    /\ late' = late \ With({"active"})
    /\ UNCHANGED <<call, crowded>>
    /\ UNCHANGED rewardVars
    /\ UNCHANGED drawVars

BeginDraw(k) ==
    /\ drop = "active"
    /\ Begin(k, [op |-> "draw", at |-> "begun"])
    /\ UNCHANGED <<ticket, drop, crowded, late>>
    /\ UNCHANGED rewardVars
    /\ UNCHANGED drawVars

ListTickets(k) ==
    LET list == Assigned \intersect With({"active"}) IN
    /\ call[k].op = "draw"
    /\ call[k].at = "begun"
    /\ list # {}
    /\ call' = [call EXCEPT ![k] = [op |-> "draw", at |-> "listed", list |-> list,
                                    draws |-> draws]]
    /\ UNCHANGED <<ticket, drop, left, crowded, late>>
    /\ UNCHANGED rewardVars
    /\ UNCHANGED drawVars

Position(t, S) == Cardinality({u \in S : Rank[u] <= Rank[t]})

(* runDraw after its reads. The tickets selected are set to winner by id,   *)
(* whatever has become of them; every active ticket of the drop is used up, *)
(* whether or not it was among those read. An earlier draw's winners go.    *)
Draw(k) ==
    LET c == call[k]
        selected == Firsts(Winners + Reserves, c.list, ByHash)
        winning == Firsts(Winners, c.list, ByHash)
    IN
    /\ c.op = "draw"
    /\ c.at = "listed"
    /\ snapshot' = c.list
    /\ draws' = draws + 1
    /\ winner' = [t \in selected |->
                     [reserve |-> t \notin winning,
                      pos |-> IF t \in winning THEN Position(t, selected)
                              ELSE Position(t, selected) - Winners]]
    /\ ticket' = [t \in Tickets |->
                     CASE t \in winning -> [ticket[t] EXCEPT !.st = "winner"]
                       [] t \notin winning /\ ticket[t].in /\ ticket[t].st = "active" ->
                              [ticket[t] EXCEPT !.st = "used"]
                       [] OTHER -> ticket[t]]
    /\ drop' = "finished"
    /\ revived' = revived \union (winning \intersect With({"cancelled"}))
    /\ overtaken' = FALSE
    /\ End(k)
    /\ UNCHANGED <<left, crowded, late, choices>>
    /\ UNCHANGED rewardVars

-----------------------------------------------------------------------------
(* Winners *)

Places == {t \in DOMAIN winner : ~winner[t].reserve}

(* chooseReserveWinner reads the reserve t, the winner u of a place - the   *)
(* rejected one with the best position, or any the administrator names -    *)
(* and the last reserve position.                                           *)
BeginChoose(k, t) ==
    LET last == Max({winner[u].pos : u \in DOMAIN winner \ Places}) IN
    /\ t \in DOMAIN winner \ Places
    /\ \E u \in Places :
          Begin(k, [op |-> "choose", up |-> t, down |-> u, pos |-> winner[u].pos,
                    last |-> last + 1, draws |-> draws, choices |-> choices])
    /\ UNCHANGED <<ticket, drop, crowded, late>>
    /\ UNCHANGED rewardVars
    /\ UNCHANGED drawVars

Swapped(c) ==
    [t \in DOMAIN winner |->
        CASE t = c.up -> [winner[t] EXCEPT !.reserve = FALSE, !.pos = c.pos]
          [] t = c.down -> [winner[t] EXCEPT !.reserve = TRUE, !.pos = c.last]
          [] OTHER -> winner[t]]

OnePerPosition(w) ==
    \A t, u \in DOMAIN w : t # u => w[t].pos # w[u].pos \/ w[t].reserve # w[u].reserve

SwapWith(k, allowed) ==
    LET c == call[k] IN
    /\ c.op = "choose"
    /\ c.draws = draws
    /\ allowed
    /\ winner' = Swapped(c)
    /\ ticket' = [ticket EXCEPT ![c.up].st = "winner", ![c.down].st = "used"]
    /\ revived' = revived \union ({c.up, c.down} \intersect With({"cancelled"}))
    /\ choices' = choices + 1
    /\ overtaken' = (overtaken \/ choices > c.choices + 1)
    /\ End(k)
    /\ UNCHANGED <<drop, snapshot, draws, left, crowded, late>>
    /\ UNCHANGED rewardVars

(* Slip: no unique index over drop, position and reserve.                   *)
ChooseAnyway(k) == SwapWith(k, TRUE)

(* The unique index refuses what an overlapping choice has already given.   *)
Choose(k) == SwapWith(k, OnePerPosition(Swapped(call[k])))

-----------------------------------------------------------------------------
Next ==
    \/ \E k \in Calls :
          \/ \E r \in Rewards : CountTickets(k, r)
          \/ InsertTickets(k)
          \/ \E n \in 1 .. PerUser : BeginApply(k, n)
          \/ CountAssigned(k) \/ ListFree(k) \/ Assign(k)
          \/ BeginActivate(k) \/ Activate(k)
          \/ BeginDraw(k) \/ ListTickets(k) \/ Draw(k)
          \/ \E t \in Tickets : BeginChoose(k, t)
          \/ Choose(k)
          \/ Abort(k)
    \/ CancelDrop
    \/ \E t \in Tickets : CancelTicket(t)

Spec == Init /\ [][Next]_vars

-----------------------------------------------------------------------------
TypeOK ==
    /\ granted \subseteq Rewards
    /\ ticket \in [Tickets -> [st : Status, in : BOOLEAN, age : 0 .. MaxCalls]]
    /\ drop \in {"scheduled", "active", "finished", "cancelled"}
    /\ DOMAIN winner \subseteq snapshot
    /\ late \subseteq Tickets

(* A user holds no more tickets of a month than the limit, and has no more  *)
(* for one task than the task's, however grants and cancellations follow    *)
(* each other - unless two grants overlapped, for the count is not locked,  *)
(* and but for cancelled tickets that a draw or a choice has revived.       *)
LimitKept ==
    twins \/ /\ Cardinality(With({"active", "used", "winner"}) \ revived) <= MonthlyLimit
             /\ \A r \in Rewards : Cardinality(OfTask(TaskOf[r])) <= TaskLimit[TaskOf[r]]

(* A drop takes no more tickets of a user than it allows, also when two     *)
(* applications overlap: both list the oldest free tickets, and the second  *)
(* assigns only what the first has left. It takes an application that       *)
(* counted before and listed after another's commit, or two that did not    *)
(* find the same tickets free, to exceed it.                                *)
DropLimitKept == crowded \/ Cardinality(InDrop) <= PerUser

(* Both limits hold together.                                               *)
TicketsWithinLimits == LimitKept /\ DropLimitKept

(* What a draw leaves behind fits together: tickets used up have taken part *)
(* in it, a drop that has ended keeps no ticket waiting (both but for those *)
(* put in behind the draw's back or after the end), winning tickets have a  *)
(* place unless a second draw, overlapping the first, took it, and there    *)
(* are as many places as prizes, whoever is rejected and replaced: the      *)
(* index stops a choice that another has overtaken, but not always one that *)
(* two have, for the second may give the position back.                     *)
DrawIsWhole ==
    /\ With({"used"}) \subseteq snapshot \union late \union (IF draws > 1 THEN Tickets ELSE {})
    /\ drop = "finished" => Assigned \intersect With({"active"}) \subseteq late
    /\ draws = 1 => With({"winner"}) \subseteq Places
    /\ \A t \in Places : ticket[t].st \in {"winner", "cancelled"}
    /\ draws > 0 /\ ~overtaken =>
          Cardinality(Places) = Cardinality(Firsts(Winners, snapshot, ByHash))

(* Tickets stay within their limits, and a draw leaves them whole.          *)
DropsHold == TicketsWithinLimits /\ DrawIsWhole
=============================================================================
