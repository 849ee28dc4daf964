------------------------------ MODULE Notices -------------------------------
(* System notifications of one user: the worker's scan for meetups about to *)
(* start and subscriptions about to end, the reading of notifications, the  *)
(* cached unread count and list, and the cleanup of old rows.               *)
(*                                                                          *)
(* The windows of an occasion open and close by themselves. Redis holds the *)
(* count for all processes of the API, each process its own list; both live *)
(* for five seconds, that is, may go at any time. Blocked senders are left  *)
(* out: a system notification has none.                                     *)
EXTENDS Integers, FiniteSets, Sequences

CONSTANTS
    Meetups,        \* the user's places in meetups
    Subscriptions,
    Workers,        \* worker processes
    Processes,      \* processes of the API
    Calls,
    Batch,          \* systemNotificationBatchSize
    Bounds          \* records of bounds: turns, scans, marks, loads, faults; and
                    \* the occasions announced already

VARIABLES
    phase,      \* per occasion: before its window, inside, past it
    joined,     \* occasions that still concern the user
    notice,     \* Notification by dedupeKey: "none", "unread", "read"
    queued,     \* per occasion: pairs of rows push.dispatch, notification.create
    scan,       \* per worker: rows to handle, or idle
    count,      \* the count in Redis: [value, old] or None
    counting,   \* per process: the load of the count on its way
    list,       \* per process: the list in memory, [unread, old] or None
    listing,    \* per process: loads of the list on their way
    joinable,   \* processes with a load in pendingListLoads
    call,       \* per open call: marks whose caches are still to be cleared
    bound,      \* what is left of the bounds
    cut,        \* (history) occasions whose scan ended after the notice
    uncleared,  \* (history) TRUE: Redis did not take a deletion of the count
    created     \* (history) per occasion: notices created

vars == <<phase, joined, notice, queued, scan, count, counting, list, listing, joinable,
          call, bound, cut, uncleared, created>>
caches == <<count, counting, list, listing, joinable, call, uncleared>>
scans == <<queued, scan, cut, created>>
world == <<phase, joined>>

Occasions == Meetups \union Subscriptions
None == [value |-> -1]
Idle == [at |-> "idle"]
Unread == {o \in Occasions : notice[o] = "unread"}

Init ==
    /\ bound \in Bounds
    /\ phase = [o \in Occasions |-> IF o \in bound.told THEN "inside" ELSE "before"]
    /\ joined = Occasions
    /\ notice = [o \in Occasions |-> IF o \in bound.told THEN "unread" ELSE "none"]
    /\ queued = [o \in Occasions |-> IF o \in bound.told THEN 1 ELSE 0]
    /\ scan = [w \in Workers |-> Idle]
    /\ count = None
    /\ counting = [p \in Processes |-> None]
    /\ list = [p \in Processes |-> None]
    /\ listing = [p \in Processes |-> {}]
    /\ joinable = {}
    /\ call = [k \in Calls |-> Idle]
    /\ cut = {} /\ uncleared = FALSE
    /\ created = queued

Spend(what) == bound[what] > 0 /\ bound' = [bound EXCEPT ![what] = @ - 1]

(* An occasion's window opens or closes; a participant leaves.              *)
Turn(o) ==
    /\ Spend("turns")
    /\ \/ /\ phase[o] # "past"
          /\ phase' = [phase EXCEPT ![o] = IF @ = "before" THEN "inside" ELSE "past"]
          /\ UNCHANGED joined
       \/ o \in Meetups /\ joined' = joined \ {o} /\ UNCHANGED phase
    /\ UNCHANGED <<notice, scans, caches>>

-----------------------------------------------------------------------------
(* runSystemNotificationScan: one at a time in a process, the meetups       *)
(* first, then the subscriptions.                                           *)

(* Inside its window and without a notification of its key.                 *)
Due(kind) == {o \in kind \intersect joined : phase[o] = "inside" /\ notice[o] = "none"}

Elements(rows) == {rows[i] : i \in DOMAIN rows}
Orders(S, n) == {rows \in [1 .. n -> S] : \A i, j \in 1 .. n : rows[i] = rows[j] => i = j}

Read(w, at, kind) ==
    LET size == Cardinality(Due(kind))
    IN  \E rows \in Orders(Due(kind), IF size < Batch THEN size ELSE Batch) :
          scan' = [scan EXCEPT ![w] = [at |-> at, rows |-> rows, make |-> TRUE,
                                       seen |-> Elements(rows) \union
                                           IF at = "meetups" THEN {} ELSE scan[w].seen]]

BeginScan(w) ==
    /\ scan[w] = Idle
    /\ Spend("scans")
    /\ Read(w, "meetups", Meetups)
    /\ UNCHANGED <<world, notice, queued, caches, cut, created>>

ReadSubscriptions(w) ==
    /\ scan[w].at = "meetups" /\ scan[w].rows = <<>>
    /\ Read(w, "subscriptions", Subscriptions)
    /\ UNCHANGED <<world, notice, queued, caches, bound, cut, created>>

(* createSystemNotification: the notification, whose unique key another     *)
(* scan may have taken, and then, as a statement of its own, its two rows   *)
(* for the outbox. Mutant: the key is not unique.                           *)
CreateAgain(w) ==
    LET s == scan[w] IN
    /\ s # Idle /\ s.rows # <<>> /\ s.make
    /\ notice' = [notice EXCEPT ![Head(s.rows)] = "unread"]
    /\ created' = [created EXCEPT ![Head(s.rows)] = @ + 1]
    /\ scan' = [scan EXCEPT ![w].make = FALSE]
    /\ UNCHANGED <<world, queued, caches, bound, cut>>

Create(w) ==
    LET s == scan[w]
        o == Head(s.rows) IN
    /\ s # Idle /\ s.rows # <<>> /\ s.make
    /\ IF notice[o] = "none"
       THEN /\ notice' = [notice EXCEPT ![o] = "unread"]
            /\ created' = [created EXCEPT ![o] = @ + 1]
            /\ scan' = [scan EXCEPT ![w].make = FALSE]
       ELSE /\ scan' = [scan EXCEPT ![w].rows = Tail(s.rows)]
            /\ UNCHANGED <<notice, created>>
    /\ UNCHANGED <<world, queued, caches, bound, cut>>

Enqueue(w) ==
    LET s == scan[w] IN
    /\ s # Idle /\ s.rows # <<>> /\ ~s.make
    /\ queued' = [queued EXCEPT ![Head(s.rows)] = @ + 1]
    /\ scan' = [scan EXCEPT ![w].rows = Tail(s.rows), ![w].make = TRUE]
    /\ UNCHANGED <<world, notice, caches, bound, cut, created>>

EndScan(w) ==
    /\ scan[w].at = "subscriptions" /\ scan[w].rows = <<>>
    /\ scan' = [scan EXCEPT ![w] = Idle]
    /\ UNCHANGED <<world, notice, queued, caches, bound, cut, created>>

(* A statement throws, or the worker dies: the rest waits for another scan. *)
FailScan(w) ==
    /\ scan[w] # Idle
    /\ Spend("faults")
    /\ cut' = IF scan[w].make THEN cut ELSE cut \union {Head(scan[w].rows)}
    /\ scan' = [scan EXCEPT ![w] = Idle]
    /\ UNCHANGED <<world, notice, queued, caches, created>>

(* runRetentionCleanup: read notifications go after a year, by when their   *)
(* window is long past, and any scan that read its rows before.             *)
Retire(o) ==
    /\ notice[o] = "read" /\ phase[o] = "past"
    /\ \A w \in Workers : scan[w] # Idle => o \notin Elements(scan[w].rows)
    /\ notice' = [notice EXCEPT ![o] = "none"]
    /\ UNCHANGED <<world, scans, caches, bound>>

-----------------------------------------------------------------------------
(* markRead of one notification, markAllRead.                               *)

Aged(load) == IF load = None THEN None ELSE [load EXCEPT !.old = TRUE]

(* What the rows say is written first, the caches go afterwards; marking    *)
(* what is read already clears nothing. What other processes keep or load   *)
(* is old from now on.                                                      *)
Mark(k, p, S) ==
    LET now == S \intersect Unread IN
    /\ call[k] = Idle
    /\ Spend("marks")
    /\ notice' = [o \in Occasions |-> IF o \in now THEN "read" ELSE notice[o]]
    /\ call' = IF now = {} /\ S # Occasions THEN call
               ELSE [call EXCEPT ![k] = [at |-> "count", process |-> p]]
    /\ list' = [q \in Processes |-> IF q = p THEN list[q] ELSE Aged(list[q])]
    /\ listing' = [q \in Processes |-> IF q = p THEN listing[q]
                                        ELSE {Aged(l) : l \in listing[q]}]
    /\ UNCHANGED <<world, scans, count, counting, joinable, uncleared>>

(* The count goes from Redis; an error of Redis is swallowed. What a load   *)
(* has read by now may be older than the mark. Mutant: the count stays.     *)
ClearCountNever(k) ==
    /\ call[k].at = "count"
    /\ call' = [call EXCEPT ![k].at = "list"]
    /\ UNCHANGED <<world, notice, scans, count, counting, list, listing, joinable, bound,
                   uncleared>>

ClearCount(k) ==
    /\ call[k].at = "count"
    /\ \/ /\ count' = None
          /\ UNCHANGED <<uncleared, bound>>
       \/ /\ Spend("faults")
          /\ uncleared' = TRUE
          /\ UNCHANGED count
    /\ counting' = [p \in Processes |-> Aged(counting[p])]
    /\ call' = [call EXCEPT ![k].at = "list"]
    /\ UNCHANGED <<world, notice, scans, list, listing, joinable>>

(* The lists of this process go; loads on their way stay on their way, and  *)
(* nobody joins them any more.                                              *)
ClearList(k) ==
    LET p == call[k].process IN
    /\ call[k].at = "list"
    /\ list' = [list EXCEPT ![p] = None]
    /\ listing' = [listing EXCEPT ![p] = {Aged(l) : l \in @}]
    /\ joinable' = joinable \ {p}
    /\ call' = [call EXCEPT ![k] = Idle]
    /\ UNCHANGED <<world, notice, scans, count, counting, bound, uncleared>>

-----------------------------------------------------------------------------
(* getUnreadCount and listNotifications: a cached answer, or the load       *)
(* another caller has begun, or a load of one's own, whose answer is kept.  *)
LoadCount(p) ==
    /\ count = None /\ counting[p] = None
    /\ Spend("loads")
    /\ counting' = [counting EXCEPT ![p] = [value |-> Cardinality(Unread), old |-> FALSE]]
    /\ UNCHANGED <<world, notice, scans, count, list, listing, joinable, call, uncleared>>

StoreCount(p) ==
    /\ counting[p] # None
    /\ count' = counting[p]
    /\ counting' = [counting EXCEPT ![p] = None]
    /\ UNCHANGED <<world, notice, scans, list, listing, joinable, call, bound, uncleared>>

LoadList(p) ==
    /\ list[p] = None /\ p \notin joinable
    /\ Spend("loads")
    /\ listing' = [listing EXCEPT ![p] = @ \union {[value |-> Unread, old |-> FALSE]}]
    /\ joinable' = joinable \union {p}
    /\ UNCHANGED <<world, notice, scans, count, counting, list, call, uncleared>>

StoreList(p) ==
    \E l \in listing[p] :
        /\ list' = [list EXCEPT ![p] = l]
        /\ listing' = [listing EXCEPT ![p] = @ \ {l}]
        /\ joinable' = joinable \ {p}
        /\ UNCHANGED <<world, notice, scans, count, counting, call, bound, uncleared>>

Expire ==
    /\ \/ count # None /\ count' = None /\ UNCHANGED list
       \/ \E p \in Processes : /\ list[p] # None
                               /\ list' = [list EXCEPT ![p] = None]
                               /\ UNCHANGED count
    /\ UNCHANGED <<world, notice, scans, counting, listing, joinable, call, bound, uncleared>>

Next ==
    \/ \E o \in Occasions : Turn(o) \/ Retire(o)
    \/ \E w \in Workers : \/ BeginScan(w) \/ Create(w) \/ Enqueue(w)
                          \/ ReadSubscriptions(w) \/ EndScan(w) \/ FailScan(w)
    \/ \E k \in Calls, p \in Processes, S \in {Occasions} \union {{o} : o \in Occasions} :
          Mark(k, p, S)
    \/ \E k \in Calls : ClearCount(k) \/ ClearList(k)
    \/ \E p \in Processes : LoadCount(p) \/ StoreCount(p) \/ LoadList(p) \/ StoreList(p)
    \/ Expire

Spec == Init /\ [][Next]_vars

-----------------------------------------------------------------------------
(* However many workers scan, an occasion is announced once; and what was   *)
(* created is queued for push and bus once, unless the scan ended between   *)
(* the two statements: then it never is.                                    *)
AnnouncedOnce ==
    \A o \in Occasions :
        /\ created[o] <= 1
        /\ queued[o] <= created[o]
        /\ (\A w \in Workers : scan[w] = Idle) =>
               (queued[o] < created[o] <=> o \in cut)

(* A scan that ends well leaves no occasion it has read without a notice.   *)
NoneMissed ==
    \A w \in Workers :
        scan[w].at = "subscriptions" /\ scan[w].rows = <<>> =>
            \A o \in scan[w].seen : created[o] > 0

(* Once a mark is through, the count does not fall behind it: a cached      *)
(* count is above the number of unread rows only where its load had read    *)
(* them before the mark, or Redis did not take the deletion.                *)
CountFollows ==
    count # None /\ ~count.old /\ ~uncleared /\ (\A k \in Calls : call[k].at # "count")
        => count.value <= Cardinality(Unread)

(* So with the list of the process that marked, while other processes may   *)
(* go on showing theirs for its five seconds.                               *)
ListFollows ==
    \A p \in Processes :
        list[p] # None /\ ~list[p].old /\ (\A k \in Calls : call[k] = Idle)
            => list[p].value \subseteq Unread

(* Occasions are announced once, and what is shown follows what was marked. *)
NoticesHold == AnnouncedOnce /\ NoneMissed /\ CountFollows /\ ListFollows
=============================================================================
