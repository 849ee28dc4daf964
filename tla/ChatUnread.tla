----------------------------- MODULE ChatUnread -----------------------------
(* The unread counter of the members of one chat: ChatMember.unreadCount.   *)
(*                                                                          *)
(* A sender's transaction stores the message and either adds one to the     *)
(* counters itself or leaves an outbox row for the worker; a reader's       *)
(* transaction sets lastReadAt and clears the counter.  The worker handles  *)
(* a row alone, page by page, or together with other rows of the same       *)
(* sender; system messages leave a row that makes it count again from the   *)
(* Message table.  Clocks are read before a transaction commits, rows are   *)
(* delivered at least once (module Outbox), and two of the worker's three   *)
(* updates compute their numbers before they hold the members' rows.        *)
EXTENDS Naturals, FiniteSets, FiniteSetsExt

CONSTANTS
    Members,        \* ChatMember ids, numbers: pages follow their order
    Blocked,        \* the UserBlock pairs, each a set of two members
    SendKinds,      \* the kinds of send that occur, out of Kinds
    FanoutModes,    \* "batch": rows of one sender are grouped; "single": not
    PageSize,       \* messageNotificationBatchSize
    MaxTasks,       \* rows or groups in work at a time
    MaxMessages, MaxReads, MaxDeletes, MaxAbandons, MaxClock,  \* bounds
    MaxInAll        \* bound on reads, deletions, abandoned work and ticks in all

(* inline: counted by the sender; queued: by a row that carries the time;   *)
(* recount: a system message, whose row carries no time.                    *)
Kinds == {"inline", "queued", "recount"}

VARIABLES
    clock,          \* Date.now, starting at 1
    sends,          \* messages whose time is taken and that are not stored
    messages,       \* the Message table
    lastReadAt,     \* per member, 0 for NULL
    unread,         \* per member, ChatMember.unreadCount
    reads,          \* reads whose time is taken and that are not stored
    rows,           \* unread fan-out rows of the outbox that are not done
    tasks,          \* what the worker has in hand
    \* history, read by properties and bounds only
    ever,           \* every message that was stored
    counted,        \* per member, the messages some update has counted
    drift,          \* per member, what has disturbed the counter
    readsBegun, abandons

vars == <<clock, sends, messages, lastReadAt, unread, reads, rows, tasks,
          ever, counted, drift, readsBegun, abandons>>

history == <<ever, counted, drift, readsBegun, abandons>>

MessageIds == 1 .. MaxMessages
Times == 1 .. MaxClock

Messages ==
    [id : MessageIds, sender : Members, at : Times, kind : SendKinds]

(* A row: after is the cursor, the member id its page starts behind.        *)
Rows == [no : Nat, msg : Messages, after : Members \cup {0}]

Stages == {"taken", "computed", "written"}

(* What the worker has in hand: rows it handles together, the members it    *)
(* counts them for, and once computed their numbers and what they saw.      *)
Tasks ==
    [kind : {"single", "batch", "recount"}, rows : SUBSET Rows,
     page : SUBSET Members, stage : Stages, counts : [Members -> Nat],
     seen : SUBSET MessageIds]

(* What can set a counter apart from the messages it stands for:            *)
(*   gone    a newer message was deleted                                    *)
(*   twice   a message was counted again                                    *)
(*   merged  two messages of one group had the same time                    *)
(*   late    a read was stored after a message newer than its own time      *)
(*   stale   a computed number was overtaken before it was written          *)
Causes == {"gone", "twice", "merged", "late", "stale"}

-----------------------------------------------------------------------------
(* Who a message counts for.                                                *)

Reaches(msg, m) == m # msg.sender /\ {m, msg.sender} \notin Blocked

Newer(msg, m) == lastReadAt[m] < msg.at

CountsFor(msg, m) == Reaches(msg, m) /\ Newer(msg, m)

(* What a recount returns, and what the verifier compares with.             *)
Unread(m) == {msg \in messages : CountsFor(msg, m)}

Ids(S) == {msg.id : msg \in S}

(* A recount that has its numbers and has not written them.                 *)
Recounting(m) == \E t \in tasks :
    t.kind = "recount" /\ t.stage = "computed" /\ m \in t.page

(* Any update that has its numbers and has not written them.                *)
Computing(m) == \E t \in tasks : t.stage = "computed" /\ m \in t.page

Disturb(cause, who) ==
    [m \in Members |-> drift[m] \cup (IF m \in who THEN {cause} ELSE {})]

Count(ids, who) ==
    [m \in Members |-> counted[m] \cup (IF m \in who THEN ids ELSE {})]

NewRow(msg, after) ==
    [no |-> CHOOSE n \in 1 .. Cardinality(rows) + 1 : \A r \in rows : r.no # n,
     msg |-> msg, after |-> after]

Init ==
    /\ clock = 1
    /\ sends = {} /\ messages = {} /\ reads = {} /\ rows = {} /\ tasks = {}
    /\ lastReadAt = [m \in Members |-> 0]
    /\ unread = [m \in Members |-> 0]
    /\ ever = {}
    /\ counted = [m \in Members |-> {}]
    /\ drift = [m \in Members |-> {}]
    /\ readsBegun = 0 /\ abandons = 0

Calm == readsBegun + Cardinality(ever \ messages) + abandons + clock <= MaxInAll

-----------------------------------------------------------------------------
(* Senders.                                                                 *)

(* A send takes its time before its statement or transaction runs.          *)
BeginSend(u, kind) ==
    LET id == Cardinality(ever) + Cardinality(sends) + 1 IN
    /\ id <= MaxMessages
    /\ sends' = sends \cup {[id |-> id, sender |-> u, at |-> clock, kind |-> kind]}
    /\ UNCHANGED <<clock, messages, lastReadAt, unread, reads, rows, tasks, history>>

(* The message is stored together with its increments or its row.  The      *)
(* inline increments are evaluated on the rows they lock.                   *)
CommitSend(msg) ==
    LET others == Members \ {msg.sender}
        hit == {m \in others : CountsFor(msg, m)} IN
    /\ sends' = sends \ {msg}
    /\ messages' = messages \cup {msg}
    /\ ever' = ever \cup {msg}
    /\ IF msg.kind = "inline"
         THEN /\ unread' = [m \in Members |->
                              unread[m] + IF m \in hit THEN 1 ELSE 0]
              /\ counted' = Count({msg.id}, others)
              /\ drift' = Disturb("stale", {m \in hit : Recounting(m)})
              /\ rows' = rows
         ELSE /\ rows' = rows \cup {NewRow(msg, 0)}
              /\ UNCHANGED <<unread, counted, drift>>
    /\ UNCHANGED <<clock, lastReadAt, reads, tasks, readsBegun, abandons>>

(* Only the message and its attachments go; counters and rows stay.         *)
Delete(msg) ==
    /\ Cardinality(ever \ messages) < MaxDeletes /\ Calm
    /\ messages' = messages \ {msg}
    /\ drift' = Disturb("gone", {m \in Members : CountsFor(msg, m)})
    /\ UNCHANGED <<clock, sends, lastReadAt, unread, reads, rows, tasks,
                   ever, counted, readsBegun, abandons>>

-----------------------------------------------------------------------------
(* Readers.                                                                 *)

(* A reader names a message it may see; the time is taken before the        *)
(* member row is updated.                                                   *)
BeginRead(m) ==
    /\ readsBegun < MaxReads /\ Calm
    /\ \E msg \in messages : {m, msg.sender} \notin Blocked
    /\ reads' = reads \cup {[member |-> m, at |-> clock]}
    /\ readsBegun' = readsBegun + 1
    /\ UNCHANGED <<clock, sends, messages, lastReadAt, unread, rows, tasks,
                   ever, counted, drift, abandons>>

(* Mutant: a read that moves lastReadAt and leaves the counter.             *)
CommitReadKeeps(r) ==
    /\ reads' = reads \ {r}
    /\ lastReadAt' = [lastReadAt EXCEPT ![r.member] = r.at]
    /\ drift' = [drift EXCEPT ![r.member] = {}]
    /\ UNCHANGED <<clock, sends, messages, unread, rows, tasks,
                   ever, counted, readsBegun, abandons>>

(* The counter is cleared whatever message was named.                       *)
CommitRead(r) ==
    LET m == r.member
        after(S) == {msg \in S : Reaches(msg, m) /\ r.at < msg.at}
        late == \E msg \in after(messages) : msg.id \in counted[m]
        gone == after(ever \ messages) # {} IN
    /\ reads' = reads \ {r}
    /\ lastReadAt' = [lastReadAt EXCEPT ![m] = r.at]
    /\ unread' = [unread EXCEPT ![m] = 0]
    /\ drift' = [drift EXCEPT ![m] = (IF late THEN {"late"} ELSE {})
                   \cup (IF gone THEN {"gone"} ELSE {})
                   \cup (IF Computing(m) THEN {"stale"} ELSE {})]
    /\ UNCHANGED <<clock, sends, messages, rows, tasks,
                   ever, counted, readsBegun, abandons>>

-----------------------------------------------------------------------------
(* The worker's fan-out handler.                                            *)

Free(r) == \A t \in tasks : r \notin t.rows

InPage(m, row, wanted) ==
    Cardinality({k \in wanted : k > row.after /\ k <= m}) <= PageSize

(* The members one handling of a row covers.                                *)
PageOf(row) ==
    LET wanted == {m \in Members : m # row.msg.sender /\ m > row.after}
    IN  {m \in wanted : InPage(m, row, wanted)}

(* Mutant: every page is taken for the last one.                            *)
HasMoreNever(row) == FALSE

HasMore(row) ==
    \E m \in Members : m # row.msg.sender /\ m > row.after /\ m \notin PageOf(row)

(* Rows that a worker with batch claims puts together.                      *)
Batchable(row) == row.after = 0 /\ row.msg.kind = "queued"

Task(kind, rs, page) ==
    [kind |-> kind, rows |-> rs, page |-> page, stage |-> "taken",
     counts |-> [m \in Members |-> 0], seen |-> {}]

(* One row: the next page gets its row before this page is counted.         *)
TakeRow(row) ==
    /\ Cardinality(tasks) < MaxTasks
    /\ Free(row)
    /\ Batchable(row) => "single" \in FanoutModes
    /\ tasks' = tasks \cup
         {Task(IF row.msg.kind = "queued" THEN "single" ELSE "recount",
               {row}, PageOf(row))}
    /\ rows' = rows \cup
         IF HasMore(row) THEN {NewRow(row.msg, Max(PageOf(row)))} ELSE {}
    /\ UNCHANGED <<clock, sends, messages, lastReadAt, unread, reads, history>>

(* Fresh rows of one sender that were claimed together.                     *)
TakeGroup(rs) ==
    /\ Cardinality(tasks) < MaxTasks
    /\ "batch" \in FanoutModes /\ rs # {}
    /\ \A r \in rs : Batchable(r) /\ Free(r)
    /\ \E u \in Members :
         /\ \A r \in rs : r.msg.sender = u
         /\ tasks' = tasks \cup {Task("batch", rs, Members \ {u})}
    /\ UNCHANGED <<clock, sends, messages, lastReadAt, unread, reads, rows, history>>

(* Mutant: increments that do not look at lastReadAt.                       *)
IncrementsAnyTime(t, m) ==
    Cardinality({r.msg.at : r \in {x \in t.rows : Reaches(x.msg, m)}})

(* How many of the group's times are newer than the member's lastReadAt:    *)
(* equal times are one.                                                     *)
Increments(t, m) ==
    Cardinality({r.msg.at : r \in {x \in t.rows : CountsFor(x.msg, m)}})

(* The increments of a group and the counts of a recount are computed on a  *)
(* snapshot; the update then waits for the member rows.                     *)
Compute(t) ==
    /\ t.stage = "taken"
    /\ t.kind \in {"batch", "recount"}
    /\ tasks' = (tasks \ {t}) \cup
         {[t EXCEPT !.stage = "computed",
                    !.seen = Ids(messages),
                    !.counts = [m \in Members |->
                       IF m \notin t.page THEN 0
                       ELSE IF t.kind = "batch" THEN Increments(t, m)
                       ELSE Cardinality(Unread(m))]]}
    /\ UNCHANGED <<clock, sends, messages, lastReadAt, unread, reads, rows, history>>

(* Mutant: a recount that is added to the counter.                          *)
WrittenAdds(t, m) ==
    unread[m] + IF t.kind = "single" THEN Increments(t, m) ELSE t.counts[m]

(* Mutant: a group that adds one, however many rows it has.                 *)
WrittenOnePerGroup(t, m) ==
    CASE t.kind = "single"  -> unread[m] + Increments(t, m)
      [] t.kind = "batch"   -> unread[m] + IF t.counts[m] > 0 THEN 1 ELSE 0
      [] t.kind = "recount" -> t.counts[m]

(* What a write leaves in a member's counter.                               *)
Written(t, m) ==
    CASE t.kind = "single"  -> unread[m] + Increments(t, m)
      [] t.kind = "batch"   -> unread[m] + t.counts[m]
      [] t.kind = "recount" -> t.counts[m]

Counts(t) == IF t.kind = "recount" THEN t.seen ELSE {r.msg.id : r \in t.rows}

(* The causes a write adds for a member it changes.                         *)
Twice(t, m) == t.kind # "recount" /\ \E r \in t.rows :
    r.msg.id \in counted[m] /\ CountsFor(r.msg, m)

Merged(t, m) == t.kind = "batch" /\ \E r, s \in t.rows :
    r # s /\ r.msg.at = s.msg.at /\ CountsFor(r.msg, m)

Overtakes(t, m) == \E o \in tasks \ {t} :
    o.kind = "recount" /\ o.stage = "computed" /\ m \in o.page

Write(t) ==
    /\ t.stage = IF t.kind = "single" THEN "taken" ELSE "computed"
    /\ unread' = [m \in Members |-> IF m \in t.page THEN Written(t, m) ELSE unread[m]]
    /\ counted' = Count(Counts(t), t.page)
    /\ drift' = [m \in Members |-> IF m \notin t.page THEN drift[m] ELSE drift[m]
                   \cup (IF Twice(t, m) THEN {"twice"} ELSE {})
                   \cup (IF Merged(t, m) THEN {"merged"} ELSE {})
                   \cup (IF Overtakes(t, m) THEN {"stale"} ELSE {})]
    /\ tasks' = (tasks \ {t}) \cup {[t EXCEPT !.stage = "written"]}
    /\ UNCHANGED <<clock, sends, messages, lastReadAt, reads, rows,
                   ever, readsBegun, abandons>>

(* Mutant: rows that are done once their numbers are computed.              *)
FinishBeforeWrite(t) ==
    /\ t.stage \in {"computed", "written"}
    /\ rows' = rows \ t.rows
    /\ tasks' = tasks \ {t}
    /\ UNCHANGED <<clock, sends, messages, lastReadAt, unread, reads, history>>

Finish(t) ==
    /\ t.stage = "written"
    /\ rows' = rows \ t.rows
    /\ tasks' = tasks \ {t}
    /\ UNCHANGED <<clock, sends, messages, lastReadAt, unread, reads, history>>

(* A crash, an exception or a lost answer: the rows stay and come back.     *)
Abandon(t) ==
    /\ abandons < MaxAbandons /\ Calm
    /\ abandons' = abandons + 1
    /\ tasks' = tasks \ {t}
    /\ UNCHANGED <<clock, sends, messages, lastReadAt, unread, reads, rows,
                   ever, counted, drift, readsBegun>>

Tick ==
    /\ clock < MaxClock /\ Calm
    /\ clock' = clock + 1
    /\ UNCHANGED <<sends, messages, lastReadAt, unread, reads, rows, tasks, history>>

Take == (\E r \in rows : TakeRow(r)) \/ (\E rs \in SUBSET rows : TakeGroup(rs))

Work(t) == Compute(t) \/ Write(t) \/ Finish(t)

Next ==
    \/ \E u \in Members, kind \in SendKinds : BeginSend(u, kind)
    \/ \E msg \in sends : CommitSend(msg)
    \/ \E msg \in messages : Delete(msg)
    \/ \E m \in Members : BeginRead(m)
    \/ \E r \in reads : CommitRead(r)
    \/ Take
    \/ \E t \in tasks : Work(t) \/ Abandon(t)
    \/ Tick

Spec == Init /\ [][Next]_vars

(* The worker polls for rows and goes on with what it has in hand.          *)
LiveSpec == Spec /\ WF_vars(Take) /\ WF_vars(\E t \in tasks : Work(t))

-----------------------------------------------------------------------------
(* Properties.                                                              *)

(* Tables, tasks and histories keep their shape; no counter goes below      *)
(* zero (ChatMember.unreadCount has no such constraint in the schema).      *)
TypeOK ==
    /\ clock \in 1 .. MaxClock \cup {1}
    /\ sends \subseteq Messages
    /\ ever \subseteq Messages
    /\ messages \subseteq ever
    /\ lastReadAt \in [Members -> 0 .. clock]
    /\ unread \in [Members -> Nat]
    /\ reads \subseteq [member : Members, at : 1 .. clock]
    /\ rows \subseteq Rows
    /\ tasks \subseteq Tasks
    /\ \A t \in tasks : t.rows \subseteq rows
    /\ counted \in [Members -> SUBSET MessageIds]
    /\ drift \in [Members -> SUBSET Causes]
    /\ readsBegun \in 0 .. MaxReads
    /\ abandons \in 0 .. MaxAbandons

(* Nothing is left for the worker to do.                                    *)
Quiet == rows = {}

(* A counter nothing has disturbed is, at every moment, the number of the   *)
(* newer visible messages that some update has counted: increments by       *)
(* senders, single rows and groups, recounts and reads agree on what they   *)
(* count in whatever order they commit.                                     *)
Accounted == \A m \in Members :
    drift[m] = {} =>
        unread[m] = Cardinality({msg \in Unread(m) : msg.id \in counted[m]})

(* A counter shows more than a recount would only where a message was       *)
(* deleted, a row was handled again after its increments, a recount met     *)
(* rows that were still waiting, or a computed number was overtaken.        *)
NeverAbove == \A m \in Members :
    drift[m] \cap {"gone", "twice", "stale"} = {}
        => unread[m] <= Cardinality(Unread(m))

(* When no row is left a counter shows less than a recount would only       *)
(* where a group held equal times, a read was overtaken by a message, or a  *)
(* computed number was overtaken.                                           *)
NeverBelowWhenQuiet == \A m \in Members :
    Quiet /\ drift[m] \cap {"merged", "late", "stale"} = {}
        => unread[m] >= Cardinality(Unread(m))

(* When no row is left every stored message was counted for every member    *)
(* it reaches: paging, grouping and redelivery skip nobody.                 *)
NoneForgotten == Quiet => \A msg \in messages : \A m \in Members :
    Reaches(msg, m) => msg.id \in counted[m]

(* A member who has read past everything sees no unread messages, whatever  *)
(* was deleted, counted twice or read late, unless a number computed before *)
(* the read was written after it.                                           *)
NoPhantom == \A m \in Members :
    unread[m] > 0 /\ "stale" \notin drift[m]
        => \E msg \in ever : CountsFor(msg, m)

(* A counter differs from a recount, or shows what has been read, only as   *)
(* what has happened to it allows.                                          *)
DriftExplained == NeverAbove /\ NeverBelowWhenQuiet /\ NoPhantom

(* What database.md says of the column: it stores the materialized unread   *)
(* count, which db:verify:chat-unread compares with COUNT(Message).         *)
Materialized == Quiet => \A m \in Members : unread[m] = Cardinality(Unread(m))

(* Once the worker's faults stop, a stored message is counted for everyone  *)
(* it reaches, unless it is deleted first.                                  *)
EventuallyCounted == \A id \in MessageIds : \A m \in Members :
    (\E msg \in ever : msg.id = id /\ Reaches(msg, m)) ~> (id \in counted[m] \/ \E msg \in ever \ messages : msg.id = id)
=============================================================================
