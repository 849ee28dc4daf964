------------------------------- MODULE MCLive -------------------------------
(* What must happen in the end, on small instances for TLC: the worker's    *)
(* queue, and the unread counters it computes page by page.  Each behaviour *)
(* is one of one of the two, chosen at the start by focus; they take turns  *)
(* at the same variables.                                                   *)
EXTENDS Integers

CONSTANT none    \* no row

VARIABLES
    focus,
    v1, v2, v3, v4, v5, v6, v7, v8, v9, v10, v11, v12, v13

everything == <<focus, v1, v2, v3, v4, v5, v6, v7, v8, v9, v10, v11, v12, v13>>

-----------------------------------------------------------------------------
(* The queue: one row; the first worker claims in batches, the second one   *)
(* row at a time; a crash, an overrun and a failed write.                   *)
Workers == {"w1", "w2"}
Events == {1}

Box == INSTANCE Outbox WITH
    Events <- Events, Workers <- Workers, MaxAttempts <- 2, StaleAfter <- 2,
    RetryStep <- 1, RetryCap <- 2, ClaimLag <- 1, MaxEventsPerRun <- 2,
    BatchWorkers <- {"w1"}, BatchKey <- [e \in Events |-> "alone"], NoKey <- "alone",
    None <- none, MaxCrashes <- 1, MaxOverruns <- 1, MaxDbErrors <- 1,
    status <- v1, attempts <- v2, avail <- v3, lockAge <- v4, running <- v5,
    left <- v6, reading <- v7, tasks <- v8, ran <- v9, crashes <- v10,
    overruns <- v11, dbErrors <- v12, disturbed <- v13

InBox == focus = "outbox" /\ UNCHANGED focus

BoxFairness ==
    /\ WF_everything(InBox /\ Box!Tick)
    /\ \A w \in Workers : WF_everything(InBox /\ Box!Fetch(w))
    /\ \A w \in Workers : WF_everything(InBox /\ \E t \in Box!TasksOf(w) : Box!Work(t))

(* See Outbox: every row ends up done or failed for good, although          *)
(* processes crash, leases run out and reports of failure get lost.         *)
EventuallySettled == \A e \in Events :
    (focus = "outbox" /\ v1[e] # "absent") ~> [](focus = "outbox" /\ v1[e] \in {"done", "failed"})

-----------------------------------------------------------------------------
(* The counters: three members of whom two block each other, pages of one   *)
(* member, tasks that are abandoned and taken again.                        *)
Members == {1, 2, 3}

Unread == INSTANCE ChatUnread WITH
    Members <- Members, Blocked <- {{1, 3}}, SendKinds <- {"queued", "recount"},
    FanoutModes <- {"batch", "single"}, PageSize <- 1, MaxTasks <- 1, MaxMessages <- 2,
    MaxReads <- 1, MaxDeletes <- 1, MaxAbandons <- 1, MaxClock <- 2, MaxInAll <- 1,
    clock <- v1, sends <- v2, messages <- v3, lastReadAt <- v4, unread <- v5,
    reads <- v6, rows <- v7, tasks <- v8, ever <- v9, counted <- v10, drift <- v11,
    readsBegun <- v12, abandons <- v13

Counting == focus = "unread" /\ UNCHANGED focus

CountingFairness ==
    /\ WF_everything(Counting /\ Unread!Take)
    /\ WF_everything(Counting /\ \E t \in v8 : Unread!Work(t))

(* See ChatUnread: a message is counted for everybody it reaches, unless it *)
(* is deleted first.                                                        *)
EventuallyCounted == \A id \in Unread!MessageIds : \A m \in Members :
    (focus = "unread" /\ \E msg \in v9 : msg.id = id /\ Unread!Reaches(msg, m))
        ~> (focus = "unread" /\ (id \in v10[m] \/ \E msg \in v9 \ v3 : msg.id = id))

-----------------------------------------------------------------------------
Init ==
    \/ focus = "outbox" /\ Box!Init
    \/ focus = "unread" /\ Unread!Init

Next ==
    \/ InBox /\ Box!Next
    \/ Counting /\ Unread!Next

Spec == Init /\ [][Next]_everything /\ BoxFairness /\ CountingFairness
=============================================================================
