----------------------------- MODULE ImportRuns -----------------------------
(***************************************************************************)
(* The runs that import external content into one city: requested by an    *)
(* administrator or by schedule, executed by the scans of the worker       *)
(* processes, expired when they seem interrupted.  The catalogue of places *)
(* is imported in slices, each of which asks for the next by its offset    *)
(* into a list that is fetched anew.                                       *)
(***************************************************************************)
EXTENDS Integers, Sequences, SequencesExt, FiniteSets, FiniteSetsExt

CONSTANTS
    Processes,      \* worker processes
    Bounds,         \* what a behaviour may have of each: the team of scans that are
                    \* on, pairs of a process and "manual" or "scheduled"; runs, ticks,
                    \* faults, changes of the source
    Places,         \* numbers of places, in the order of their addresses
    Limit,          \* catalogLimit: places in a slice
    StaleAfter,     \* ticks after which a running run counts as interrupted
    Grace           \* STALE_GRACE_MS in ticks

VARIABLES
    bound,      \* the one of Bounds
    site,       \* the places the source lists
    item,       \* per place, the row imported from it
    runs,       \* the rows of ExternalImportRun, by id
    ex,         \* what each scan is doing
    left,       \* asked for and not dealt with since
    lost,       \* the chain of slices was cut, or the list changed under it
    began,      \* when the import of the catalogue under way was asked for
    clock, faults, changes

vars == <<bound, site, item, runs, ex, left, lost, began, clock, faults, changes>>

-----------------------------------------------------------------------------
None == 0
Unseen == [status |-> "none", seen |-> -1]
Idle == [phase |-> "idle", run |-> None, offset |-> 0, slice |-> <<>>, total |-> 0,
         given |-> FALSE, fetched |-> 0, normalized |-> 0, skipped |-> 0,
         old |-> {}, cutoff |-> 0, queue |-> <<>>]
Ids == DOMAIN runs
team == bound.team
Busy(e) == ex[e].phase # "idle"
Catalog(r) == runs[r].catalog
Active(r) == runs[r].status \in {"pending", "running"}

Executing(e) == Busy(e) /\ ex[e].run # None
Asking(e) == ex[e].phase \in {"expire", "resume", "create"}
UnderWay ==
    \/ \E r \in Ids : Catalog(r) /\ Active(r)
    \/ \E e \in team : \/ Asking(e)
                       \/ Executing(e) /\ Catalog(ex[e].run)
                       \/ \E i \in DOMAIN ex[e].queue : Catalog(ex[e].queue[i])

Row(catalog, status, offset) ==
    [catalog |-> catalog, status |-> status, offset |-> offset, since |-> clock,
     fetched |-> 0, normalized |-> 0, skipped |-> 0]

Init ==
    /\ bound \in Bounds
    /\ site \in {Places, Places \ {1}}
    /\ item = [p \in Places |-> Unseen]
    /\ runs = <<>>
    /\ ex = [e \in team |-> Idle]
    /\ left = {} /\ lost = FALSE /\ began = 0
    /\ clock = 0 /\ faults = 0 /\ changes = 0

Go(e, phase) == [ex EXCEPT ![e].phase = phase]
Fault == faults < bound.faults /\ faults' = faults + 1
Rest == <<bound, site, item, left, lost, began, clock, changes>>

-----------------------------------------------------------------------------
(* Requests.                                                               *)

\* The administrator asks for the catalogue, from its first slice.
CreateImportRun ==
    /\ Len(runs) < bound.runs
    /\ runs' = Append(runs, Row(TRUE, "pending", 0))
    /\ IF UnderWay THEN UNCHANGED <<left, lost, began>>
       ELSE left' = site /\ lost' = FALSE /\ began' = clock
    /\ UNCHANGED <<bound, site, item, ex, clock, faults, changes>>

\* The schedule imports what the source lists by default.
RunImport(e) ==
    /\ e[2] = "scheduled" /\ ~Busy(e) /\ Len(runs) < bound.runs
    /\ runs' = Append(runs, Row(FALSE, "running", 0))
    /\ ex' = [ex EXCEPT ![e] = [Idle EXCEPT !.phase = "discover", !.run = Len(runs) + 1]]
    /\ UNCHANGED <<Rest, faults>>

-----------------------------------------------------------------------------
(* The scan for pending runs first expires those that seem interrupted.    *)

Interrupted(cutoff) == {r \in Ids : runs[r].status = "running" /\ runs[r].since < cutoff}

Scan(e) ==
    /\ e[2] = "manual" /\ ~Busy(e)
    /\ \E r \in Ids : Active(r)
    /\ LET cutoff == clock - StaleAfter
       IN  ex' = [ex EXCEPT ![e] = [Idle EXCEPT !.phase = "expire", !.cutoff = cutoff,
                                                !.old = Interrupted(cutoff)]]
    /\ UNCHANGED <<Rest, runs, faults>>

FailStaleRunningRuns(e) ==
    /\ ex[e].phase = "expire"
    /\ LET expired == Interrupted(ex[e].cutoff)
       IN  runs' = [r \in Ids |-> IF r \in expired THEN [runs[r] EXCEPT !.status = "failed"]
                                  ELSE runs[r]]
    /\ ex' = Go(e, "resume")
    /\ UNCHANGED <<Rest, faults>>

ActiveCatalog == \E r \in Ids : Catalog(r) /\ Active(r)

\* The slice after the interrupted one is asked for.
EnqueueResumeNext(e) ==
    /\ ex[e].phase = "resume" /\ ex[e].old # {}
    /\ LET r == Min(ex[e].old)
           asks == Catalog(r) /\ ~ActiveCatalog
       IN  ex' = [ex EXCEPT ![e].old = @ \ {r}, ![e].offset = runs[r].offset + Limit,
                            ![e].phase = IF asks THEN "create" ELSE "resume"]
    /\ UNCHANGED <<Rest, runs, faults>>

\* One of the runs read before: its slice is asked for again, unless some
\* slice is.
EnqueueResume(e) ==
    /\ ex[e].phase = "resume" /\ ex[e].old # {}
    /\ LET r == Min(ex[e].old)
           asks == Catalog(r) /\ ~ActiveCatalog
       IN  ex' = [ex EXCEPT ![e].old = @ \ {r}, ![e].offset = runs[r].offset,
                            ![e].phase = IF asks THEN "create" ELSE "resume"]
    /\ UNCHANGED <<Rest, runs, faults>>

ListPending(e) ==
    /\ ex[e].phase = "resume" /\ ex[e].old = {}
    /\ LET pending == {r \in Ids : runs[r].status = "pending"}
           First(r, s) == runs[r].since < runs[s].since
                          \/ (runs[r].since = runs[s].since /\ r < s)
       IN  ex' = [ex EXCEPT ![e].queue = SetToSortSeq(pending, First), ![e].phase = "take"]
    /\ UNCHANGED <<Rest, runs, faults>>

\* Each of the rows read is executed, whatever has become of it since.
Take(e) ==
    /\ ex[e].phase = "take"
    /\ IF ex[e].queue = <<>> THEN ex' = [ex EXCEPT ![e] = Idle] /\ UNCHANGED runs
       ELSE LET r == Head(ex[e].queue)
            IN  /\ runs' = [runs EXCEPT ![r].status = "running", ![r].since = clock]
                /\ ex' = [ex EXCEPT ![e] =
                     [Idle EXCEPT !.phase = "discover", !.run = r,
                                  !.offset = runs[r].offset, !.queue = Tail(ex[e].queue)]]
    /\ UNCHANGED <<Rest, faults>>

-----------------------------------------------------------------------------
(* The execution of a run.                                                 *)

Sorted(places) == SetToSortSeq(places, <)
Slice(urls, offset) ==
    SubSeq(urls, offset + 1, IF offset + Limit < Len(urls) THEN offset + Limit ELSE Len(urls))

\* The list of places: the sitemap, sorted, or else the pages, in their own
\* order.  A catalogue run takes its slice, another run all of them.
Discover(e) ==
    /\ ex[e].phase = "discover"
    /\ \E urls \in {Sorted(site), Reverse(Sorted(site))} :
         /\ ex' = [ex EXCEPT ![e].phase = "fetch", ![e].total = Len(urls),
                    ![e].slice = IF Catalog(ex[e].run) THEN Slice(urls, ex[e].offset)
                                 ELSE urls]
         /\ IF urls = Sorted(site) THEN UNCHANGED <<lost, faults>>
            ELSE Fault /\ lost' = (lost \/ Catalog(ex[e].run))
    /\ UNCHANGED <<bound, site, item, runs, left, began, clock, changes>>

\* A page and the row made of it, or no row: the page is gone, or no place,
\* or could not be normalized.
Fetch(e) ==
    /\ ex[e].phase = "fetch" /\ ex[e].slice # <<>>
    /\ LET p == Head(ex[e].slice)
           next == [ex[e] EXCEPT !.slice = Tail(ex[e].slice)]
       IN  \/ /\ p \in site
              /\ item' = [item EXCEPT ![p] = [status |-> "published", seen |-> clock]]
              /\ ex' = [ex EXCEPT ![e] = [next EXCEPT
                   !.phase = "progress", !.given = TRUE, !.fetched = @ + 1,
                   !.normalized = @ + 1]]
              /\ left' = left \ {p}
              /\ UNCHANGED faults
           \/ /\ p \in site /\ Fault
              /\ ex' = [ex EXCEPT ![e] = [next EXCEPT
                   !.phase = "progress", !.given = TRUE, !.fetched = @ + 1, !.skipped = @ + 1]]
              /\ left' = left \ {p}
              /\ UNCHANGED item
           \/ /\ IF p \in site THEN Fault ELSE UNCHANGED faults
              /\ ex' = [ex EXCEPT ![e] = next]
              /\ left' = left \ {p}
              /\ UNCHANGED item
    /\ UNCHANGED <<bound, site, runs, lost, began, clock, changes>>

Counted(r, e) ==
    [runs[r] EXCEPT !.fetched = ex[e].fetched, !.normalized = ex[e].normalized,
                    !.skipped = ex[e].skipped]

UpdateRunProgress(e) ==
    /\ ex[e].phase = "progress"
    /\ runs' = [runs EXCEPT ![ex[e].run] = [Counted(ex[e].run, e) EXCEPT !.status = "running"]]
    /\ ex' = Go(e, "fetch")
    /\ UNCHANGED <<Rest, faults>>

\* Without the time of grace.
MarkStaleItemsAtOnce(e) ==
    /\ ex[e].phase = "fetch" /\ ex[e].slice = <<>>
    /\ item' = [p \in Places |->
         IF item[p].status = "published" /\ item[p].seen < clock
         THEN [item[p] EXCEPT !.status = "stale"] ELSE item[p]]
    /\ ex' = Go(e, "complete")
    /\ UNCHANGED <<bound, site, runs, left, lost, began, clock, faults, changes>>

\* What was not seen for the time of grace is no longer offered.
MarkStaleItems(e) ==
    /\ ex[e].phase = "fetch" /\ ex[e].slice = <<>>
    /\ item' = [p \in Places |->
         IF item[p].status = "published" /\ item[p].seen < clock - Grace
         THEN [item[p] EXCEPT !.status = "stale"] ELSE item[p]]
    /\ ex' = Go(e, "complete")
    /\ UNCHANGED <<bound, site, runs, left, lost, began, clock, faults, changes>>

\* The run keeps its status.
CompleteSilently(e) ==
    /\ ex[e].phase = "complete"
    /\ runs' = [runs EXCEPT ![ex[e].run] = Counted(ex[e].run, e)]
    /\ ex' = Go(e, "next")
    /\ UNCHANGED <<Rest, faults>>

Complete(e) ==
    /\ ex[e].phase = "complete"
    /\ runs' = [runs EXCEPT ![ex[e].run] = [Counted(ex[e].run, e) EXCEPT !.status = "completed"]]
    /\ ex' = Go(e, "next")
    /\ UNCHANGED <<Rest, faults>>

Ended(e) == IF e[2] = "manual" THEN [Idle EXCEPT !.phase = "take", !.queue = ex[e].queue]
            ELSE Idle

\* The last place does not count.
EnqueueNextShort(e) ==
    /\ ex[e].phase = "next"
    /\ LET next == ex[e].offset + Limit
           more == Catalog(ex[e].run) /\ ex[e].given /\ next < ex[e].total - 1
       IN  /\ ex' = [ex EXCEPT ![e] =
                IF more /\ ~ActiveCatalog THEN [ex[e] EXCEPT !.phase = "create", !.offset = next]
                ELSE Ended(e)]
           /\ lost' = (lost \/ (Catalog(ex[e].run) /\ ~ex[e].given))
    /\ UNCHANGED <<bound, site, item, runs, left, began, clock, faults, changes>>

\* Where the slice lies is known from the rows it gave: without any the
\* chain ends.
EnqueueNext(e) ==
    /\ ex[e].phase = "next"
    /\ LET next == ex[e].offset + Limit
           more == Catalog(ex[e].run) /\ ex[e].given /\ next < ex[e].total
       IN  /\ ex' = [ex EXCEPT ![e] =
                IF more /\ ~ActiveCatalog THEN [ex[e] EXCEPT !.phase = "create", !.offset = next]
                ELSE Ended(e)]
           /\ lost' = (lost \/ (Catalog(ex[e].run) /\ ~ex[e].given))
    /\ UNCHANGED <<bound, site, item, runs, left, began, clock, faults, changes>>

EnqueueCatalogRun(e) ==
    /\ ex[e].phase = "create" /\ Len(runs) < bound.runs
    /\ runs' = Append(runs, Row(TRUE, "pending", ex[e].offset))
    /\ ex' = [ex EXCEPT ![e] = IF ex[e].run = None THEN [@ EXCEPT !.phase = "resume"]
                               ELSE Ended(e)]
    /\ UNCHANGED <<Rest, faults>>

\* Whatever fails, the time limit included, fails the run, and nothing asks
\* for its slice again.
Break(e) ==
    /\ Executing(e) /\ ex[e].phase # "fail" /\ Fault
    /\ ex' = Go(e, "fail")
    /\ lost' = (lost \/ Catalog(ex[e].run))
    /\ UNCHANGED <<bound, site, item, runs, left, began, clock, changes>>

Fail(e) ==
    /\ ex[e].phase = "fail"
    /\ runs' = [runs EXCEPT ![ex[e].run] = [Counted(ex[e].run, e) EXCEPT !.status = "failed"]]
    /\ ex' = [ex EXCEPT ![e] = Ended(e)]
    /\ UNCHANGED <<Rest, faults>>

-----------------------------------------------------------------------------
(* A process dies.  Its runs are found by their age, but not what it was   *)
(* about to ask for.                                                       *)
Crash(q) ==
    /\ Fault
    /\ LET dead == {e \in team : e[1] = q}
       IN  /\ \E e \in dead : Busy(e)
           /\ ex' = [e \in team |-> IF e \in dead THEN Idle ELSE ex[e]]
           /\ lost' = (lost \/ \E e \in dead :
                  Asking(e) \/ (ex[e].phase \in {"next", "fail"} /\ Catalog(ex[e].run)))
    /\ UNCHANGED <<bound, site, item, runs, left, began, clock, changes>>

\* A place opens or closes.
Change(p) ==
    /\ changes < bound.changes
    /\ changes' = changes + 1
    /\ site' = IF p \in site THEN site \ {p} ELSE site \cup {p}
    /\ lost' = (lost \/ UnderWay)
    /\ UNCHANGED <<bound, item, runs, ex, left, began, clock, faults>>

Tick ==
    /\ clock < bound.ticks
    /\ clock' = clock + 1
    /\ UNCHANGED <<bound, site, item, runs, ex, left, lost, began, faults, changes>>

Execute(e) ==
    \/ Discover(e) \/ Fetch(e) \/ UpdateRunProgress(e) \/ MarkStaleItems(e)
    \/ Complete(e) \/ EnqueueNext(e) \/ EnqueueCatalogRun(e) \/ Break(e) \/ Fail(e)
Next ==
    \/ CreateImportRun \/ Tick
    \/ \E e \in team :
         \/ RunImport(e) \/ Scan(e) \/ FailStaleRunningRuns(e) \/ EnqueueResume(e)
         \/ ListPending(e) \/ Take(e) \/ Execute(e)
    \/ \E q \in Processes : Crash(q)
    \/ \E p \in Places : Change(p)

Spec == Init /\ [][Next]_vars

-----------------------------------------------------------------------------
(* When no slice is wanted or under way any more, every place that was     *)
(* asked for has been dealt with, whoever executed what twice, whichever   *)
(* run was taken for interrupted and by whatever other runs.               *)
CatalogCovered ==
    ~UnderWay /\ ~lost => left = {}

(* What such a chain has imported within the time of grace is public.      *)
CatalogPublic ==
    ~UnderWay /\ ~lost /\ clock - began <= Grace =>
        \A p \in Places : item[p].seen >= began => item[p].status = "published"

(* A run that seems to be running is executed, or its process has died;    *)
(* the numbers of a run add up.                                            *)
RunsAccounted ==
    /\ \A r \in Ids : runs[r].fetched = runs[r].normalized + runs[r].skipped
    /\ faults = 0 => \A r \in Ids : runs[r].status = "running" =>
                        \E e \in team : Executing(e) /\ ex[e].run = r

RunsHold == CatalogCovered /\ CatalogPublic /\ RunsAccounted
=============================================================================
