------------------------------ MODULE Affiche -------------------------------
(***************************************************************************)
(* One event of the affiche that two sources list: Ticketland, whose       *)
(* tickets are sold, and KudaGo.  Each import normalizes its item, adds    *)
(* coordinates, looks for the other's row, and writes; an administrator,   *)
(* a user's phone and the geocoder write the rows too, and a meetup is     *)
(* made from one.                                                          *)
(***************************************************************************)
EXTENDS Integers

CONSTANTS
    Items,          \* per source, the items it may list
    Venues,         \* names of venues; "none" for an item without one
    Grace,          \* STALE_GRACE_MS in ticks
    Bounds          \* what a behaviour may have of each: imports, changes of the
                    \* sources, acts of an administrator, faults, ticks, and calls of
                    \* the phone, of the geocoder and for meetups

VARIABLES
    bound,      \* the one of Bounds
    row,        \* per source, the row of ExternalContentItem
    feed,       \* per source, what it lists
    run,        \* per source, its import
    geo,        \* the phone's call that brings coordinates
    fill,       \* the geocoder has been asked for the row it read
    making,     \* the meetup being made: the coordinates it has read
    meetup,     \* the meetup made from Ticketland's row
    clock, used,
    agreed,     \* the last import saw the other's row, and ran alone
    forced,     \* per source, published by other hands than its import
    swept,      \* per source, when an import last ended
    judged,     \* per source, the last verdict of an administrator
    placed      \* the phone's coordinates have been given to what meetups there are

vars == <<bound, row, feed, run, geo, fill, making, meetup, clock, used, agreed, forced, swept,
          judged, placed>>

-----------------------------------------------------------------------------
Ticketland == "ticketland"
KudaGo == "kudago"
Sources == {Ticketland, KudaGo}
Other(s) == IF s = Ticketland THEN KudaGo ELSE Ticketland

Prices == {"free", "paid", "unknown"}
Blank == [price |-> "unknown", link |-> FALSE, at |-> FALSE, venue |-> "none"]
Gone == [listed |-> FALSE, item |-> Blank]
Feeds(s) == {Gone} \cup {[listed |-> TRUE, item |-> i] : i \in Items[s]}

NoRow == [known |-> FALSE, item |-> Blank, status |-> "hidden", verdict |-> "pending",
          seen |-> -1]
Idle == [phase |-> "idle", item |-> Blank, seen |-> -1, twin |-> NoRow, alone |-> FALSE,
         hidden |-> FALSE]

Published(s) == row[s].known /\ row[s].status = "published"
Shown(s) == Published(s) /\ row[s].verdict # "rejected" /\ row[s].item.price # "unknown"
Sellable(item) == item.price = "paid" /\ item.link

\* Title and day are the same: the venues decide, and a row without one
\* matches any.
EventDuplicateMatch(a, b) == a.venue = "none" \/ b.venue = "none" \/ a.venue = b.venue

Init ==
    /\ bound \in Bounds
    /\ row = [s \in Sources |-> NoRow]
    /\ feed \in [Sources -> {f \in Feeds(Ticketland) \cup Feeds(KudaGo) : f.listed}]
    /\ \A s \in Sources : feed[s] \in Feeds(s)
    /\ run = [s \in Sources |-> Idle]
    /\ geo = "idle" /\ fill = FALSE
    /\ making = "no" /\ meetup = "none"
    /\ clock = 0
    /\ used = [runs |-> 0, changes |-> 0, admin |-> 0, faults |-> 0, calls |-> 0]
    /\ agreed = FALSE
    /\ forced = [s \in Sources |-> FALSE] /\ swept = [s \in Sources |-> -1]
    /\ judged = [s \in Sources |-> "pending"] /\ placed = FALSE

Use(what) == used[what] < bound[what] /\ used' = [used EXCEPT ![what] = @ + 1]
Outside == <<bound, feed, geo, fill, making, meetup, clock>>

-----------------------------------------------------------------------------
(* An import of one source.                                                *)

\* What is listed is normalized; a source that no longer lists the event
\* only has its rows swept.
FetchItems(s) ==
    /\ run[s].phase = "idle" /\ Use("runs")
    /\ LET alone == run[Other(s)].phase = "idle" /\ (feed[s].listed \/ agreed)
       IN  run' = [r \in Sources |->
             IF r = s THEN [Idle EXCEPT !.phase = IF feed[s].listed THEN "enrich" ELSE "sweep",
                                        !.seen = IF feed[s].listed THEN clock ELSE -1,
                                        !.item = feed[s].item, !.alone = alone]
             ELSE [run[r] EXCEPT !.alone = FALSE]]
    /\ agreed' = (agreed /\ run[Other(s)].phase = "idle")
    /\ UNCHANGED <<Outside, row, forced, swept, judged, placed>>

\* Coordinates from the place the source names, from a place of that name
\* (which gives its name too), or from the geocoder, asked only for what is
\* sold.
EnrichEventFromStableVenueData(s) ==
    /\ run[s].phase = "enrich"
    /\ \E found \in BOOLEAN :
         /\ found => ~run[s].item.at
         /\ found /\ s = Ticketland =>
                run[s].item.venue # "none" \/ Sellable(run[s].item)
         /\ run' = [run EXCEPT ![s].phase = "load", ![s].item.at = @ \/ found]
    /\ UNCHANGED <<Outside, row, used, agreed, forced, swept, judged, placed>>

\* Only rows that are public.
LoadPublicCandidates(s) ==
    /\ run[s].phase = "load"
    /\ LET twin == row[Other(s)]
           is == Published(Other(s)) /\ EventDuplicateMatch(run[s].item, twin.item)
       IN  run' = [run EXCEPT ![s].phase = IF is THEN "merge" ELSE "write",
                              ![s].twin = IF is THEN twin ELSE NoRow]
    /\ UNCHANGED <<Outside, row, used, agreed, forced, swept, judged, placed>>

\* The rows of that day by other sources, whatever their status.
LoadEventDuplicateCandidates(s) ==
    /\ run[s].phase = "load"
    /\ LET twin == row[Other(s)]
           is == twin.known /\ EventDuplicateMatch(run[s].item, twin.item)
       IN  run' = [run EXCEPT ![s].phase = IF is THEN "merge" ELSE "write",
                              ![s].twin = IF is THEN twin ELSE NoRow]
    /\ UNCHANGED <<Outside, row, used, agreed, forced, swept, judged, placed>>

Completed(item, from) ==
    [item EXCEPT !.at = @ \/ from.at, !.venue = IF @ = "none" THEN from.venue ELSE @]

\* Ticketland's item takes what it lacks from the row read, which is hidden.
HideDuplicateItem ==
    /\ run[Ticketland].phase = "merge"
    /\ row' = [row EXCEPT ![KudaGo].status = "hidden"]
    /\ run' = [run EXCEPT ![Ticketland].phase = "write",
                          ![Ticketland].item = Completed(@, run[Ticketland].twin.item),
                          ![Ticketland].twin = NoRow]
    /\ forced' = [forced EXCEPT ![KudaGo] = FALSE]
    /\ UNCHANGED <<Outside, used, agreed, swept, judged, placed>>

\* KudaGo's item completes Ticketland's row, from the values read, and will
\* be hidden.
EnrichExistingAffiliateItem ==
    /\ run[KudaGo].phase = "merge"
    /\ LET twin == run[KudaGo].twin
           full == Completed(twin.item, run[KudaGo].item)
       IN  row' = [row EXCEPT ![Ticketland].item.at = full.at,
                              ![Ticketland].item.venue = full.venue,
                              ![Ticketland].status =
                                  IF Sellable(twin.item) THEN "published" ELSE twin.status]
           /\ placed' = (placed /\ full.at)
    /\ run' = [run EXCEPT ![KudaGo].phase = "write", ![KudaGo].hidden = TRUE,
                          ![KudaGo].twin = NoRow]
    /\ forced' = [forced EXCEPT ![Ticketland] = TRUE]
    /\ UNCHANGED <<Outside, used, agreed, swept, judged>>

\* KudaGo's events do not need coordinates.
PublicStatusAnywhere(s, item) ==
    LET public == IF s = Ticketland THEN Sellable(item) ELSE item.price = "free"
    IN  IF public THEN "published" ELSE "hidden"

\* CONTENT_IMPORT_INCLUDE_UNMONETIZED_PAID is off.
PublicStatusFor(s, item) ==
    LET public == IF s = Ticketland THEN Sellable(item) ELSE item.at /\ item.price = "free"
    IN  IF public THEN "published" ELSE "hidden"

\* Whatever was decided, the item is new.
WrittenAnew(s) ==
    [known |-> TRUE, item |-> run[s].item, seen |-> run[s].seen,
     status |-> IF run[s].hidden THEN "hidden" ELSE PublicStatusFor(s, run[s].item),
     verdict |-> "pending"]

Written(s) ==
    [known |-> TRUE, item |-> run[s].item, seen |-> run[s].seen,
     status |-> IF run[s].hidden THEN "hidden" ELSE PublicStatusFor(s, run[s].item),
     verdict |-> row[s].verdict]

\* The verdict of a row that is there stays.
UpsertItem(s) ==
    /\ run[s].phase = "write"
    /\ row' = [row EXCEPT ![s] = Written(s)]
    /\ run' = [run EXCEPT ![s] = [Idle EXCEPT !.phase = "sweep", !.alone = run[s].alone]]
    /\ forced' = [forced EXCEPT ![s] = FALSE]
    /\ placed' = (placed /\ (s = Ticketland => run[s].item.at))
    /\ UNCHANGED <<Outside, used, agreed, swept, judged>>

\* The next import begins before the marks are made.
MarkNothing(s) ==
    /\ run[s].phase = "sweep"
    /\ run' = [run EXCEPT ![s] = Idle]
    /\ agreed' = (run[s].alone /\ \A r \in Sources : row[r].known)
    /\ swept' = [swept EXCEPT ![s] = clock]
    /\ UNCHANGED <<Outside, row, used, forced, judged, placed>>

MarkStaleItems(s) ==
    /\ run[s].phase = "sweep"
    /\ row' = IF Published(s) /\ row[s].seen < clock - Grace
              THEN [row EXCEPT ![s].status = "stale"] ELSE row
    /\ run' = [run EXCEPT ![s] = Idle]
    /\ agreed' = (run[s].alone /\ \A r \in Sources : row[r].known)
    /\ swept' = [swept EXCEPT ![s] = clock]
    /\ UNCHANGED <<Outside, used, forced, judged, placed>>

\* A statement fails: the run fails.
FailRun(s) ==
    /\ run[s].phase # "idle" /\ Use("faults")
    /\ run' = [run EXCEPT ![s] = Idle]
    /\ agreed' = FALSE
    /\ UNCHANGED <<Outside, row, forced, swept, judged, placed>>

Import(s) ==
    \/ FetchItems(s) \/ EnrichEventFromStableVenueData(s) \/ LoadEventDuplicateCandidates(s)
    \/ UpsertItem(s) \/ MarkStaleItems(s) \/ FailRun(s)

-----------------------------------------------------------------------------
(* Other hands.                                                            *)

Disturbed == [s \in Sources |-> [run[s] EXCEPT !.alone = FALSE]]

ContentActionData(r, action) ==
    IF action = "publish" THEN [r EXCEPT !.status = "published", !.verdict = "approved"]
    ELSE IF action = "hide" THEN [r EXCEPT !.status = "hidden", !.verdict = "pending"]
    ELSE IF action = "reject" THEN [r EXCEPT !.status = "hidden", !.verdict = "rejected"]
    ELSE IF action = "stale" THEN [r EXCEPT !.status = "stale"]
    ELSE IF action = "force-free" THEN [r EXCEPT !.item.price = "free", !.status = "published"]
    ELSE [r EXCEPT !.item.price = "paid", !.status = "published"]

ContentItemAction(s, action) ==
    /\ row[s].known /\ Use("admin")
    /\ row' = [row EXCEPT ![s] = ContentActionData(@, action)]
    /\ judged' = [judged EXCEPT ![s] = row'[s].verdict]
    /\ forced' = [forced EXCEPT ![s] = TRUE]
    /\ agreed' = FALSE /\ run' = Disturbed
    /\ UNCHANGED <<Outside, swept, placed>>

\* Any field, one at a time.
Edited(r) ==
    {[r EXCEPT !.item.venue = v] : v \in Venues \cup {"none"}}
    \cup {[r EXCEPT !.item.link = l] : l \in BOOLEAN}
    \cup {[r EXCEPT !.item.at = a] : a \in BOOLEAN}
    \cup {[r EXCEPT !.status = t] : t \in {"published", "hidden"}}
    \cup {[r EXCEPT !.verdict = v] : v \in {"approved", "rejected"}}

UpdateContentItem(s) ==
    /\ row[s].known /\ Use("admin")
    /\ \E r \in Edited(row[s]) : row' = [row EXCEPT ![s] = r]
    /\ judged' = [judged EXCEPT ![s] = row'[s].verdict]
    /\ forced' = [forced EXCEPT ![s] = TRUE]
    /\ placed' = (placed /\ row'[Ticketland].item.at)
    /\ agreed' = FALSE /\ run' = Disturbed
    /\ UNCHANGED <<Outside, swept>>

\* Rows that are sold, not rejected and without coordinates are read; each
\* that the geocoder knows is then written.
ReadBackfill ==
    /\ ~fill /\ Use("calls")
    /\ LET r == row[Ticketland]
       IN  r.known /\ Sellable(r.item) /\ r.verdict # "rejected" /\ ~r.item.at
    /\ fill' = TRUE
    /\ UNCHANGED <<bound, row, feed, run, geo, making, meetup, clock, agreed, forced, swept, judged, placed>>

BackfillTicketlandCoordinates ==
    /\ fill
    /\ fill' = FALSE
    /\ \/ /\ row' = [row EXCEPT ![Ticketland].item.at = TRUE,
                                ![Ticketland].status = "published"]
          /\ forced' = [forced EXCEPT ![Ticketland] = TRUE]
       \/ UNCHANGED <<bound, row, forced>>
    /\ UNCHANGED <<bound, feed, run, geo, making, meetup, clock, used, agreed, swept, judged, placed>>

-----------------------------------------------------------------------------
(* A user's phone has found the venue.                                     *)

ReadClientGeo ==
    /\ geo = "idle" /\ Use("calls")
    /\ LET r == row[Ticketland]
       IN  /\ r.known /\ r.verdict # "rejected" /\ ~r.item.at
           /\ geo' = IF Sellable(r.item) THEN "publish" ELSE "save"
    /\ UNCHANGED <<bound, row, feed, run, fill, making, meetup, clock, agreed, forced, swept, judged, placed>>

SaveClientGeo ==
    /\ geo \in {"publish", "save"}
    /\ row' = [row EXCEPT ![Ticketland].item.at = TRUE,
                          ![Ticketland].status = IF geo = "publish" THEN "published" ELSE @]
    /\ forced' = [forced EXCEPT ![Ticketland] = @ \/ geo = "publish"]
    /\ geo' = "events"
    /\ UNCHANGED <<bound, feed, run, fill, making, meetup, clock, used, agreed, swept, judged, placed>>

\* No meetup gets them.
UpdateNoEvents ==
    /\ geo = "events"
    /\ placed' = (making # "without" /\ row[Ticketland].item.at)
    /\ geo' = "idle"
    /\ UNCHANGED <<bound, row, feed, run, fill, making, meetup, clock, used, agreed, forced, swept, judged>>

\* Its meetups without coordinates get them.
UpdateEvents ==
    /\ geo = "events"
    /\ meetup' = IF meetup = "without" THEN "with" ELSE meetup
    /\ placed' = (making # "without" /\ row[Ticketland].item.at)
    /\ geo' = "idle"
    /\ UNCHANGED <<bound, row, feed, run, fill, making, clock, used, agreed, forced, swept, judged>>

\* The call ends between the two statements: nobody repeats the second.
BreakClientGeo ==
    /\ geo = "events" /\ Use("faults")
    /\ geo' = "idle"
    /\ UNCHANGED <<bound, row, feed, run, fill, making, meetup, clock, agreed, forced, swept, judged, placed>>

\* A meetup is made of what was read of the row some statements before.
ReadAfficheEvent ==
    /\ making = "no" /\ meetup = "none" /\ Use("calls")
    /\ Published(Ticketland) /\ row[Ticketland].item.price # "unknown"
    /\ making' = IF row[Ticketland].item.at THEN "with" ELSE "without"
    /\ UNCHANGED <<bound, row, feed, run, geo, fill, meetup, clock, agreed, forced, swept, judged, placed>>

CreateEvent ==
    /\ making # "no"
    /\ meetup' = making
    /\ making' = "no"
    /\ UNCHANGED <<bound, row, feed, run, geo, fill, clock, used, agreed, forced, swept,
          judged, placed>>

-----------------------------------------------------------------------------
\* A source lists the event otherwise, or no longer.
Change(s) ==
    /\ Use("changes")
    /\ \E f \in Feeds(s) \ {feed[s]} : feed' = [feed EXCEPT ![s] = f]
    /\ UNCHANGED <<bound, row, run, geo, fill, making, meetup, clock, agreed, forced, swept, judged, placed>>

Tick ==
    /\ clock < bound.ticks
    /\ clock' = clock + 1
    /\ UNCHANGED <<bound, row, feed, run, geo, fill, making, meetup, used, agreed, forced, swept, judged, placed>>

Next ==
    \/ \E s \in Sources : Import(s)
    \/ HideDuplicateItem \/ EnrichExistingAffiliateItem
    \/ \E s \in Sources :
         \/ \E action \in {"publish", "hide", "reject", "stale", "force-free", "force-paid"} :
              ContentItemAction(s, action)
         \/ UpdateContentItem(s) \/ Change(s)
    \/ ReadBackfill \/ BackfillTicketlandCoordinates
    \/ ReadClientGeo \/ SaveClientGeo \/ UpdateEvents \/ BreakClientGeo
    \/ ReadAfficheEvent \/ CreateEvent \/ Tick

Spec == Init /\ [][Next]_vars

-----------------------------------------------------------------------------
(* After an import that ran alone, the event is not shown twice, whatever  *)
(* order the sources were imported in and whoever published Ticketland's   *)
(* row since.                                                              *)
OneListing ==
    agreed /\ EventDuplicateMatch(row[Ticketland].item, row[KudaGo].item) =>
        ~(Shown(Ticketland) /\ Shown(KudaGo))

(* What its source has not listed for the time of grace is stale after the *)
(* source's import, unless other hands have published it.                  *)
GoneIsStale ==
    \A s \in Sources :
        Published(s) /\ ~forced[s] => row[s].seen >= swept[s] - Grace

(* KudaGo's event is shown on the map or not at all, unless an             *)
(* administrator has published it.                                         *)
CoordinatesNeeded ==
    Published(KudaGo) /\ ~forced[KudaGo] => row[KudaGo].item.at

(* What an administrator has rejected no import and no coordinates show    *)
(* again.                                                                  *)
RejectedStays ==
    \A s \in Sources : judged[s] = "rejected" => ~Shown(s)

(* The coordinates a phone has brought reach the meetup made of the event, *)
(* unless it was made in that moment or the call broke off.                *)
MeetupLocated ==
    placed => meetup # "without"

AfficheHolds == OneListing /\ GoneIsStale /\ CoordinatesNeeded /\ RejectedStays /\ MeetupLocated
=============================================================================
