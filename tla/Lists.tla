------------------------------- MODULE Lists --------------------------------
(***************************************************************************)
(* The lists that are read page by page: the feeds of the app and the      *)
(* tables of the back office.  A page is a query of its own: the rows in   *)
(* an order, those after the cursor of the page before, one more than      *)
(* fits.  The rows change between two pages: they are written, deleted,    *)
(* moved, hidden and promoted by everybody else.  A list is described by   *)
(* its orderBy and by the comparison its cursor makes, which the code      *)
(* writes apart from one another.                                          *)
(***************************************************************************)
EXTENDS Integers, Sequences, FiniteSets, SequencesExt

CONSTANTS
    Ids,            \* ids of rows: positive numbers in the order of the ids
    Keys,           \* values of the key a list is sorted by: positive numbers
    Limit,          \* rows of a page
    Window,         \* rows a search around a point looks at, more than Limit
    MaxChanges,     \* bound: changes of the table
    MaxPages        \* bound: pages read

VARIABLES
    list,       \* the list that is read
    rows,       \* the table: per id a row, or Never or Gone
    steady,     \* rows that match the filter and have not changed so far
    cursor,     \* what the next page is asked with
    seen,       \* ids in the order they were shown
    pages, changes

vars == <<list, rows, steady, cursor, seen, pages, changes>>

Never == [key |-> 0, shown |-> FALSE, lead |-> FALSE]
Gone == [key |-> -1, shown |-> FALSE, lead |-> FALSE]
Start == [key |-> 0, id |-> 0, lead |-> FALSE]
End == [key |-> -1, id |-> 0, lead |-> FALSE]
Up == 1
Down == -1
Undated == 99       \* a key that is null: sorts above every other one

-----------------------------------------------------------------------------
(***************************************************************************)
(* How a list is asked.  order: the directions of the key and of the id;   *)
(* 0 leaves the key out.  after: the comparison with the cursor.  made:    *)
(* the cursor is the last row of the page, or the first one that did not   *)
(* fit.  seek: the rows after the cursor are asked for, or the cursor's    *)
(* row is looked for in the whole list, or the cursor is not read at all.  *)
(* filter: applied by each query, by the first one only, or after the      *)
(* page was cut.  leads: promoted rows come first, in two queries.         *)
(* window: only the rows of smallest id (of the earliest start) are        *)
(* looked at.                                                              *)
(***************************************************************************)
By(key, id) == [key |-> key, id |-> id]
Asked(order, after) ==
    [order |-> order, after |-> after, made |-> "last", seek |-> "after",
     filter |-> "always", leads |-> FALSE, window |-> FALSE]

\* The feeds and lists of the app.
EventCursor == By(Up, Up)
EventsByTime == Asked(By(Up, Up), EventCursor)
EventsPromoted == [Asked(By(Up, Up), EventCursor) EXCEPT !.leads = TRUE]
EventsNear == [Asked(By(Up, Up), By(Up, Up)) EXCEPT !.leads = TRUE]
EventsNearWindow == [Asked(By(Up, Up), By(Up, Up)) EXCEPT !.leads = TRUE, !.window = TRUE]
AfterDarkEvents == Asked(By(Up, Up), By(Up, Up))
PeopleSearched == [Asked(By(Up, Up), By(Up, Up)) EXCEPT !.filter = "first"]
Following == Asked(By(Down, Down), By(Down, Down))
CommunityCursor == By(Up, Up)
CommunitiesOldest == Asked(By(Up, Up), CommunityCursor)
CommunitiesNewest == Asked(By(Down, Down), CommunityCursor)
CommunityMedia == Asked(By(Up, Up), By(Up, Up))
ChatList == [Asked(By(Down, Down), By(Down, Down)) EXCEPT !.filter = "late"]
ChatMessages == Asked(By(Down, Down), By(Down, Down))
EventStories == Asked(By(Down, Down), By(Down, Down))
MatchListDown == [Asked(By(Down, Up), By(Down, Down)) EXCEPT !.filter = "late"]
MatchList == [Asked(By(Down, Up), By(Down, Up)) EXCEPT !.filter = "late"]
IncomingLikes == Asked(By(0, Up), By(0, Up))
NotificationPage == Asked(By(Down, Down), By(Down, Down))
NotificationPageBySql == Asked(By(Down, Down), By(Down, Down))
MetHistory == Asked(By(Down, Down), By(Down, Down))
MetPeople == [Asked(By(Down, Up), By(Down, Up)) EXCEPT !.seek = "row"]
AfficheByTimeSkipping ==
    [Asked(By(Up, Up), By(Up, 0)) EXCEPT !.made = "next"]
AfficheByTime == [Asked(By(Up, Up), By(Up, Up)) EXCEPT !.made = "next"]
AfficheByPriority == [Asked(By(Up, Up), By(Up, Up)) EXCEPT !.made = "next"]

\* The tables of the back office and of the partner portal.
AdminUserCursor == By(Down, Down)
AdminUsers == Asked(By(Down, Down), AdminUserCursor)
AdminUserMeetups == Asked(By(Down, Down), AdminUserCursor)
AdminUserReports == Asked(By(Down, Down), AdminUserCursor)
AdminUserAudit == Asked(By(Down, Down), AdminUserCursor)
AdminMeetupCursor == By(Down, Down)
AdminMeetups == Asked(By(Down, Down), AdminMeetupCursor)
AdminParticipants == Asked(By(Down, Down), AdminMeetupCursor)
AdminJoinRequests == Asked(By(Down, Down), AdminMeetupCursor)
AdminCommunityCursor == By(Down, Down)
AdminCommunities == Asked(By(Down, Down), AdminCommunityCursor)
AdminCommunityMembers == Asked(By(Down, Down), AdminCommunityCursor)
AdminAffiche == [Asked(By(Down, Down), By(Down, Down)) EXCEPT !.seek = "dated"]
AdminDrops == Asked(By(Down, Down), By(Down, Down))
AdminDropTickets == Asked(By(Down, Down), By(Down, Down))
AdminDropParticipants == Asked(By(0, Up), By(0, Up))
AdminRewardEvents == Asked(By(Down, Down), By(Down, Down))
AdminReports == [Asked(By(Down, Down), By(Down, Down)) EXCEPT !.made = "next"]
RouteReviewDrafts == [Asked(By(Down, Up), By(Down, Up)) EXCEPT !.made = "next"]
ImportRuns == [Asked(By(Down, Up), By(Down, Up)) EXCEPT !.made = "next"]
RouteContentItems ==
    [Asked(By(Down, Up), By(Down, Up)) EXCEPT !.made = "next", !.filter = "first"]
PartnerMeetups == [Asked(By(Down, Down), By(0, 0)) EXCEPT !.seek = "nothing"]
PartnerRequests == [Asked(By(Down, Down), By(0, 0)) EXCEPT !.seek = "nothing"]
CommunitiesPopular == Asked(By(0, Down), CommunityCursor)

ListKinds ==
    {EventsByTime, EventsPromoted, EventsNear, EventsNearWindow, AfterDarkEvents,
     PeopleSearched, Following, CommunitiesOldest, CommunitiesNewest, CommunitiesPopular,
     CommunityMedia, ChatList, ChatMessages, EventStories, MatchList, IncomingLikes,
     NotificationPage, NotificationPageBySql, MetHistory, MetPeople, AfficheByTime,
     AfficheByPriority, AdminUsers, AdminUserMeetups, AdminUserReports, AdminUserAudit,
     AdminMeetups, AdminParticipants, AdminJoinRequests, AdminCommunities,
     AdminCommunityMembers, AdminAffiche, AdminDrops, AdminDropTickets,
     AdminDropParticipants, AdminRewardEvents, AdminReports, RouteReviewDrafts,
     ImportRuns, RouteContentItems, PartnerMeetups, PartnerRequests}

-----------------------------------------------------------------------------
Rows == [key : Keys \cup {Undated}, shown : BOOLEAN, lead : BOOLEAN]
Present == {id \in Ids : rows[id] \notin {Never, Gone}}
Place(id) == [key |-> rows[id].key, id |-> id, lead |-> rows[id].lead]

\* Place a comes before place b, in these directions.
Precedes(by, a, b) ==
    \/ by.key * a.key < by.key * b.key
    \/ by.key * a.key = by.key * b.key /\ by.id * a.id < by.id * b.id

\* The order in which the queries of a page return places.
Listed(a, b) ==
    IF list.leads /\ a.lead # b.lead THEN a.lead ELSE Precedes(list.order, a, b)

\* Rows the queries look at: the filter, and the window of each of the two.
Looked ==
    LET asked == {id \in Present : \/ list.filter = "late"
                                   \/ list.filter = "first" /\ cursor # Start
                                   \/ rows[id].shown}
        Earlier(id) == {o \in asked : o < id /\ rows[o].lead = rows[id].lead}
    IN  IF list.window
        THEN {id \in asked : Cardinality(Earlier(id)) < Window}
        ELSE asked

\* A page asked with cursor c may show the row of this id.
Follows(c, id) ==
    CASE c = Start \/ list.seek = "nothing" -> TRUE
      [] list.seek = "row" ->
            (c.id \in Looked /\ Place(c.id) = c) => Listed(c, Place(id))
      [] list.seek = "dated" /\ c.key = Undated -> Precedes(By(0, Down), c, Place(id))
      [] list.leads /\ c.lead # rows[id].lead -> c.lead
      [] OTHER -> Precedes(list.after, c, Place(id))

Found == SetToSortSeq({id \in Looked : Follows(cursor, id)},
                      LAMBDA i, j : Listed(Place(i), Place(j)))
Cut(s, n) == SubSeq(s, 1, IF Len(s) < n THEN Len(s) ELSE n)

\* The cursor that leads to the next page, of a search that found these rows.
NextCursor(found) ==
    IF Len(found) <= Limit THEN End
    ELSE Place(found[IF list.made = "last" THEN Limit ELSE Limit + 1])

ReadPage ==
    /\ cursor # End
    /\ pages < MaxPages
    /\ \E found \in {Found} :
        /\ cursor' = NextCursor(found)
        /\ seen' = seen \o SelectSeq(Cut(found, Limit), LAMBDA id :
                                list.filter = "late" => rows[id].shown)
    /\ pages' = pages + 1
    /\ UNCHANGED <<list, rows, steady, changes>>

-----------------------------------------------------------------------------
(***************************************************************************)
(* What everybody else does with the rows.                                 *)
(***************************************************************************)
Change(id, row) ==
    /\ changes < MaxChanges
    /\ changes' = changes + 1
    /\ rows' = [rows EXCEPT ![id] = row]
    /\ steady' = steady \ {id}
    /\ UNCHANGED <<list, cursor, seen, pages>>

Add(id) ==
    /\ rows[id] = Never
    /\ \E key \in Keys : Change(id, [key |-> key, shown |-> TRUE, lead |-> FALSE])
Leave(id) == id \in Present /\ Change(id, Gone)
Move(id) ==
    /\ id \in Present
    /\ \E key \in Keys \ {rows[id].key} : Change(id, [rows[id] EXCEPT !.key = key])
Show(id) == id \in Present /\ Change(id, [rows[id] EXCEPT !.shown = ~@])
Promote(id) == list.leads /\ id \in Present /\ Change(id, [rows[id] EXCEPT !.lead = ~@])

Init ==
    /\ list \in ListKinds
    /\ rows \in [Ids -> {Never} \cup
           {r \in Rows : /\ r.lead => list.leads
                         /\ r.key = Undated => list.seek = "dated"}]
    /\ steady = {id \in Present : rows[id].shown}
    /\ cursor = Start
    /\ seen = <<>>
    /\ pages = 0 /\ changes = 0

Next ==
    \/ ReadPage
    \/ \E id \in Ids : Add(id) \/ Leave(id) \/ Move(id) \/ Show(id) \/ Promote(id)

Spec == Init /\ [][Next]_vars

-----------------------------------------------------------------------------
Shown == Range(seen)

\* Lists that do not ask for the rows after their cursor in the order they show
\* them: the two newer orders of the communities take the cursor of the oldest
\* first, the portal takes none, and people met are found again by their row.
Crooked ==
    {CommunitiesNewest, CommunitiesPopular, PartnerMeetups, PartnerRequests, MetPeople}

\* All others.  The back office's affiche is one of them only while none of its
\* rows is without a date: those stand before the others, and its cursor does
\* not see them so.
Straight ==
    /\ list \notin Crooked
    /\ list = AdminAffiche => changes = 0 /\ \A id \in Present : rows[id].key # Undated

\* The pages of such a list put together are one list: rows that nobody
\* touches meanwhile come in order, and none of them twice.
InOrder ==
    Straight =>
        \A i \in DOMAIN seen : \A j \in i + 1 .. Len(seen) :
            {seen[i], seen[j]} \subseteq steady => Listed(Place(seen[i]), Place(seen[j]))

\* Who reads it to the end has seen every row that nobody touched, if the
\* cursor is the last row shown and no window hides rows.
NoneMissed ==
    cursor = End /\ Straight /\ list.made = "last" /\ ~list.window => steady \subseteq Shown

\* A cursor made of the first row that did not fit costs a row per page.
OneMissedPerPage ==
    cursor = End /\ Straight /\ list.made = "next" =>
        Cardinality(steady \ Shown) <= pages - 1

\* The list that looks for the cursor's row starts again when that row has
\* moved or left: it may repeat itself then, but it misses nobody.
StartsAgain ==
    list.seek = "row" =>
        /\ cursor = End => steady \subseteq Shown
        /\ changes = 0 => \A i, j \in DOMAIN seen : seen[i] = seen[j] => i = j

ListsHold == InOrder /\ NoneMissed /\ OneMissedPerPage /\ StartsAgain

\* What backend-api.md says of the import runs: an admin can page through all
\* of them.
ImportRunsPaged ==
    cursor = End /\ list = ImportRuns => steady \subseteq Shown
=============================================================================
