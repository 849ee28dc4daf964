------------------------------ MODULE MCPlaces ------------------------------
(* Small instances for TLC of the services around routes, of lists and      *)
(* feeds that are read page by page, and of the jobs of the workers that    *)
(* take several steps: imports and pushes. Each behaviour is one of one     *)
(* service, chosen at the start by focus; the services take turns at the    *)
(* same variables, v1 and on, and those a service has no use for are "off". *)
EXTENDS Integers, FiniteSets, TLC

CONSTANTS
    k1, k2,     \* calls
    m1, m2      \* users, workers or assets that are alike

VARIABLES
    focus,
    v1, v2, v3, v4, v5, v6, v7, v8, v9, v10, v11, v12

everything == <<v1, v2, v3, v4, v5, v6, v7, v8, v9, v10, v11, v12>>
off == "off"
TwoCalls == {k1, k2}
Symmetry == {p @@ q : p \in Permutations(TwoCalls), q \in Permutations({m1, m2})}

-----------------------------------------------------------------------------
(* The planner of routes: any of nine candidates along a street, any mood,  *)
(* three budgets.                                                           *)
Place(id, cat, at, price) ==
    [id |-> id, kind |-> "place", cat |-> cat, at |-> at, start |-> -1, end |-> -1,
     price |-> price]
Event(id, cat, at, price, start, end) ==
    [id |-> id, kind |-> "event", cat |-> cat, at |-> at, start |-> start, end |-> end,
     price |-> price]
Street ==
    <<Event(1, "theatre", 40, 2000, 1140, 1140), Event(2, "concert", 0, 1500, 1170, 1260),
      Event(3, "quest", 900, -1, 1335, -1), Event(4, "culture", 700, 0, 1380, 1500),
      Place(5, "walk", 400, 0), Place(6, "bar", 450, -1), Place(7, "food", 1100, 1800),
      Place(8, "cafe", 1200, 0), Place(9, "walk", 2500, 0)>>

Plan == INSTANCE RoutePlans WITH
    Pool <- Street,
    Budgets <- {"free", "low", "high"},
    MostRoutes <- 2,
    mood <- v1, budget <- v2, there <- v3

(* See RoutePlans: a planned route can be walked in time and keeps its      *)
(* promises.                                                                *)
PlansFit == focus = "plan" => Plan!PlansFit

-----------------------------------------------------------------------------
(* Drafts of routes: batches and two workers without decisions, or one      *)
(* batch and five decisions, two at a time; the model may answer with a     *)
(* sound route and with one that starts in a bar.                           *)
Few == <<Street[2], Street[5], Street[6]>>
Stop(i, from, to, walk) == [item |-> Few[i], from |-> from, to |-> to, walk |-> walk]
Stroll == <<Stop(1, 1170, 1260, 0), Stop(2, 1280, 1310, 5)>>
BarFirst == <<Stop(3, 1100, 1140, 0), Stop(1, 1170, 1260, 0)>>

Route == INSTANCE RouteDrafts WITH
    Workers <- {m1, m2},
    Calls <- TwoCalls,
    Mood <- "social",
    Budget <- "low",
    Lists <- {Few, <<>>},
    Answers <- {<<Stroll, BarFirst, Stroll>>, <<BarFirst>>},
    MaxDrafts <- 2,
    Bounds <- {[asks |-> 2, scans |-> 3, calls |-> 0], [asks |-> 1, scans |-> 1, calls |-> 5]},
    batch <- v1, run <- v2, drafts <- v3, templates <- v4, call <- v5,
    left <- v6, stopped <- v7, shared <- v8, approved <- v9, crossed <- v10,
    loose <- v11

(* See RouteDrafts: batches end as they should, what is public was          *)
(* approved.                                                                *)
RoutesAsReviewed == focus = "route" => Route!RoutesAsReviewed

-----------------------------------------------------------------------------
(* Push notifications: two recipients on two pages, three tokens, two       *)
(* workers.                                                                 *)
Registered == [s |-> [user |-> "p", device |-> "d"], t |-> [user |-> "q", device |-> "d"],
               u |-> [user |-> "none"]]

Push == INSTANCE Pushes WITH
    Members <- <<"p", "q">>,
    Tokens <- DOMAIN Registered,
    Home <- Registered,
    Devices <- {"d"},
    Workers <- {m1, m2},
    Calls <- TwoCalls,
    PageSize <- 1,
    MaxTries <- 2,
    MaxRows <- 4,
        Bounds <- {[calls |-> 2, changes |-> 0, faults |-> 0], [calls |-> 1, changes |-> 1,
        faults |-> 0], [calls |-> 0, changes |-> 1, faults |-> 1], [calls |-> 0, changes |-> 0,
        faults |-> 2]},
    token <- v1, member <- v2, muted <- v3, hidden <- v4, row <- v5,
    run <- v6, sending <- v7, sent <- v8, call <- v9, bound <- v10,
    changed <- v11, twins <- v12

(* See Pushes: pushes reach who wants them, and a device has one token.     *)
PushesHold == focus = "push" => Push!PushesHold

-----------------------------------------------------------------------------
(* Lists read page by page: three rows, two keys, one row a page, one       *)
(* change.                                                                  *)
List == INSTANCE Lists WITH
    Ids <- 1 .. 3,
    Keys <- {1, 2},
    Limit <- 1,
    Window <- 2,
    MaxChanges <- 1,
    MaxPages <- 4,
    list <- v1, rows <- v2, steady <- v3, cursor <- v4, seen <- v5,
    pages <- v6, changes <- v7

(* See Lists: pages put together are the list.                              *)
ListsHold == focus = "list" => List!ListsHold

-----------------------------------------------------------------------------
(* The dating feed: five candidates, pages of two, batches of three or      *)
(* five.                                                                    *)
Feed == INSTANCE Discover WITH
    Candidates <- 1 .. 5,
    Rank <- <<3, 1, 5, 2, 4>>,
    Take <- 2,
    Batches <- {3, 5},
    MaxSwipes <- 1,
    MaxPages <- 4,
    status <- v1, fits <- v2, batch <- v3, first <- v4, cursor <- v5,
    seen <- v6, full <- v7, pages <- v8, swipes <- v9

(* See Discover: the feed shows everybody new, once, and then those passed  *)
(* over.                                                                    *)
DiscoverHolds == focus = "discover" => Feed!DiscoverHolds

-----------------------------------------------------------------------------
(* Imports of a catalogue of two places in slices of one: one or two        *)
(* workers, a scheduled import beside them, a failure or crash, a change of *)
(* the source.                                                              *)
Worker(m) == <<m, "manual">>
ImportBound(team, runs, ticks, faults, changes) ==
    [team |-> team, runs |-> runs, ticks |-> ticks, faults |-> faults, changes |-> changes]
ImportBounds == {
    ImportBound({Worker(m1), Worker(m2)}, 3, 1, 0, 0),
    ImportBound({Worker(m1)}, 3, 1, 1, 0),
    ImportBound({Worker(m1), <<m1, "scheduled">>}, 3, 1, 0, 0),
    ImportBound({Worker(m1), Worker(m2)}, 2, 1, 1, 0),
    ImportBound({Worker(m1)}, 3, 0, 0, 1)}

Import == INSTANCE ImportRuns WITH
    Processes <- {m1, m2},
    Bounds <- ImportBounds,
    Places <- {1, 2},
    Limit <- 1,
    StaleAfter <- 0,
    Grace <- 1,
    bound <- v1, site <- v2, item <- v3, runs <- v4, ex <- v5, left <- v6,
    lost <- v7, began <- v8, clock <- v9, faults <- v10, changes <- v11

(* See ImportRuns: a catalogue is imported whole, whoever executes its      *)
(* slices, and a run ends.                                                  *)
RunsHold == focus = "import" => Import!RunsHold

-----------------------------------------------------------------------------
(* Lists and feeds that are read page by page.                              *)
PagesHold == ListsHold /\ DiscoverHolds

(* Routes as planned and as reviewed.                                       *)
RoutesHold == PlansFit /\ RoutesAsReviewed

(* The jobs of the workers that take more than one step: pushes and         *)
(* imports.                                                                 *)
JobsHold == PushesHold /\ RunsHold

-----------------------------------------------------------------------------
Init ==
    \/ focus = "plan" /\ Plan!Init /\ v4 = off /\ v5 = off /\ v6 = off
       /\ v7 = off /\ v8 = off /\ v9 = off /\ v10 = off /\ v11 = off
       /\ v12 = off
    \/ focus = "route" /\ Route!Init /\ v12 = off
    \/ focus = "push" /\ Push!Init
    \/ focus = "list" /\ List!Init /\ v8 = off /\ v9 = off /\ v10 = off
       /\ v11 = off /\ v12 = off
    \/ focus = "discover" /\ Feed!Init /\ v10 = off /\ v11 = off /\ v12 = off
    \/ focus = "import" /\ Import!Init /\ v12 = off

Next ==
    /\ UNCHANGED focus
    /\ \/ focus = "plan" /\ Plan!Next
          /\ UNCHANGED <<v4, v5, v6, v7, v8, v9, v10, v11, v12>>
       \/ focus = "route" /\ Route!Next
          /\ UNCHANGED <<v12>>
       \/ focus = "push" /\ Push!Next
       \/ focus = "list" /\ List!Next
          /\ UNCHANGED <<v8, v9, v10, v11, v12>>
       \/ focus = "discover" /\ Feed!Next
          /\ UNCHANGED <<v10, v11, v12>>
       \/ focus = "import" /\ Import!Next
          /\ UNCHANGED <<v12>>

Spec == Init /\ [][Next]_<<focus, everything>>
=============================================================================
