---------------------------- MODULE RoutePlanner ----------------------------
(* How the worker plans an evening route from imported events and places,   *)
(* and what it lets pass for review, whoever has planned it.                *)
(*                                                                          *)
(* A candidate is [id, kind, cat, at, start, end, price]: its normalised    *)
(* category, where it is along one street (metres), when an event starts    *)
(* and ends (minutes since the first day's midnight, end None if unknown),  *)
(* what it costs (None if unknown). A list of candidates is in the order of *)
(* the query, which breaks ties. Titles, texts and their lengths are left   *)
(* out, so are the tag of cheap places and missing coordinates.             *)
EXTENDS Integers, Sequences, SequencesExt, FiniteSets, FiniteSetsExt

None == -1
Day == 1440

-----------------------------------------------------------------------------
(* What goes where in which mood *)

AnchorCats ==
    [outdoor |-> <<"bike", "adventure", "outdoor", "sport", "walk", "festival", "market">>,
     active  |-> <<"sport", "adventure", "bike", "outdoor", "workshop", "festival", "quest">>,
     date    |-> <<"theatre", "concert", "cinema", "culture", "walk", "quest">>,
     culture |-> <<"theatre", "concert", "lecture", "workshop", "culture", "festival", "market">>,
     calm    |-> <<"culture", "walk", "lecture", "market", "concert", "theatre">>,
     social  |-> <<"comedy", "quiz", "concert", "festival", "market", "culture", "quest",
                   "active", "walk">>]

BeforeCats ==
    [outdoor |-> <<"cafe", "food", "walk">>, active |-> <<"food", "cafe">>,
     date    |-> <<"food", "bar", "culture">>, culture |-> <<"cafe", "food", "walk">>,
     calm    |-> <<"cafe", "food", "walk">>, social |-> <<"food", "bar", "cafe", "culture">>]

AfterCats ==
    [outdoor |-> <<"walk", "food", "cafe", "bar">>, active |-> <<"bar", "food", "cafe">>,
     date    |-> <<"bar", "food", "walk">>, culture |-> <<"bar", "food", "cafe", "walk">>,
     calm    |-> <<"walk", "cafe", "food">>, social |-> <<"walk", "bar", "food">>]

SecondAfterCats(mood, previous) ==
    IF previous \notin {"walk", "outdoor"} THEN <<>>
    ELSE IF mood \in {"social", "culture", "date"} THEN <<"bar", "cafe", "food">>
    ELSE IF mood = "calm" THEN <<"cafe", "food">> ELSE <<>>

FlexibleCats ==
    [outdoor |-> <<"walk", "outdoor", "bike", "sport", "adventure", "park", "food", "cafe">>,
     active  |-> <<"sport", "adventure", "bike", "outdoor", "workshop", "food", "bar", "walk", "quest">>,
     date    |-> <<"food", "culture", "theatre", "bar", "walk">>,
     culture |-> <<"cafe", "culture", "theatre", "concert", "lecture", "bar", "walk">>,
     calm    |-> <<"cafe", "walk", "culture", "market", "food">>,
     social  |-> <<"food", "comedy", "quiz", "bar", "concert", "festival", "walk">>]

MaxWalk == [calm |-> 15, date |-> 15, culture |-> 18, social |-> 20, active |-> 25, outdoor |-> 35]
BudgetLimit == [free |-> 0, low |-> 2500, mid |-> 6000, high |-> None]

Hospitality == {"food", "cafe", "bar", "karaoke", "lounge"}

Duration(x) ==
    IF x.cat \in {"theatre", "concert", "cinema"} THEN 120
    ELSE IF x.cat \in {"quest", "comedy", "quiz", "lecture", "workshop", "market", "festival",
                       "sport", "bike", "adventure", "outdoor", "spa", "active"} THEN 90
    ELSE IF x.cat = "culture" THEN 75
    ELSE IF x.cat \in {"food", "bar"} THEN 60
    ELSE IF x.cat = "walk" THEN 30 ELSE 45

-----------------------------------------------------------------------------
(* Distances, times, prices *)

Dist(x, y) == IF x.at < y.at THEN y.at - x.at ELSE x.at - y.at
Walk(x, y) == Max({1, (Dist(x, y) + 79) \div 80})
SameVenue(x, y) == Dist(x, y) <= 80
Span(s) == Max({Dist(s[i], s[j]) : i, j \in DOMAIN s})

(* Slip: the walk is not reckoned with.                                     *)
FixedGap(x, y) == 10

(* From the end of one step to the start of the next.                       *)
Gap(x, y) == Max({10, Walk(x, y) + 5})

(* eventEndDate                                                             *)
EventEnd(x) == IF x.end > x.start THEN x.end ELSE x.start + Duration(x)

Free(x) == x.price = 0

FitsBudget(x, budget) ==
    /\ ~(x.kind = "event" /\ x.price = None)
    /\ \/ budget = "free" /\ Free(x)
       \/ budget # "free" /\ (BudgetLimit[budget] = None \/ x.price <= BudgetLimit[budget])

FitsMood(x, mood, budget) ==
    \/ mood # "outdoor" \/ budget # "free"
    \/ x.cat \in {"walk", "outdoor", "bike", "sport", "adventure"}
    \/ x.cat \in Hospitality /\ Free(x)

-----------------------------------------------------------------------------
(* Choosing *)

(* F(v), with v worked out once: TLC may do so at every use of a LET.       *)
With(v, F(_)) == CHOOSE r \in {F(x) : x \in {v}} : TRUE

(* categoryPriority                                                         *)
Priority(cat, cats) ==
    IF cat \in ToSet(cats) THEN (CHOOSE i \in DOMAIN cats : cats[i] = cat) - 1 ELSE 99

(* The first of the least, as a sequence of at most one.                    *)
Least(s, Key(_)) ==
    IF s = <<>> THEN <<>>
    ELSE <<s[CHOOSE i \in DOMAIN s :
               \A j \in DOMAIN s : Key(s[i]) < Key(s[j]) \/ (Key(s[i]) = Key(s[j]) /\ i <= j)]>>

(* Sorted by a key, stable.                                                 *)
SortedBy(s, Key(_)) ==
    LET before(i, j) == Key(s[i]) < Key(s[j]) \/ (Key(s[i]) = Key(s[j]) /\ i < j)
    IN  With(SetToSortSeq(DOMAIN s, before), LAMBDA order : [k \in DOMAIN s |-> s[order[k]]])

(* findFlexiblePlace                                                        *)
Near(list, x, cats, taken, far) ==
    LET fits(y) == /\ y.kind = "place" /\ y.id \notin taken
                   /\ ~SameVenue(y, x) /\ Walk(y, x) <= far
        key(y) == Priority(y.cat, cats) * 100000 + Dist(y, x)
    IN  With(SelectSeq(list, fits), LAMBDA more : Least(more, key))

(* selectAnchors                                                            *)
Anchors(mood, list) ==
    LET timed(x) == x.kind = "event"
        key(x) == Priority(x.cat, AnchorCats[mood]) * 100000 + x.start
    IN  With(SelectSeq(list, timed), LAMBDA events : SortedBy(events, key))

Ids(s) == {s[i].id : i \in DOMAIN s}

-----------------------------------------------------------------------------
(* Routes: sequences of [item, from, to, walk] with labels within a day *)

Step(x, from, to, walk) ==
    [item |-> x, from |-> from % Day, to |-> to % Day, walk |-> walk]

(* The steps after the last one, each as long as its candidate lasts.       *)
RECURSIVE Extended(_, _, _)
Extended(route, clock, more) ==
    IF more = <<>> THEN route
    ELSE LET last == Last(route).item
             x == Head(more)
         IN  With(clock + Gap(last, x), LAMBDA from :
             With(Append(route, Step(x, from, from + Duration(x), Walk(last, x))), LAMBDA longer :
                 Extended(longer, from + Duration(x), Tail(more))))

(* An event, a place before it and up to two after.                         *)
Laid(mood, a, near, after, second) ==
    LET before == IF /\ mood \in {"social", "culture"}
                     /\ second # <<>> /\ after[1].cat = "walk"
                  THEN <<>> ELSE near
        start == a.start % Day
        end == IF a.end # None THEN a.end % Day ELSE start + Duration(a)
        lead == [i \in DOMAIN before |->
                    LET to == start - Gap(before[i], a)
                    IN  Step(before[i], to - 45, to, 0)]
        anchor == Step(a, start, end, IF before = <<>> THEN 0 ELSE Walk(before[1], a))
    IN  IF before \o after = <<>> THEN <<>>
        ELSE With(Append(lead, anchor), LAMBDA route : Extended(route, end, after \o second))

(* buildAnchoredRoute                                                       *)
Anchored(mood, list, a) ==
    LET far == MaxWalk[mood]
        second(near, after) ==
            LET cats == IF after = <<>> THEN <<>> ELSE SecondAfterCats(mood, after[1].cat)
            IN  IF cats = <<>> THEN <<>>
                ELSE Near(list, after[1], cats, {a.id} \union Ids(near \o after), far)
    IN  With(Near(list, a, BeforeCats[mood], {}, far), LAMBDA near :
        With(Near(list, a, AfterCats[mood], {a.id} \union Ids(near), far), LAMBDA after :
        With(second(near, after), LAMBDA more : Laid(mood, a, near, after, more))))

(* findNextFlexiblePlace                                                    *)
Grown(chosen, places, cats, far) ==
    LET fits(y) == /\ \A i \in DOMAIN chosen : /\ y.cat # chosen[i].cat
                                               /\ y.id # chosen[i].id
                                               /\ ~SameVenue(chosen[i], y)
                   /\ Walk(Last(chosen), y) <= far
        key(y) == Priority(y.cat, cats) * 500 + Dist(y, Last(chosen))
    IN  With(SelectSeq(places, fits), LAMBDA more : chosen \o Least(more, key))

(* flexibleClusterScore                                                     *)
ClusterScore(s, cats) ==
    LET n == Len(s)
        ranks == FoldLeftDomain(LAMBDA t, i : t + Priority(s[i].cat, cats) * (n + 1 - i), 0, s)
        walks == FoldLeftDomain(LAMBDA t, i : IF i = 1 THEN t ELSE t + Walk(s[i - 1], s[i]), 0, s)
    IN  (IF n < 3 THEN 5000 ELSE 0) + ranks * 100 + walks + (IF Span(s) <= 120 THEN 10000 ELSE 0)

(* selectFlexiblePlaceCluster                                               *)
Cluster(mood, list) ==
    LET cats == FlexibleCats[mood]
        far == Min({MaxWalk[mood], 28})
        grown(places, seed) == With(Grown(<<seed>>, places, cats, far), LAMBDA s :
                                   Grown(s, places, cats, far))
        best(clusters) == Least(SelectSeq(clusters, LAMBDA s : Len(s) >= 2),
                                LAMBDA s : ClusterScore(s, cats))
    IN  With(SelectSeq(list, LAMBDA x : x.kind = "place"), LAMBDA places :
        With(SortedBy(places, LAMBDA x : Priority(x.cat, cats)), LAMBDA seeds :
        With([i \in DOMAIN seeds |-> grown(places, seeds[i])], LAMBDA clusters :
        With(best(clusters), LAMBDA s : IF s = <<>> THEN <<>> ELSE s[1]))))

(* buildFlexibleRoute: places only, from seven in the evening.              *)
Flexible(mood, list) ==
    LET start == 19 * 60
    IN  With(Cluster(mood, list), LAMBDA s :
            IF s = <<>> THEN <<>>
            ELSE Extended(<<Step(s[1], start, start + Duration(s[1]), 0)>>,
                          start + Duration(s[1]), Tail(s)))

(* buildEventHopRoute: the first two events that follow each other.         *)
EventHop(mood, list) ==
    LET follows(x, y) ==
            LET pause == y.start - EventEnd(x)
            IN  /\ y.id # x.id /\ y.cat # x.cat /\ ~SameVenue(x, y)
                /\ Walk(x, y) <= MaxWalk[mood]
                /\ pause >= Gap(x, y) /\ pause <= 150
        hop(x, y) ==
            <<Step(x, x.start, EventEnd(x), 0), Step(y, y.start, EventEnd(y), Walk(x, y))>>
    IN  With(Anchors(mood, list), LAMBDA s :
        With({i \in DOMAIN s : \E j \in DOMAIN s : follows(s[i], s[j])}, LAMBDA firsts :
            IF firsts = {} THEN <<>>
            ELSE LET i == Min(firsts)
                 IN  hop(s[i], s[Min({j \in DOMAIN s : follows(s[i], s[j])})])))

-----------------------------------------------------------------------------
(* validateRouteDraft *)

(* sameTimeLabel                                                            *)
SameTime(label, time) == label - (time % Day) \in -5 .. 5

Price(route) ==
    FoldLeft(LAMBDA t, s : IF s.item.price = None THEN t ELSE t + s.item.price, 0, route)

(* Slip: a bar may stand anywhere.                                          *)
FlowsAnyhow(items) ==
    \A i \in DOMAIN items : i > 1 => ~(items[i - 1].cat \in Hospitality /\ items[i].cat \in Hospitality)

(* A bar is last, two places to eat or drink are not next to each other.    *)
Flows(items) ==
    \A i \in DOMAIN items :
        /\ items[i].cat = "bar" => i = Len(items)
        /\ i > 1 => ~(items[i - 1].cat \in Hospitality /\ items[i].cat \in Hospitality)

(* Of events next to each other the later one starts late enough; events    *)
(* with a place between them are not compared.                              *)
EventsFollow(items) ==
    \A i \in DOMAIN items :
        i > 1 /\ items[i - 1].kind = "event" /\ items[i].kind = "event" =>
            items[i].start >= EventEnd(items[i - 1]) + Gap(items[i - 1], items[i])

(* No venue twice, except two different kinds of place; some movement.      *)
Moves(items) ==
    /\ \A i, j \in DOMAIN items :
          i < j /\ SameVenue(items[i], items[j]) =>
              /\ items[i].kind = "place" /\ items[j].kind = "place"
              /\ items[i].cat # items[j].cat
    /\ Len(items) >= 3 => Span(items) > 120

Verdict(route, list, budget) ==
    LET items == [i \in DOMAIN route |-> route[i].item]
        events == {i \in DOMAIN items : items[i].kind = "event"}
        sound ==
            /\ Len(route) \in 2 .. 4
            /\ \A i \in DOMAIN route :
                  LET x == items[i] IN
                  /\ x \in ToSet(list)
                  /\ \A j \in DOMAIN route : items[j].id = x.id => j = i
                  /\ budget = "free" => FitsBudget(x, budget)
                  /\ route[i].walk < 30
                  /\ x.kind = "event" =>
                        /\ SameTime(route[i].from, x.start)
                        /\ x.end # None => SameTime(route[i].to, x.end)
            /\ Cardinality(events) <= 2
            /\ Cardinality({items[i].cat : i \in events}) = Cardinality(events)
            /\ Flows(items) /\ EventsFollow(items) /\ Moves(items)
            /\ BudgetLimit[budget] # None => Price(route) <= BudgetLimit[budget]
    IN  IF ~sound THEN "invalid" ELSE IF Cardinality(events) = 2 THEN "warning" ELSE "valid"

-----------------------------------------------------------------------------
(* buildRouteSkeletons: the most routes asked for; two events only if       *)
(* nothing else can be had.                                                 *)
Skeletons(mood, budget, all, most) ==
    LET ordered(flexible, anchored) ==
            IF mood = "outdoor" THEN flexible \o anchored ELSE anchored \o flexible
        passed(list, routes, verdicts) ==
            SelectSeq(routes, LAMBDA r : r # <<>> /\ Verdict(r, list, budget) \in verdicts)
        routes(list) ==
            With([i \in DOMAIN Anchors(mood, list) |->
                     Anchored(mood, list, Anchors(mood, list)[i])], LAMBDA anchored :
            With(passed(list, ordered(<<Flexible(mood, list)>>, anchored), {"valid"}), LAMBDA planned :
                IF planned # <<>> THEN planned
                ELSE passed(list, <<EventHop(mood, list)>>, {"valid", "warning"})))
    IN  With(SelectSeq(all, LAMBDA x : FitsBudget(x, budget) /\ FitsMood(x, mood, budget)), LAMBDA list :
        With(routes(list), LAMBDA planned : SubSeq(planned, 1, Min({most, Len(planned)}))))

-----------------------------------------------------------------------------
(* Between two steps of a planned route there is time for the walk, and a   *)
(* pause of at least ten minutes.                                           *)
InTime(route) ==
    \A i \in 2 .. Len(route) :
        LET x == route[i - 1]
            y == route[i]
            pause == (y.from - x.to) % Day
        IN  /\ pause >= 10 /\ pause <= 150
            /\ pause >= Walk(x.item, y.item) + 5
            /\ y.walk = Walk(x.item, y.item)

(* A planned route has one event at its own time, or two of different       *)
(* categories if no route with at most one was found, and nobody is asked   *)
(* to walk or to pay more than the mood and the budget allow; a bar is the  *)
(* last stop (backend-api.md, route review generation).                     *)
Promised(route, mood, budget) ==
    LET n == Len(route)
        events == {i \in 1 .. n : route[i].item.kind = "event"}
    IN  /\ n \in 2 .. 4
        /\ IsInjective([i \in 1 .. n |-> route[i].item.id])
        /\ \A i \in 1 .. n :
              /\ route[i].item.cat = "bar" => i = n
              /\ route[i].walk <= MaxWalk[mood] /\ route[i].walk < 30
        /\ \A i \in events : route[i].from = route[i].item.start % Day
        /\ \A i, j \in events : i = j \/ route[i].item.cat # route[j].item.cat
        /\ Cardinality(events) = 2 => n = 2
        /\ BudgetLimit[budget] # None => Price(route) <= BudgetLimit[budget]
=============================================================================
