----------------------------- MODULE RoutePlans -----------------------------
(* The planner over every selection of a pool of candidates: an import or a *)
(* moderator makes one more of them available, and the routes planned for a *)
(* mood and a budget change as a whole.                                     *)
EXTENDS RoutePlanner

CONSTANTS
    Pool,       \* candidates in the order of the query
    Budgets,    \* budgets asked for
    MostRoutes  \* routes planned at most

VARIABLES
    mood,
    budget,
    there       \* ids of the candidates available

vars == <<mood, budget, there>>

Init ==
    /\ mood \in DOMAIN MaxWalk
    /\ budget \in Budgets
    /\ there = {}

(* selectCandidates: published, with coordinates, not expired.              *)
Candidates == SelectSeq(Pool, LAMBDA x : x.id \in there)

Publish(x) ==
    /\ x.id \notin there
    /\ there' = there \union {x.id}
    /\ UNCHANGED <<mood, budget>>

Next == \E x \in ToSet(Pool) : Publish(x)

Spec == Init /\ [][Next]_vars

(* What InTime and Promised say, of every route the planner offers; the     *)
(* validator, which looks at candidates and labels only, agrees.            *)
PlansFit ==
    \A route \in ToSet(Skeletons(mood, budget, Candidates, MostRoutes)) :
        /\ InTime(route)
        /\ Promised(route, mood, budget)
        /\ Verdict(route, Candidates, budget) # "invalid"
=============================================================================
