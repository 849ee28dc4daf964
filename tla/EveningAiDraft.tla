--------------------------- MODULE EveningAiDraft ---------------------------
(* Drafts of evening routes made by a language model. A user asks for one,  *)
(* accepts its steps one by one, has a step or the whole route made anew,   *)
(* and confirms; only then a route is saved.                                *)
(*                                                                          *)
(* Every call reads the draft, thinks - the model may take minutes - and    *)
(* writes the row by its id, whatever has become of it meanwhile. The first *)
(* draft of one user's week is followed; of later ones, and of meetups, the *)
(* number matters. The expiry of drafts, which only refuses calls, and the  *)
(* wording of routes are left out.                                          *)
EXTENDS Integers, Sequences, FiniteSets, FiniteSetsExt

CONSTANTS
    Roles,          \* the role of each step, in order
    RoleOf,         \* the candidate pack in its order: the role of each candidate
    Calls,          \* calls that may overlap
    Keys,           \* idempotency keys of meetups the user may create
    DraftLimit,     \* drafts a free user may make in a week
    MeetupLimit,    \* drafts and meetups together
    MaxCalls        \* bound on calls

VARIABLES
    draft,      \* the EveningAiRouteDraft row
    routes,     \* EveningRoute rows made from it
    drafted,    \* drafts made this week
    meetups,    \* keys of the meetups created this week
    call,       \* per open call: what it has read
    left,       \* calls left
    shown,      \* the route the client shows
    agreed,     \* (history) per step: candidates accepted by the user as he saw them
    crossed,    \* (history) steps marked accepted that had been changed behind the user's back
    rushed,     \* (history) two creations counted the same week
    twins,      \* (history) two confirmations read the draft as unconfirmed
    undone      \* (history) a confirmation has put back a route made anew meanwhile

vars == <<draft, routes, drafted, meetups, call, left, shown, agreed, crossed,
          rushed, twins, undone>>
history == <<agreed, crossed, rushed, twins, undone>>

Steps == DOMAIN Roles
Candidates == DOMAIN RoleOf
NoDraft == [route |-> <<>>, accepted |-> {}, rejected |-> {}, saved |-> 0]
Idle == [op |-> "idle"]
Used(route) == {route[i] : i \in DOMAIN route}

-----------------------------------------------------------------------------
(* Routes *)

(* Slip: the substitute may already have a step.                            *)
SubstituteAny(role, route, offered) == Min({c \in offered : RoleOf[c] = role})

(* The first candidate of a role that has no step yet.                      *)
Substitute(role, route, offered) ==
    Min({c \in offered : RoleOf[c] = role /\ c \notin Used(route)})

(* routeFromGenerated: what the model names for a step is taken if it is    *)
(* offered, has the step's role and has no step yet.                        *)
FromGenerated(answer, offered) ==
    LET upTo[i \in {0} \union Steps] ==
            IF i = 0 THEN <<>>
            ELSE LET c == answer[i] IN
                 Append(upTo[i - 1],
                        IF /\ c \in offered
                           /\ RoleOf[c] = Roles[i]
                           /\ c \notin Used(upTo[i - 1])
                        THEN c ELSE Substitute(Roles[i], upTo[i - 1], offered))
    IN  upTo[Len(Roles)]

(* validateGeneratedRoute, as far as it decides what a route may hold.      *)
Valid(answer, offered) ==
    \A i \in Steps :
        /\ answer[i] \in offered
        /\ RoleOf[answer[i]] = Roles[i]
        /\ \A j \in Steps : answer[j] = answer[i] => j = i

(* deterministicRoute: the first candidate of each role.                    *)
FirstOfRole(offered) ==
    [i \in Steps |-> Min({c \in offered : RoleOf[c] = Roles[i]})]

(* generateRouteWithFallback: a valid answer of one of two attempts, or     *)
(* after two refused or failed ones the deterministic route.                *)
Generated(offered) ==
    {FromGenerated(a, offered) : a \in {b \in [Steps -> Candidates] : Valid(b, offered)}}
        \union {FromGenerated(FirstOfRole(offered), offered)}

(* hasEnoughCandidatesForRoles                                              *)
EnoughFor(offered) ==
    \A i \in Steps :
        Cardinality({j \in Steps : Roles[j] = Roles[i]})
            <= Cardinality({c \in offered : RoleOf[c] = Roles[i]})

-----------------------------------------------------------------------------
Init ==
    /\ draft = NoDraft
    /\ routes = <<>>
    /\ drafted = 0
    /\ meetups = {}
    /\ call = [k \in Calls |-> Idle]
    /\ left = MaxCalls
    /\ shown = <<>>
    /\ agreed = [i \in Steps |-> {}]
    /\ crossed = {}
    /\ rushed = FALSE
    /\ twins = FALSE
    /\ undone = FALSE

Begin(k, c) ==
    /\ call[k] = Idle
    /\ left > 0
    /\ left' = left - 1
    /\ call' = [call EXCEPT ![k] = c]

(* A call about the draft has read its row.                                 *)
BeginOn(k, op, i) ==
    /\ draft # NoDraft
    /\ Begin(k, [op |-> op, step |-> i, read |-> draft])

End(k) == call' = [call EXCEPT ![k] = Idle]

(* The answer reaches the client, or is lost on its way.                    *)
Answer(route) == shown' \in {shown, route}

(* Errors, of the model or the database, leave nothing behind.              *)
Fail(k) ==
    /\ call[k] # Idle
    /\ End(k)
    /\ UNCHANGED <<draft, routes, drafted, meetups, left, shown>>
    /\ UNCHANGED history

-----------------------------------------------------------------------------
(* The week's limits: counted before the draft is made or the meetup is     *)
(* looked through, written long after.                                      *)
Week == <<drafted, meetups>>

BeginCreate(k) ==
    /\ drafted < DraftLimit
    /\ drafted + Cardinality(meetups) < MeetupLimit
    /\ EnoughFor(Candidates)
    /\ Begin(k, [op |-> "create", saw |-> Week])
    /\ UNCHANGED <<draft, routes, drafted, meetups, shown>>
    /\ UNCHANGED history

CreateDraft(k) ==
    /\ call[k].op = "create"
    /\ drafted' = drafted + 1
    /\ rushed' = (rushed \/ call[k].saw # Week)
    /\ IF draft = NoDraft
       THEN \E route \in Generated(Candidates) :
               /\ draft' = [NoDraft EXCEPT !.route = route]
               /\ shown' = route
       ELSE UNCHANGED <<draft, shown>>
    /\ End(k)
    /\ UNCHANGED <<routes, meetups, left, agreed, crossed, twins, undone>>

BeginMeetup(k, key) ==
    /\ key \notin meetups
    /\ drafted + Cardinality(meetups) < MeetupLimit
    /\ Begin(k, [op |-> "meetup", key |-> key, saw |-> Week])
    /\ UNCHANGED <<draft, routes, drafted, meetups, shown>>
    /\ UNCHANGED history

(* The key is unique: a repeated call that comes second finds the meetup.   *)
CreateMeetup(k) ==
    /\ call[k].op = "meetup"
    /\ meetups' = meetups \union {call[k].key}
    /\ rushed' = (rushed \/ (meetups' # meetups /\ call[k].saw # Week))
    /\ End(k)
    /\ UNCHANGED <<draft, routes, drafted, left, shown, agreed, crossed, twins, undone>>

-----------------------------------------------------------------------------
(* The draft *)

GetDraft ==
    /\ draft # NoDraft
    /\ shown' = draft.route
    /\ UNCHANGED <<draft, routes, drafted, meetups, call, left>>
    /\ UNCHANGED history

(* The user accepts step i as his client shows it.                          *)
BeginAccept(k, i) ==
    /\ BeginOn(k, "accept", i)
    /\ agreed' = [agreed EXCEPT ![i] = @ \union {shown[i]}]
    /\ crossed' = IF shown[i] = draft.route[i] THEN crossed ELSE crossed \union {i}
    /\ UNCHANGED <<draft, routes, drafted, meetups, shown, rushed, twins, undone>>

AcceptStep(k) ==
    LET c == call[k]
        accepted == c.read.accepted \union {c.step}
    IN
    /\ c.op = "accept"
    /\ draft' = [draft EXCEPT !.accepted = accepted]
    /\ crossed' = crossed \union {i \in accepted : draft.route[i] # c.read.route[i]}
    /\ Answer(draft.route)
    /\ End(k)
    /\ UNCHANGED <<routes, drafted, meetups, left, agreed, rushed, twins, undone>>

Rewrite(k, route, accepted, rejected) ==
    /\ draft' = [draft EXCEPT !.route = route, !.accepted = accepted,
                              !.rejected = rejected]
    /\ Answer(route)
    /\ End(k)
    /\ UNCHANGED <<routes, drafted, meetups, left>>
    /\ UNCHANGED history

BeginRegenerateStep(k, i) ==
    /\ BeginOn(k, "step", i)
    /\ UNCHANGED <<draft, routes, drafted, meetups, shown>>
    /\ UNCHANGED history

(* Another candidate of the step's role, neither rejected nor in use; the   *)
(* rest of the route stays as it was read.                                  *)
RegenerateStep(k) ==
    LET c == call[k]
        route == c.read.route
        rejected == c.read.rejected \union {route[c.step]}
    IN
    /\ c.op = "step"
    /\ \E new \in Candidates \ (rejected \union Used(route)) :
          /\ RoleOf[new] = Roles[c.step]
          /\ Rewrite(k, FromGenerated([route EXCEPT ![c.step] = new], Candidates),
                     c.read.accepted \ {c.step}, rejected)

(* Slip: what was accepted before stays accepted.                           *)
RegenerateDraftKeeps(k) ==
    LET c == call[k]
        rejected == c.read.rejected \union Used(c.read.route)
    IN
    /\ c.op = "draft"
    /\ EnoughFor(Candidates \ rejected)
    /\ \E route \in Generated(Candidates \ rejected) :
          Rewrite(k, route, c.read.accepted, rejected)

BeginRegenerateDraft(k) ==
    /\ BeginOn(k, "draft", 0)
    /\ UNCHANGED <<draft, routes, drafted, meetups, shown>>
    /\ UNCHANGED history

RegenerateDraft(k) ==
    LET c == call[k]
        rejected == c.read.rejected \union Used(c.read.route)
    IN
    /\ c.op = "draft"
    /\ EnoughFor(Candidates \ rejected)
    /\ \E route \in Generated(Candidates \ rejected) : Rewrite(k, route, {}, rejected)

(* A draft that has its route is answered as it is.                         *)
BeginConfirm(k) ==
    /\ draft.accepted = Steps
    /\ draft.saved = 0
    /\ BeginOn(k, "confirm", 0)
    /\ UNCHANGED <<draft, routes, drafted, meetups, shown>>
    /\ UNCHANGED history

ConfirmDraft(k) ==
    LET route == call[k].read.route IN
    /\ call[k].op = "confirm"
    /\ routes' = Append(routes, route)
    /\ draft' = [draft EXCEPT !.route = route, !.saved = Len(routes) + 1]
    /\ twins' = (twins \/ draft.saved # 0)
    /\ undone' = (undone \/ draft.route # route)
    /\ Answer(route)
    /\ End(k)
    /\ UNCHANGED <<drafted, meetups, left, agreed, crossed, rushed>>

-----------------------------------------------------------------------------
Next ==
    \/ \E k \in Calls :
          \/ BeginCreate(k) \/ CreateDraft(k)
          \/ \E key \in Keys : BeginMeetup(k, key)
          \/ CreateMeetup(k)
          \/ \E i \in Steps : BeginAccept(k, i) \/ BeginRegenerateStep(k, i)
          \/ AcceptStep(k) \/ RegenerateStep(k)
          \/ BeginRegenerateDraft(k) \/ RegenerateDraft(k)
          \/ BeginConfirm(k) \/ ConfirmDraft(k)
          \/ Fail(k)
    \/ GetDraft

Spec == Init /\ [][Next]_vars

-----------------------------------------------------------------------------
TypeOK ==
    /\ draft.accepted \subseteq Steps
    /\ draft.rejected \subseteq Candidates
    /\ draft.saved \in 0 .. Len(routes)
    /\ meetups \subseteq Keys
    /\ crossed \subseteq Steps
    /\ agreed \in [Steps -> SUBSET Candidates]

(* Every step has a candidate of its role, and each candidate one step.     *)
Fits(route) == Valid(route, Candidates) /\ Len(route) = Len(Roles)

WithinTheWeek ==
    drafted <= DraftLimit /\ drafted + Cardinality(meetups) <= MeetupLimit

(* Whatever the model answers and however calls about the draft overtake    *)
(* each other: a draft's route fits and holds nothing the user has rejected *)
(* (unless a confirmation undid his last change); a saved route fits, and   *)
(* each of its steps was accepted by the user as he saw it, but for steps   *)
(* whose acceptance crossed a change; a draft is saved once unless two      *)
(* confirmations overlapped; and the week's limits hold unless two          *)
(* creations did.                                                           *)
SavedAsAgreed ==
    /\ draft # NoDraft => Fits(draft.route)
    /\ undone \/ Used(draft.route) \intersect draft.rejected = {}
    /\ \A n \in DOMAIN routes :
          /\ Fits(routes[n])
          /\ \A i \in Steps : routes[n][i] \in agreed[i] \/ i \in crossed
    /\ twins \/ Len(routes) <= 1
    /\ rushed \/ WithinTheWeek
=============================================================================
