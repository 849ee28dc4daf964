------------------------------- MODULE MCChats ------------------------------
(* Small instances for TLC of the chats, of the services that open them, of *)
(* how a meetup is made and who belongs to it, of partners and of the bot:  *)
(* the services about which ChatsProofs proves what these instances show.   *)
(* Each behaviour is one of one service, chosen at the start by focus; the  *)
(* services take turns at the same variables, v1 and on, and those a        *)
(* service has no use for are "off".                                        *)
EXTENDS Integers, Sequences, FiniteSets, TLC

CONSTANTS
    k1, k2,     \* calls
    m1, m2,     \* messages or users that are alike
    AnyCalls,   \* calls that may overlap, of the services whose other constants follow
    LogClients, LogMessages, LogPage, MaxLogEvents, MaxLogFaults,
    Residents, Founder, MaxGroupCalls,
    MaxOfferAttempts, MaxOfferCalls, MaxOfferWindows,
    MaxPortalCalls, MostPartners,
    BotUpdates, BotPoison, MaxBotFaults,
    DraftRoles, DraftOffers, DraftKeys, MaxDrafts, MaxWeekly, MaxDraftCalls,
    MeetupKeys, WeeklyMeetups, DraftsMade, MeetupBounds

ASSUME ModelValues == "host" \notin {m1, m2}
ASSUME LogFits ==
    LogPage \in Nat \ {0} /\ MaxLogEvents \in Nat /\ "none" \notin LogMessages
ASSUME FounderLives == Founder \in Residents
ASSUME BoundsFit == MaxOfferAttempts \in Nat /\ BotUpdates \in Nat
ASSUME DraftsFit ==
    /\ Len(DraftRoles) \in Nat \ {0} /\ DOMAIN DraftRoles = 1 .. Len(DraftRoles)
    /\ Len(DraftOffers) \in Nat /\ DOMAIN DraftOffers = 1 .. Len(DraftOffers)
    /\ MaxDrafts \in Nat /\ MaxWeekly \in Nat

(* What a request for a meetup may hold.                                    *)
MeetupBodies ==
    [mode : {"default", "dating", "afterdark"}, visibility : {"public", "friends"},
     access : {"open", "request", "free"}, join : {"open", "request"},
     needs : SUBSET {"verification", "plus"}, capacity : Int,
     from : {"form", "route", "steps", "affiche", "place"}, point : BOOLEAN, invites : BOOLEAN]

ASSUME MeetupsFit ==
    /\ WeeklyMeetups \in Nat /\ DraftsMade \in Nat
    /\ \A b \in MeetupBounds : b.bodies \union b.edits \subseteq MeetupBodies

VARIABLES
    focus,
    v1, v2, v3, v4, v5, v6, v7, v8, v9, v10, v11, v12, v13, v14, v15, v16

everything == <<v1, v2, v3, v4, v5, v6, v7, v8, v9, v10, v11, v12, v13, v14, v15, v16>>
off == "off"
TwoCalls == {k1, k2}
Symmetry == {p @@ q : p \in Permutations(TwoCalls), q \in Permutations({m1, m2})}

-----------------------------------------------------------------------------
(* The realtime log of a chat: one message, two calls that change it, one   *)
(* client that follows it with pages of one event.                          *)
Sync == INSTANCE ChatSync WITH
    Clients <- LogClients,
    Msgs <- LogMessages,
    Calls <- AnyCalls,
    PageSize <- LogPage,
    MaxEvents <- MaxLogEvents,
    MaxFaults <- MaxLogFaults,
    nextId <- v1, log <- v2, row <- v3, call <- v4, relay <- v5, bus <- v6,
    out <- v7, pc <- v8, cursor <- v9, since <- v10, heard <- v11,
    page <- v12, seen <- v13, excuse <- v14, lost <- v15, faults <- v16

(* See ChatSync: the log, replayed by id, ends as stored, and a live client *)
(* misses only what the protocol may withhold.                              *)
LogHolds == focus = "sync" => Sync!LogHolds

-----------------------------------------------------------------------------
(* Drafts of evening routes: steps "food" and "food", candidates of which   *)
(* one is of another role, limits of two drafts and one meetup, two calls.  *)
TwoOfFood == <<"food", "food">>
FiveOffers == <<"food", "food", "bar", "food", "food">>

Draft == INSTANCE EveningAiDraft WITH
    Roles <- DraftRoles,
    RoleOf <- DraftOffers,
    Calls <- AnyCalls,
    Keys <- DraftKeys,
    DraftLimit <- MaxDrafts,
    MeetupLimit <- MaxWeekly,
    MaxCalls <- MaxDraftCalls,
    draft <- v1, routes <- v2, drafted <- v3, meetups <- v4, call <- v5,
    left <- v6, shown <- v7, agreed <- v8, crossed <- v9, rushed <- v10,
    twins <- v11, undone <- v12

(* See EveningAiDraft: what is saved is what the user agreed to.            *)
SavedAsAgreed == focus = "draft" => Draft!SavedAsAgreed

-----------------------------------------------------------------------------
(* A community. Its constants are those of the module, for ChatsProofs to   *)
(* speak of all their values: the run has a founder, one more user, and two *)
(* calls at a time.                                                         *)
Group == INSTANCE Communities WITH
    Users <- Residents,
    Creator <- Founder,
    Calls <- AnyCalls,
    MaxCalls <- MaxGroupCalls,
    creator <- v1, privacy <- v2, member <- v3, chat <- v4, request <- v5,
    call <- v6, left <- v7, hidden <- v8, crossed <- v9, raced <- v10,
    deposed <- v11

(* See Communities: members and the chat agree, and the creator owns the    *)
(* community.                                                               *)
CommunityHolds == focus = "group" => Group!CommunityHolds

-----------------------------------------------------------------------------
(* The code of one participant for one offer: two calls at a time.          *)
Offer == INSTANCE OfferCodes WITH
    Calls <- AnyCalls,
    MaxAttempts <- MaxOfferAttempts,
    MaxCalls <- MaxOfferCalls,
    MaxWindows <- MaxOfferWindows,
    code <- v1, over <- v2, joined <- v3, tracked <- v4, attempts <- v5,
    call <- v6, left <- v7, windows <- v8, used <- v9, told <- v10,
    served <- v11, unsaid <- v12

(* See OfferCodes: a code is used once, and counted once.                   *)
CodesHold == focus = "offer" => Offer!CodesHold

-----------------------------------------------------------------------------
(* An organization with up to two partners: two calls at a time.            *)
Portal == INSTANCE Partners WITH
    Calls <- AnyCalls,
    MaxCalls <- MaxPortalCalls,
    MaxPartners <- MostPartners,
    account <- v1, partners <- v2, live <- v3, meetups <- v4, call <- v5,
    left <- v6, hosts <- v7, late <- v8, halfway <- v9, crossed <- v10,
    canceled <- v11

(* See Partners: suspension ends the sessions, a partner has one host,      *)
(* seats follow the verdicts.                                               *)
PartnersHold == focus = "partner" => Portal!PartnersHold

-----------------------------------------------------------------------------
(* The relay to the bot: four updates, of which the last is refused, and    *)
(* two faults.                                                              *)
Relay == INSTANCE TelegramRelay WITH
    Updates <- BotUpdates,
    Poison <- BotPoison,
    MaxFaults <- MaxBotFaults,
    arrived <- v1, confirmed <- v2, last <- v3, file <- v4, poll <- v5,
    dispatched <- v6, answered <- v7, faults <- v8, repeats <- v9

(* See TelegramRelay: an update is handled before it is forgotten.          *)
RelayHolds == focus = "relay" => Relay!RelayHolds

-----------------------------------------------------------------------------
(* The unread counters of a chat of two, with messages counted inline, by   *)
(* the queue and by recounts, and with reads, deletions and abandoned work. *)
Unread == INSTANCE ChatUnreadProofs WITH
    Members <- {1, 2},
    Blocked <- {},
    SendKinds <- {"inline", "queued", "recount"},
    FanoutModes <- {"batch", "single"},
    PageSize <- 1,
    MaxTasks <- 2,
    MaxMessages <- 2,
    MaxReads <- 1,
    MaxDeletes <- 1,
    MaxAbandons <- 1,
    MaxClock <- 2,
    MaxInAll <- 4,
    clock <- v1, sends <- v2, messages <- v3, lastReadAt <- v4, unread <- v5,
    reads <- v6, rows <- v7, tasks <- v8, ever <- v9, counted <- v10,
    drift <- v11, readsBegun <- v12, abandons <- v13

(* See ChatUnread: no message of a member is lost between the messages, the *)
(* queue and his counter.                                                   *)
Accounted == focus = "unread" => Unread!Accounted

(* See ChatUnread: a counter is off only while, or because, something has   *)
(* disturbed it.                                                            *)
DriftExplained == focus = "unread" => Unread!DriftExplained

(* See ChatUnread: when nothing is under way, nobody has been skipped.      *)
NoneForgotten == focus = "unread" => Unread!NoneForgotten

-----------------------------------------------------------------------------
(* The members of a meetup: a host, two guests, two calls of every kind.    *)
EveryKind == {"join", "leave", "request", "cancel", "invite", "accept", "decline", "approve",
              "reject", "deleteChat", "adminApprove", "adminReject", "adminRemove",
              "restore", "checkIn", "finish", "edit", "adminEdit"}
EveryStart == {"outside", "joined", "asked", "invited", "admitted", "left", "refused",
               "declined"}

Member == INSTANCE MembershipProofs WITH
    Guests <- {m1, m2},
    Host <- "host",
    Calls <- TwoCalls,
    Kinds <- EveryKind,
    Starts <- EveryStart,
    Capacities <- {2, 3},
    MaxCalls <- 2,
    event <- v1, participants <- v2, members <- v3, attendance <- v4,
    request <- v5, hostKeys <- v6, guestKeys <- v7, call <- v8, begun <- v9,
    crossed <- v10, seatedByAdmin <- v11, verdicts <- v12, notices <- v13

(* See MeetupMembership: seats, chat members and attendance agree.          *)
SeatsAgree == focus = "member" => Member!SeatsAgree

(* See MeetupMembership: a request is decided once, and told once.          *)
DecidedOnce == focus = "member" => Member!DecidedOnce

(* See MeetupMembership: a seat given under the lock fits the capacity.     *)
CheckedSeatFits ==
    [][focus = "member" => Member!CheckedSeat]_<<focus, everything>>

-----------------------------------------------------------------------------
(* One host with two calls in flight, a weekly limit of two and one draft:  *)
(* three calls with or without a key beside a change or an administrator,   *)
(* every kind of body, and edits of a meetup that others join.              *)
Meetup(mode, visibility, access, needs, capacity, from) ==
    [mode |-> mode, visibility |-> visibility, access |-> access, join |-> "open", needs |-> needs,
     capacity |-> capacity, from |-> from, point |-> FALSE, invites |-> TRUE]
ForFriends == Meetup("default", "friends", "open", {"plus"}, 3, "form")
ForTwo == Meetup("dating", "public", "open", {}, 8, "affiche")
AfterDark == Meetup("afterdark", "public", "free", {"verification"}, 2, "place")
ForOne == Meetup("default", "public", "open", {}, 1, "route")
ForAll == Meetup("default", "public", "open", {}, 2, "route")
MadePrivate == Meetup("default", "friends", "open", {}, 2, "form")
MadeSmall == Meetup("default", "public", "request", {"verification"}, 1, "form")
CreationBound(calls, joins, admin, changes, bodies, edits) ==
    [calls |-> calls, joins |-> joins, admin |-> admin, changes |-> changes,
     bodies |-> bodies, edits |-> edits]
CreationBounds ==
    {CreationBound(3, 0, 0, 1, {ForAll}, {}), CreationBound(3, 0, 1, 0, {ForAll}, {}),
     CreationBound(2, 0, 0, 1, {ForFriends, ForTwo, AfterDark, ForOne}, {}),
     CreationBound(2, 2, 1, 0, {ForAll}, {MadePrivate, MadeSmall}),
     CreationBound(3, 2, 0, 0, {ForAll}, {MadePrivate}),
     CreationBound(2, 0, 0, 1, {ForTwo}, {MadePrivate, MadeSmall})}

Creation == INSTANCE MeetupCreation WITH
    Calls <- AnyCalls,
    Keys <- MeetupKeys,
    Limit <- WeeklyMeetups,
    Drafts <- DraftsMade,
    Bounds <- MeetupBounds,
    bound <- v1, events <- v2, seats <- v3, week <- v4, has <- v5, call <- v6,
    used <- v7, answers <- v8, squeezed <- v9

(* See MeetupCreation: one meetup for a key, within the limit, closed as    *)
(* agreed, with seats for all.                                              *)
CreationHolds == focus = "create" => Creation!CreationHolds

-----------------------------------------------------------------------------
(* What partners offer and what they may do.                                *)
OffersHold == CodesHold /\ PartnersHold

(* Meetups as they are made by hand or from a draft.                        *)
MeetupsHold == SavedAsAgreed /\ CreationHolds

-----------------------------------------------------------------------------
Init ==
    \/ focus = "sync" /\ Sync!Init
    \/ focus = "draft" /\ Draft!Init /\ v13 = off /\ v14 = off /\ v15 = off
       /\ v16 = off
    \/ focus = "group" /\ Group!Init /\ v12 = off /\ v13 = off /\ v14 = off
       /\ v15 = off /\ v16 = off
    \/ focus = "offer" /\ Offer!Init /\ v13 = off /\ v14 = off /\ v15 = off
       /\ v16 = off
    \/ focus = "partner" /\ Portal!Init /\ v12 = off /\ v13 = off /\ v14 = off
       /\ v15 = off /\ v16 = off
    \/ focus = "relay" /\ Relay!Init /\ v10 = off /\ v11 = off /\ v12 = off
       /\ v13 = off /\ v14 = off /\ v15 = off /\ v16 = off
    \/ focus = "unread" /\ Unread!Init /\ v14 = off /\ v15 = off /\ v16 = off
    \/ focus = "member" /\ Member!Init /\ v14 = off /\ v15 = off /\ v16 = off
    \/ focus = "create" /\ Creation!Init /\ v10 = off /\ v11 = off
       /\ v12 = off /\ v13 = off /\ v14 = off /\ v15 = off /\ v16 = off

Next ==
    /\ UNCHANGED focus
    /\ \/ focus = "sync" /\ Sync!Next
       \/ focus = "draft" /\ Draft!Next
          /\ UNCHANGED <<v13, v14, v15, v16>>
       \/ focus = "group" /\ Group!Next
          /\ UNCHANGED <<v12, v13, v14, v15, v16>>
       \/ focus = "offer" /\ Offer!Next
          /\ UNCHANGED <<v13, v14, v15, v16>>
       \/ focus = "partner" /\ Portal!Next
          /\ UNCHANGED <<v12, v13, v14, v15, v16>>
       \/ focus = "relay" /\ Relay!Next
          /\ UNCHANGED <<v10, v11, v12, v13, v14, v15, v16>>
       \/ focus = "unread" /\ Unread!Next
          /\ UNCHANGED <<v14, v15, v16>>
       \/ focus = "member" /\ Member!Next
          /\ UNCHANGED <<v14, v15, v16>>
       \/ focus = "create" /\ Creation!Next
          /\ UNCHANGED <<v10, v11, v12, v13, v14, v15, v16>>

Spec == Init /\ [][Next]_<<focus, everything>>
=============================================================================
