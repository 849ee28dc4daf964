------------------------------ MODULE MCPeople ------------------------------
(* Small instances for TLC of the services around a user's account and of   *)
(* what he is shown: tickets for drops, dating, photos, the verification,   *)
(* uploads, the ways to sign in, the answers that are cached for him, the   *)
(* affiche and his notifications. PeopleProofs and ShownProofs prove for    *)
(* all constants what these instances show. Each behaviour is one of one    *)
(* service, chosen at the start by focus; the services take turns at the    *)
(* same variables, v1 and on, and those a service has no use for are "off". *)
EXTENDS Integers, FiniteSets, TLC

CONSTANTS
    k1, k2,     \* calls
    m1, m2,     \* users, workers or assets that are alike
    AnyCalls,   \* calls that may overlap, of the services whose other constants follow
    Daters, Swipers, SwipeLimit, FreeSupers, FreeRewinds, SuperCost, RewindCost, Purse,
    MaxSwipeCalls, MaxBlocks,
    PhotoKeys, MaxPhotoCalls,
    Selfies, Documents, MaxReviewCalls, MaxNoticeExpiries,
    MediaKeys, MaxMediaAttempts, MediaBatch, MaxMediaCalls, MaxScans,
    MaxAuthCalls, MaxAuthTimers,
    LoginTelegrams, LoginPhones, MaxLoginAttempts, MaxLoginCodes, LoginBounds,
    SocialIdentities, GivenEmails, GivenPhones, MaxSocialCalls,
    DropRewards, EarlierRewards, TicketsFor, TaskFor, TaskLimitOf, TicketRank,
    MonthTickets, UserTickets, Prizes, ReservePlaces, MaxDropCalls, MaxDropCancels,
    CacheProcesses, MemoryLife, RedisLife, CopyLife, MaxAsks, MaxWrites, MaxCacheTicks,
    MaxCacheFaults,
    ListedItems, ListedVenues, ListingGrace, ListingBounds,
    NoticeMeetups, NoticeSubscriptions, NoticeWorkers, NoticeProcesses, NoticeBatch,
    AnnouncedBounds

ASSUME SwipersFit ==
    /\ Swipers \subseteq Daters
    /\ SwipeLimit \in Nat /\ FreeSupers \in Nat /\ FreeRewinds \in Nat
    /\ SuperCost \in Nat /\ RewindCost \in Nat /\ Purse \in Nat
ASSUME NoneIsNoAsset == "none" \notin Selfies \union Documents
ASSUME GuessesFit == IsFiniteSet(AnyCalls) /\ MaxLoginAttempts \in Nat \ {0}

ASSUME DropsFit ==
    /\ TicketsFor \in [DropRewards -> SUBSET Nat]
    /\ IsFiniteSet(UNION {TicketsFor[r] : r \in DropRewards})
    /\ \A r, q \in DropRewards : r # q => TicketsFor[r] \intersect TicketsFor[q] = {}
    /\ EarlierRewards \subseteq DropRewards
    /\ MonthTickets \in Nat /\ UserTickets \in Nat /\ Prizes \in Nat /\ ReservePlaces \in Nat
    /\ MaxDropCalls \in Nat /\ MaxDropCancels \in Nat
    /\ \A r \in DropRewards : TaskLimitOf[TaskFor[r]] \in Nat
    /\ Cardinality(UNION {TicketsFor[r] : r \in EarlierRewards}) <= MonthTickets
    /\ \A r \in DropRewards :
          Cardinality(UNION {TicketsFor[q] :
                          q \in {p \in EarlierRewards : TaskFor[p] = TaskFor[r]}})
              <= TaskLimitOf[TaskFor[r]]

ASSUME CachesFit ==
    /\ "no call" \notin AnyCalls
    /\ MemoryLife \in Nat \ {0} /\ RedisLife \in Nat /\ CopyLife \in Nat
    /\ MaxWrites \in Nat

ASSUME ListingsFit ==
    /\ ListingGrace \in Nat
    /\ ListedItems["ticketland"] \union ListedItems["kudago"]
          \subseteq [price : {"free", "paid", "unknown"}, link : BOOLEAN, at : BOOLEAN,
                     venue : ListedVenues \union {"none"}]
ASSUME OccasionsFit ==
    /\ IsFiniteSet(NoticeMeetups) /\ IsFiniteSet(NoticeSubscriptions)
    /\ NoticeBatch \in Nat

VARIABLES
    focus,
    v1, v2, v3, v4, v5, v6, v7, v8, v9, v10, v11, v12, v13, v14, v15

everything == <<v1, v2, v3, v4, v5, v6, v7, v8, v9, v10, v11, v12, v13, v14, v15>>
off == "off"
TwoCalls == {k1, k2}
Symmetry == {p @@ q : p \in Permutations(TwoCalls), q \in Permutations({m1, m2})}

-----------------------------------------------------------------------------
(* Drops: five tickets to earn over a limit of four, one drop with two      *)
(* places and a reserve, two calls.                                         *)
RewardTickets == [a |-> {1, 2, 3}, b |-> {4}, c |-> {5}]
RewardTasks == [a |-> "other", b |-> "one", c |-> "other"]
TaskLimits == [one |-> 1, other |-> 5]
DrawRank == <<2, 1, 3, 4, 5>>

Drop == INSTANCE Drops WITH
    Rewards <- DropRewards,
    Earlier <- EarlierRewards,
    TicketsOf <- TicketsFor,
    TaskOf <- TaskFor,
    TaskLimit <- TaskLimitOf,
    Rank <- TicketRank,
    Calls <- AnyCalls,
    MonthlyLimit <- MonthTickets,
    PerUser <- UserTickets,
    Winners <- Prizes,
    Reserves <- ReservePlaces,
    MaxCalls <- MaxDropCalls,
    MaxCancels <- MaxDropCancels,
    granted <- v1, ticket <- v2, drop <- v3, snapshot <- v4, winner <- v5,
    draws <- v6, call <- v7, left <- v8, twins <- v9, crowded <- v10,
    late <- v11, revived <- v12, choices <- v13, overtaken <- v14

(* See Drops: tickets stay within the month's and the drop's limits, and    *)
(* what a draw leaves behind fits together.                                 *)
DropsHold == focus = "drop" => Drop!DropsHold

-----------------------------------------------------------------------------
(* Dating: two users who swipe each other, two calls.                       *)
Swipe == INSTANCE Dating WITH
    Users <- Daters,
    Actors <- Swipers,
    Calls <- AnyCalls,
    SwipeLimit <- SwipeLimit,
    FreeSupers <- FreeSupers,
    FreeRewinds <- FreeRewinds,
    SuperCost <- SuperCost,
    RewindCost <- RewindCost,
    Purse <- Purse,
    MaxCalls <- MaxSwipeCalls,
    MaxBlocks <- MaxBlocks,
    row <- v1, recent <- v2, used <- v3, balance <- v4, told <- v5,
    chat <- v6, blocked <- v7, call <- v8, left <- v9, toBlock <- v10,
    cut <- v11, stale <- v12, hurried <- v13, met <- v14

(* See Dating: quotas hold and two who like each other meet.                *)
SwipesMeet == focus = "swipe" => Swipe!SwipesMeet

-----------------------------------------------------------------------------
(* The photos of a profile: three keys, two calls.                          *)
Photo == INSTANCE ProfilePhotos WITH
    Keys <- PhotoKeys,
    Calls <- AnyCalls,
    MaxCalls <- MaxPhotoCalls,
    asset <- v1, photo <- v2, avatar <- v3, call <- v4, left <- v5,
    apart <- v6, doubt <- v7, disorder <- v8

(* See ProfilePhotos: the avatar is the first photo, the photos have an     *)
(* order.                                                                   *)
PhotosInOrder == focus = "photo" => Photo!PhotosInOrder

-----------------------------------------------------------------------------
(* The verification of a user: two selfies, one document, two calls.        *)
Review == INSTANCE Verification WITH
    Selfies <- Selfies,
    Documents <- Documents,
    Calls <- AnyCalls,
    MaxCalls <- MaxReviewCalls,
    MaxExpiries <- MaxNoticeExpiries,
    stored <- v1, row <- v2, verified <- v3, notice <- v4, trials <- v5,
    call <- v6, left <- v7, expired <- v8, overtaken <- v9, uploaded <- v10

(* See Verification: one trial, and the user is verified when the review    *)
(* says so.                                                                 *)
ReviewHolds == focus = "review" => Review!ReviewHolds

-----------------------------------------------------------------------------
(* The sessions of a phone number: two calls at a time.                     *)
Auth == INSTANCE AuthSessions WITH
    Calls <- AnyCalls,
    MaxCalls <- MaxAuthCalls,
    MaxTimers <- MaxAuthTimers,
    challenge <- v1, sent <- v2, session <- v3, minted <- v4, held <- v5,
    cached <- v6, call <- v7, left <- v8, timers <- v9, used <- v10,
    crossed <- v11, lost <- v12, honoured <- v13, closed <- v14, raced <- v15

(* See AuthSessions: codes, tokens and cached sessions are used once and in *)
(* time.                                                                    *)
SessionsHold == focus = "auth" => Auth!SessionsHold

-----------------------------------------------------------------------------
(* Uploaded images and their variants: three keys.                          *)
Media == INSTANCE Uploads WITH
    Keys <- MediaKeys,
    Calls <- AnyCalls,
    MaxAttempts <- MaxMediaAttempts,
    Batch <- MediaBatch,
    MaxCalls <- MaxMediaCalls,
    MaxScans <- MaxScans,
    asset <- v1, whole <- v2, pending <- v3, call <- v4, scan <- v5,
    left <- v6, scans <- v7, deleted <- v8, missed <- v9

(* See Uploads: an image without variants is on its way or known as missed. *)
ImagesAccounted == focus = "media" => Media!ImagesAccounted

-----------------------------------------------------------------------------
(* Sign-in by Telegram: two Telegram accounts, two numbers, two calls at a  *)
(* time.                                                                    *)
OneOrTwoLogins ==
    {[calls |-> 8, rows |-> 1, timers |-> 1], [calls |-> 6, rows |-> 2, timers |-> 1]}

Telegram == INSTANCE TelegramLogin WITH
    Calls <- AnyCalls,
    Telegrams <- LoginTelegrams,
    Phones <- LoginPhones,
    MaxAttempts <- MaxLoginAttempts,
    MaxCodes <- MaxLoginCodes,
    Bounds <- LoginBounds,
    row <- v1, codes <- v2, users <- v3, account <- v4, call <- v5,
    left <- v6, ins <- v7

(* See TelegramLogin: a session lets its user in, once.                     *)
LoginsHold == focus = "telegram" => Telegram!LoginsHold

-----------------------------------------------------------------------------
(* Sign-in by other services: three identities that share an email, two     *)
(* calls at a time.                                                         *)
Identity(provider, email, phone) == [provider |-> provider, email |-> email, phone |-> phone]
ThreeIdentities == {Identity("google", "e", "none"), Identity("yandex", "e", "p"),
                    Identity("apple", "none", "none")}

Social == INSTANCE SocialLogin WITH
    Calls <- AnyCalls,
    Identities <- SocialIdentities,
    Emails <- GivenEmails,
    Phones <- GivenPhones,
    MaxCalls <- MaxSocialCalls,
    user <- v1, account <- v2, session <- v3, call <- v4, left <- v5,
    made <- v6, ins <- v7, replaced <- v8, asked <- v9

(* See SocialLogin: an identity has one user, and a user keeps the          *)
(* contacts.                                                                *)
ContactsHold == focus = "social" => Social!ContactsHold

-----------------------------------------------------------------------------
(* System notifications: two meetups and a subscription, two workers that   *)
(* scan, two processes that cache; nothing announced so far, or two         *)
(* meetups, or one.                                                         *)
NoticeBound(turns, scans, marks, loads, faults, told) ==
    [turns |-> turns, scans |-> scans, marks |-> marks, loads |-> loads, faults |-> faults,
     told |-> told]
NoticeBounds ==
    {NoticeBound(4, 3, 0, 0, 1, {}), NoticeBound(0, 0, 2, 3, 1, {"e", "f"}),
     NoticeBound(1, 1, 1, 2, 0, {"e"})}

Notice == INSTANCE Notices WITH
    Meetups <- NoticeMeetups,
    Subscriptions <- NoticeSubscriptions,
    Workers <- NoticeWorkers,
    Processes <- NoticeProcesses,
    Calls <- AnyCalls,
    Batch <- NoticeBatch,
    Bounds <- AnnouncedBounds,
    phase <- v1, joined <- v2, notice <- v3, queued <- v4, scan <- v5,
    count <- v6, counting <- v7, list <- v8, listing <- v9, joinable <- v10,
    call <- v11, bound <- v12, cut <- v13, uncleared <- v14, created <- v15

(* See Notices: occasions are announced once, what is shown follows what    *)
(* was marked.                                                              *)
NoticesHold == focus = "notice" => Notice!NoticesHold

-----------------------------------------------------------------------------
(* Cached answers: two processes, three requests of which one writes, Redis *)
(* failing once.                                                            *)
Cache == INSTANCE Caches WITH
    Processes <- CacheProcesses,
    Calls <- AnyCalls,
    MaxCalls <- MaxAsks,
    MaxTicks <- MaxCacheTicks,
    MaxFaults <- MaxCacheFaults,
    answer <- v1, sweep <- v2, written <- v3, memory <- v4, redis <- v5,
    stamp <- v6, copies <- v7, pending <- v8, calls <- v9, due <- v10,
    clock <- v11, begun <- v12, faults <- v13

(* See Caches: own writes are seen, and copies fade.                        *)
CachesHold == focus = "cache" => Cache!CachesHold

-----------------------------------------------------------------------------
(* One event in two sources, Ticketland with a venue or without and KudaGo  *)
(* with coordinates or without: four imports with a change, three with an   *)
(* act of an administrator, or two with calls of the phone, the geocoder    *)
(* and for a meetup.                                                        *)
Listing(price, link, at, venue) ==
    [price |-> price, link |-> link, at |-> at, venue |-> venue]
AfficheItems ==
    [ticketland |-> {Listing("paid", TRUE, FALSE, "hall"), Listing("paid", TRUE, FALSE, "none")},
     kudago |-> {Listing("free", FALSE, FALSE, "none"), Listing("free", FALSE, TRUE, "club")}]
AfficheBound(imports, changes, admin, faults, ticks, calls) ==
    [runs |-> imports, changes |-> changes, admin |-> admin, faults |-> faults,
     ticks |-> ticks, calls |-> calls]
AfficheBounds == {AfficheBound(3, 1, 0, 0, 1, 0), AfficheBound(4, 1, 0, 0, 0, 0),
                  AfficheBound(3, 0, 1, 0, 0, 0), AfficheBound(2, 0, 0, 1, 0, 2),
                  AfficheBound(2, 0, 1, 0, 0, 1)}

Affiche == INSTANCE Affiche WITH
    Items <- ListedItems,
    Venues <- ListedVenues,
    Bounds <- ListingBounds,
    Grace <- ListingGrace,
    bound <- v1, row <- v2, feed <- v3, run <- v4, geo <- v5, fill <- v6,
    making <- v7, meetup <- v8, clock <- v9, used <- v10, agreed <- v11,
    forced <- v12, swept <- v13, judged <- v14, placed <- v15

(* See Affiche: one listing, shown as decided, gone when it is gone.        *)
AfficheHolds == focus = "affiche" => Affiche!AfficheHolds

-----------------------------------------------------------------------------
(* Sessions, sign-ins and identities, whatever way a user signs in.         *)
SignInHolds == SessionsHold /\ LoginsHold /\ ContactsHold

(* What users are shown of events and told of what is near.                 *)
NewsHolds == NoticesHold /\ AfficheHolds

-----------------------------------------------------------------------------
Init ==
    \/ focus = "drop" /\ Drop!Init /\ v15 = off
    \/ focus = "swipe" /\ Swipe!Init /\ v15 = off
    \/ focus = "photo" /\ Photo!Init /\ v9 = off /\ v10 = off /\ v11 = off
       /\ v12 = off /\ v13 = off /\ v14 = off /\ v15 = off
    \/ focus = "review" /\ Review!Init /\ v11 = off /\ v12 = off /\ v13 = off
       /\ v14 = off /\ v15 = off
    \/ focus = "auth" /\ Auth!Init
    \/ focus = "media" /\ Media!Init /\ v10 = off /\ v11 = off /\ v12 = off
       /\ v13 = off /\ v14 = off /\ v15 = off
    \/ focus = "telegram" /\ Telegram!Init /\ v8 = off /\ v9 = off
       /\ v10 = off /\ v11 = off /\ v12 = off /\ v13 = off /\ v14 = off
       /\ v15 = off
    \/ focus = "social" /\ Social!Init /\ v10 = off /\ v11 = off /\ v12 = off
       /\ v13 = off /\ v14 = off /\ v15 = off
    \/ focus = "notice" /\ Notice!Init
    \/ focus = "cache" /\ Cache!Init /\ v14 = off /\ v15 = off
    \/ focus = "affiche" /\ Affiche!Init

Next ==
    /\ UNCHANGED focus
    /\ \/ focus = "drop" /\ Drop!Next
          /\ UNCHANGED <<v15>>
       \/ focus = "swipe" /\ Swipe!Next
          /\ UNCHANGED <<v15>>
       \/ focus = "photo" /\ Photo!Next
          /\ UNCHANGED <<v9, v10, v11, v12, v13, v14, v15>>
       \/ focus = "review" /\ Review!Next
          /\ UNCHANGED <<v11, v12, v13, v14, v15>>
       \/ focus = "auth" /\ Auth!Next
       \/ focus = "media" /\ Media!Next
          /\ UNCHANGED <<v10, v11, v12, v13, v14, v15>>
       \/ focus = "telegram" /\ Telegram!Next
          /\ UNCHANGED <<v8, v9, v10, v11, v12, v13, v14, v15>>
       \/ focus = "social" /\ Social!Next
          /\ UNCHANGED <<v10, v11, v12, v13, v14, v15>>
       \/ focus = "notice" /\ Notice!Next
       \/ focus = "cache" /\ Cache!Next
          /\ UNCHANGED <<v14, v15>>
       \/ focus = "affiche" /\ Affiche!Next

Spec == Init /\ [][Next]_<<focus, everything>>
=============================================================================
