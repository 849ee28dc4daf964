------------------------------- MODULE Caches -------------------------------
(***************************************************************************)
(* The answers the API keeps for a few seconds: in the memory of each      *)
(* process, in Redis, or both, with the loads under way shared between     *)
(* the requests of a process.  Every service has its own copy of the       *)
(* protocol and every handler that writes names the copies it clears.      *)
(* A behaviour follows one answer and one way it is written.  What the     *)
(* answer says is the number of the last write it has seen.                *)
(***************************************************************************)
EXTENDS Integers, Sequences, FiniteSets

CONSTANTS
    Processes,      \* processes of the API
    Calls,          \* requests in flight at a time
    MemoryLife, RedisLife, CopyLife,    \* ticks a copy lives
    MaxCalls,       \* bound: requests begun
    MaxWrites,      \* bound: writes
    MaxTicks,       \* bound: ticks of the clock
    MaxFaults       \* bound: requests Redis does not answer

VARIABLES
    answer,     \* how the answer is kept
    sweep,      \* what the writer clears of it, and when
    written,    \* per write made, the tick it was committed at
    memory,     \* per process and key, the copy in memory
    redis,      \* per key, the copy in Redis
    stamp,      \* the version in Redis that is part of the key
    copies,     \* per process, its copy of that version
    pending,    \* per process and key, the load requests join
    calls,      \* the requests
    due,        \* per process, the write a request must have seen
    clock, begun, faults

vars == <<answer, sweep, written, memory, redis, stamp, copies, pending, calls,
          due, clock, begun, faults>>

-----------------------------------------------------------------------------
(***************************************************************************)
(* How an answer is kept.  version: its key holds a version that is read   *)
(* from Redis for each request, or from a copy of it in memory.            *)
(* memoryFirst: a load fills memory before Redis.  joined: requests join a *)
(* load under way.                                                         *)
(***************************************************************************)
Kept(inMemory, inRedis, version, memoryFirst, joined) ==
    [memory |-> inMemory, redis |-> inRedis, version |-> version,
     memoryFirst |-> memoryFirst, joined |-> joined]
InMemory == Kept(TRUE, FALSE, "none", TRUE, TRUE)
InRedis == Kept(FALSE, TRUE, "none", TRUE, TRUE)
InBoth == Kept(TRUE, TRUE, "none", TRUE, TRUE)
Versioned == Kept(FALSE, TRUE, "redis", TRUE, TRUE)
Named(name, kept) == [name |-> name, kept |-> kept]

\* The user and what is the user's own.
Profile == Named("profile", InBoth)
Season == Named("season", InMemory)
SeasonHistory == Named("season history", InMemory)
SeasonPeople == Named("season people", InMemory)
Onboarding == Named("onboarding", InRedis)
VerificationState == Named("verification", InRedis)
Settings == Named("settings", InRedis)
Wallet == Named("wallet", InRedis)
Catalog == Named("subscription catalog", InMemory)
Subscription == Named("subscription", InMemory)
AfterDarkAccess == Named("after dark access", InMemory)
DropsHome == Named("drops home", InRedis)
DropsDetail == Named("drop", InRedis)
DropsTasks == Named("drops tasks", InRedis)
DropsHistory == Named("drops history", InMemory)
\* Other people.
People == Named("people", InRedis)
Following == Named("following", InBoth)
PersonProfile == Named("person profile", InRedis)
ProfileSocial == Named("profile social", InRedis)
SafetyState == Named("safety", InRedis)
TrustedContacts == Named("trusted contacts", InMemory)
Reports == Named("reports", InMemory)
Blocks == Named("blocks", InMemory)
Matches == Named("matches", InRedis)
DatingDiscover == Named("dating discover", Kept(TRUE, TRUE, "copied", FALSE, TRUE))
DatingLikes == Named("dating likes", Versioned)
DatingLimits == Named("dating limits", InRedis)
\* Chats.  The lists a clear names are the first pages of twenty.
ChatList == Named("chat list", InBoth)
ChatListOther == Named("another page of the chat list", InBoth)
ChatMessages == Named("chat messages", InBoth)
NotificationList == Named("notifications", InMemory)
UnreadCount == Named("unread count", InRedis)
\* Meetups, evenings and what is on.
EventsFeed == Named("events feed", Versioned)
EventsBasePage == Named("base page of the feed", Kept(FALSE, TRUE, "redis", TRUE, FALSE))
EventDetail == Named("event", InBoth)
ActiveMeetups == Named("active meetups", InMemory)
HostDashboard == Named("host dashboard", InRedis)
EveningRoute == Named("evening route", InBoth)
EveningSessions == Named("evening sessions", InMemory)
RouteTemplates == Named("route templates", InRedis)
AfficheEvents == Named("affiche", InRedis)
AfficheEvent == Named("affiche event", InBoth)
GroupedSearch == Named("search", InRedis)
PlaceSearch == Named("places", InRedis)
PlacePromos == Named("promos", InRedis)
AppOverlay == Named("app overlay", InRedis)
PaymentsCatalog == Named("payments catalog", InRedis)
MediaAsset == Named("media asset", Kept(TRUE, FALSE, "none", TRUE, FALSE))

Answers ==
    {Profile, Season, SeasonHistory, SeasonPeople, Onboarding, VerificationState,
     Settings, Wallet, Catalog, Subscription, AfterDarkAccess, DropsHome, DropsDetail,
     DropsTasks, DropsHistory, People, Following, PersonProfile, ProfileSocial,
     SafetyState, TrustedContacts, Reports, Blocks, Matches, DatingDiscover,
     DatingLikes, DatingLimits, ChatList, ChatListOther, ChatMessages,
     NotificationList, UnreadCount, EventsFeed, EventsBasePage, EventDetail,
     ActiveMeetups, HostDashboard, EveningRoute, EveningSessions, RouteTemplates,
     AfficheEvents, AfficheEvent, GroupedSearch, PlaceSearch, PlacePromos, AppOverlay,
     PaymentsCatalog, MediaAsset}

-----------------------------------------------------------------------------
(* What clears which copies.  "pending" drops the load others would join.  *)
Of(answers, parts) == {[name |-> a.name, part |-> part] : a \in answers, part \in parts}

ClearProfileCache == Of({Profile}, {"memory", "redis"})
ClearVerificationCache == Of({VerificationState}, {"redis"})
ClearSettingsCache == Of({Settings}, {"pending", "redis"})
ClearWalletCache == Of({Wallet}, {"pending", "redis"})
ClearCatalogCache == Of({Catalog}, {"pending", "memory"})
ClearCurrentCache == Of({Subscription}, {"pending", "memory"})
ClearAccessCache == Of({AfterDarkAccess}, {"pending", "memory"})
ClearHistoryCache == Of({DropsHistory}, {"pending", "memory"})
ClearUserDropsCache == ClearHistoryCache \cup Of({DropsHome, DropsTasks}, {"redis"})
ClearPersonProfileCache == Of({PersonProfile, ProfileSocial}, {"redis"})
ClearSafetyCache == Of({SafetyState}, {"redis"})
ClearListCaches == Of({TrustedContacts, Reports, Blocks}, {"pending", "memory"})
ClearBlockedProfileCache == Of({PersonProfile, ProfileSocial}, {"redis"})
\* An error to test with: the copy of the version in memory stays.
IncrementDatingDiscoverVersionOnly == Of({DatingDiscover}, {"redis"})
IncrementDatingDiscoverVersion == Of({DatingDiscover}, {"redis", "copy"})
IncrementDatingLikesVersion == Of({DatingLikes}, {"redis"})
ClearDatingLimitsCache == Of({DatingLimits}, {"pending", "redis"})
ClearChatListCache ==
    Of({ChatList, ChatListOther}, {"pending", "memory"}) \cup Of({ChatList}, {"redis"})
ClearListCache == Of({NotificationList}, {"pending", "memory"})
ClearUnreadCountCache == Of({UnreadCount}, {"redis"})
IncrementEventsFeedCityVersion == Of({EventsFeed, EventsBasePage}, {"redis"})
ClearEventDetailCache == Of({EventDetail}, {"pending", "memory", "redis"})
ClearHostDashboardCache == Of({HostDashboard}, {"pending", "redis"})
ClearEveningRouteCache == Of({EveningRoute}, {"pending", "memory", "redis"})
ClearSessionListCache == Of({EveningSessions}, {"pending", "memory"})
ClearAfficheDetailCache == Of({AfficheEvent}, {"pending", "memory", "redis"})

(* A writer clears after its write is committed, or inside its transaction. *)
After(clears) == [clears |-> clears, early |-> FALSE]
Inside(clears) == [clears |-> clears, early |-> TRUE]

Elsewhere == After({})      \* a write that clears no copy
UpdateProfile == After(ClearProfileCache)
CompleteAvatarUpload == After(ClearProfileCache)
UploadAvatarFile == After(ClearProfileCache)
UploadProfilePhotoFile == After(ClearProfileCache)
CompleteProfilePhotoUpload == After(ClearProfileCache)
DeleteProfilePhoto == After(ClearProfileCache)
MakePrimaryPhoto == After(ClearProfileCache)
ReorderProfilePhotos == After(ClearProfileCache)
UpdateOnboarding == After(Of({Onboarding}, {"redis"}) \cup ClearProfileCache)
SubmitVerification == After(ClearVerificationCache)
UpdateSettings == After(ClearSettingsCache)
UpdateTestingAccess ==
    After(ClearSettingsCache \cup ClearCurrentCache \cup ClearAccessCache)
CreditPurchasedTokens == Inside(ClearWalletCache)
SpendTokens == Inside(ClearWalletCache)
CreatePromotion == After(ClearWalletCache)
UpdateAdminCatalog == After(ClearCatalogCache)
Subscribe == After(ClearCurrentCache)
SubscribeWithTokens == After(ClearCurrentCache)
ActivatePaidSubscription == Inside(ClearCurrentCache)
ClaimVerification == After(ClearUserDropsCache)
ClaimDailyLogin == After(ClearUserDropsCache)
ApplyTickets == After(ClearUserDropsCache \cup Of({DropsDetail}, {"redis"}))
BindReferralCode == After(ClearUserDropsCache)
SetFollow == After(Of({Following}, {"pending", "memory"}) \cup ClearPersonProfileCache)
SetFollowNotifications == After(ClearPersonProfileCache)
SetProfileReaction == After(ClearPersonProfileCache)
UpdateSafety == After(ClearSafetyCache)
CreateTrustedContact == After(ClearSafetyCache \cup ClearListCaches)
DeleteTrustedContact == After(ClearSafetyCache \cup ClearListCaches)
CreateReport == After(ClearSafetyCache \cup ClearBlockedProfileCache \cup ClearListCaches)
CreateBlock == After(ClearSafetyCache \cup ClearBlockedProfileCache \cup ClearListCaches)
DeleteBlock == After(ClearSafetyCache \cup ClearBlockedProfileCache \cup ClearListCaches)
RecordAction ==
    After(IncrementDatingDiscoverVersion \cup IncrementDatingLikesVersion
          \cup ClearDatingLimitsCache)
RewindLastPass == After(IncrementDatingDiscoverVersion \cup ClearDatingLimitsCache)
SetPinned == After(ClearChatListCache)
MarkChatRead == After(ClearChatListCache)
MarkNotificationRead == After(ClearUnreadCountCache \cup ClearListCache)
MarkAllNotificationsRead == After(ClearUnreadCountCache \cup ClearListCache)
JoinEvent == After(IncrementEventsFeedCityVersion \cup ClearEventDetailCache)
CreateJoinRequest == After(ClearEventDetailCache)
CancelJoinRequest == After(ClearEventDetailCache)
LeaveEvent == After(IncrementEventsFeedCityVersion \cup ClearEventDetailCache)
CreateEvent == After(IncrementEventsFeedCityVersion \cup ClearEventDetailCache)
AcceptInvite == After(IncrementEventsFeedCityVersion \cup ClearEventDetailCache)
UpdateHostedEvent == After(ClearHostDashboardCache)
ApproveRequest == After(ClearHostDashboardCache)
RejectRequest == After(ClearHostDashboardCache)
ManualCheckIn == After(ClearHostDashboardCache)
StartLive == After(ClearHostDashboardCache)
FinishLive == After(ClearHostDashboardCache)
MarkPerkUsed == After(ClearEveningRouteCache)
MarkTicketBought == After(ClearEveningRouteCache)
ShareStepToChat == After(ClearEveningRouteCache)
LaunchRoute == After(ClearSessionListCache)
FinishRoute == After(ClearEveningRouteCache)
SaveClientGeo == After(ClearAfficheDetailCache)

Writers ==
    {Elsewhere, UpdateProfile, CompleteAvatarUpload, UploadAvatarFile,
     UploadProfilePhotoFile, CompleteProfilePhotoUpload, DeleteProfilePhoto,
     MakePrimaryPhoto, ReorderProfilePhotos, UpdateOnboarding, SubmitVerification,
     UpdateSettings, UpdateTestingAccess, CreditPurchasedTokens, SpendTokens,
     CreatePromotion, UpdateAdminCatalog, Subscribe, SubscribeWithTokens,
     ActivatePaidSubscription, ClaimVerification, ClaimDailyLogin, ApplyTickets,
     BindReferralCode, SetFollow, SetFollowNotifications, SetProfileReaction,
     UpdateSafety, CreateTrustedContact, DeleteTrustedContact, CreateReport,
     CreateBlock, DeleteBlock, RecordAction, RewindLastPass, SetPinned, MarkChatRead,
     MarkNotificationRead, MarkAllNotificationsRead, JoinEvent, CreateJoinRequest,
     CancelJoinRequest, LeaveEvent, CreateEvent, AcceptInvite, UpdateHostedEvent,
     ApproveRequest, RejectRequest, ManualCheckIn, StartLive, FinishLive, MarkPerkUsed,
     MarkTicketBought, ShareStepToChat, LaunchRoute, FinishRoute, SaveClientGeo}

Parts(w, a) == {c.part : c \in {d \in w.clears : d.name = a.name}}

(* The copies in Redis that a writer of the rest leaves alone: the list of *)
(* those a user follows, and the pages of the chat list with a cursor or   *)
(* another limit.                                                          *)
LeftInRedis == {Following, ChatListOther}

(* A pair to follow, reduced to what the protocol sees of it.              *)
Owes(a, w) ==
    IF a \in LeftInRedis THEN FALSE
    ELSE Parts(w, a) \cap {"memory", "redis", "copy"} # {}
Pair(a, w) ==
    [kept |-> a.kept,
     sweep |-> [parts |-> Parts(w, a), early |-> w.early, owes |-> Owes(a, w)]]
Pairs ==
    {Pair(a, w) : a \in Answers, w \in {v \in Writers : v = Elsewhere}}
    \cup {Pair(p[1], p[2]) :
            p \in {q \in Answers \X Writers : Parts(q[2], q[1]) # {}}}

-----------------------------------------------------------------------------
Keys == 0 .. MaxWrites          \* the versions a key can hold
Nothing == [value |-> -1, until |-> 0]
\* An error to test with: a copy that never ends.
CopyKept(value, life) == [value |-> value, until |-> MaxTicks + 1]
Copy(value, life) == [value |-> value, until |-> clock + life]
Lives(copy) == copy.until > clock
NoCall == "no call"
NoProcess == "no process"
db == Len(written)

(* A request: its phase, process and key, the value it holds, the load it  *)
(* waits for, the write it must see and since when it runs; of a writer    *)
(* whether no reading crossed it and whether Redis failed it; of the last  *)
(* answer whether it missed a write it must see, or showed what was        *)
(* overwritten longer ago than the copies live and a request lasts.        *)
Idle == [phase |-> "idle", p |-> NoProcess, key |-> 0,
         value |-> 0, on |-> NoCall, owed |-> 0, since |-> 0, alone |-> TRUE,
         failed |-> FALSE, missed |-> FALSE, expired |-> FALSE]
Busy(c) == calls[c].phase # "idle"
Writing(c) == calls[c].phase \in {"clear", "purge", "drop", "end"}
Reading(c) == Busy(c) /\ ~Writing(c)
Step(c, phase) == [calls EXCEPT ![c].phase = phase]
With(c, phase, value) == [calls EXCEPT ![c].phase = phase, ![c].value = value]
Age(value) == IF value = db THEN 0 ELSE clock - written[value + 1]
Lifetime ==
    (IF answer.memory THEN MemoryLife ELSE 1) + (IF answer.redis THEN RedisLife ELSE 0)
Answered(call, value) ==
    [Idle EXCEPT !.missed = value < call.owed, !.expired = Age(value) > Lifetime]

Init ==
    /\ \E pair \in Pairs : answer = pair.kept /\ sweep = pair.sweep
    /\ written = <<>>
    /\ memory = [p \in Processes |-> [k \in Keys |-> Nothing]]
    /\ redis = [k \in Keys |-> Nothing]
    /\ stamp = 0
    /\ copies = [p \in Processes |-> Nothing]
    /\ pending = [p \in Processes |-> [k \in Keys |-> NoCall]]
    /\ calls = [c \in Calls |-> Idle]
    /\ due = [p \in Processes |-> 0]
    /\ clock = 0 /\ begun = 0 /\ faults = 0

Fixed == <<answer, sweep>>
Copies == <<memory, redis, stamp, copies, pending>>
Time == <<clock, begun>>

-----------------------------------------------------------------------------
(* A request for the answer.                                               *)

\* Memory is looked at, in the same step as the key becomes known.
Look(call, key) ==
    LET copy == memory[call.p][key]
        at == [call EXCEPT !.key = key]
    IN  IF answer.memory /\ Lives(copy) THEN Answered(at, copy.value)
        ELSE [at EXCEPT !.phase = IF answer.redis THEN "ask" ELSE "join"]

Ask(c, p) ==
    /\ ~Busy(c) /\ begun < MaxCalls
    /\ LET call == [Idle EXCEPT !.p = p, !.owed = due[p], !.since = clock]
       IN  calls' = [d \in Calls |->
                IF d # c THEN IF Writing(d) THEN [calls[d] EXCEPT !.alone = FALSE]
                              ELSE calls[d]
                ELSE IF answer.version = "none" THEN Look(call, 0)
                ELSE IF answer.version = "copied" /\ Lives(copies[p])
                     THEN Look(call, copies[p].value)
                     ELSE [call EXCEPT !.phase = "version"]]
    /\ begun' = begun + 1
    /\ UNCHANGED <<Fixed, Copies, written, due, clock, faults>>

\* Redis answers, or fails: then the version is taken for 0, and a copy of
\* it is owed nothing.
HearVersion(c) ==
    /\ calls[c].phase = "version"
    /\ \/ calls' = With(c, "versioned", stamp) /\ UNCHANGED <<due, faults>>
       \/ /\ faults < MaxFaults /\ faults' = faults + 1
          /\ calls' = [With(c, "versioned", 0) EXCEPT ![c].owed = 0]
          /\ due' = IF answer.version = "copied" THEN [due EXCEPT ![calls[c].p] = 0]
                    ELSE due
    /\ UNCHANGED <<Fixed, Copies, written, Time>>

TakeVersion(c) ==
    /\ calls[c].phase = "versioned"
    /\ copies' = IF answer.version = "copied"
                 THEN [copies EXCEPT ![calls[c].p] = Copy(calls[c].value, CopyLife)]
                 ELSE copies
    /\ calls' = [calls EXCEPT ![c] = Look(calls[c], calls[c].value)]
    /\ UNCHANGED <<Fixed, memory, redis, stamp, pending, written, due, Time, faults>>

HearRedis(c) ==
    /\ calls[c].phase = "ask"
    /\ LET copy == redis[calls[c].key]
       IN  \/ /\ calls' = IF Lives(copy) THEN With(c, "heard", copy.value)
                          ELSE Step(c, "join")
              /\ UNCHANGED faults
           \/ /\ faults < MaxFaults /\ faults' = faults + 1
              /\ calls' = Step(c, "join")
    /\ UNCHANGED <<Fixed, Copies, written, due, Time>>

\* A copy of Redis fills the memory.
Refill(c) ==
    /\ calls[c].phase = "heard"
    /\ LET call == calls[c]
       IN  /\ memory' = IF answer.memory
                        THEN [memory EXCEPT ![call.p][call.key] =
                                Copy(call.value, MemoryLife)]
                        ELSE memory
           /\ calls' = [calls EXCEPT ![c] = Answered(call, call.value)]
    /\ UNCHANGED <<Fixed, redis, stamp, copies, pending, written, due, Time, faults>>

\* A load under way is joined, or one is started.
Join(c) ==
    /\ calls[c].phase = "join"
    /\ LET call == calls[c]
       IN  IF answer.joined /\ pending[call.p][call.key] # NoCall
           THEN /\ calls' = [calls EXCEPT ![c].phase = "wait",
                                         ![c].on = pending[call.p][call.key]]
                /\ UNCHANGED pending
           ELSE /\ calls' = Step(c, "load")
                /\ pending' = IF answer.joined
                              THEN [pending EXCEPT ![call.p][call.key] = c] ELSE pending
    /\ UNCHANGED <<Fixed, memory, redis, stamp, copies, written, due, Time, faults>>

ReadDatabase(c) ==
    /\ calls[c].phase = "load"
    /\ calls' = With(c, "loaded", db)
    /\ UNCHANGED <<Fixed, Copies, written, due, Time, faults>>

Filled(call) == [memory EXCEPT ![call.p][call.key] = Copy(call.value, MemoryLife)]

\* The load is over: its entry goes, whoever's it is by now, and those who
\* joined it are answered too.
Done(c) ==
    LET call == calls[c]
    IN  /\ pending' = IF answer.joined
                      THEN [pending EXCEPT ![call.p][call.key] = NoCall] ELSE pending
        /\ calls' = [d \in Calls |->
             IF d = c \/ (calls[d].phase = "wait" /\ calls[d].on = c)
             THEN Answered(calls[d], call.value) ELSE calls[d]]

Loaded(c) ==
    /\ calls[c].phase = "loaded"
    /\ memory' = IF answer.memory /\ answer.memoryFirst THEN Filled(calls[c]) ELSE memory
    /\ IF answer.redis THEN calls' = Step(c, "store") /\ UNCHANGED pending ELSE Done(c)
    /\ UNCHANGED <<Fixed, redis, stamp, copies, written, due, Time, faults>>

StoreInRedis(c) ==
    /\ calls[c].phase = "store"
    /\ \/ /\ redis' = [redis EXCEPT ![calls[c].key] = Copy(calls[c].value, RedisLife)]
          /\ UNCHANGED faults
       \/ /\ faults < MaxFaults /\ faults' = faults + 1
          /\ UNCHANGED redis
    /\ calls' = Step(c, "stored")
    /\ UNCHANGED <<Fixed, memory, stamp, copies, pending, written, due, Time>>

Stored(c) ==
    /\ calls[c].phase = "stored"
    /\ memory' = IF answer.memory /\ ~answer.memoryFirst THEN Filled(calls[c]) ELSE memory
    /\ Done(c)
    /\ UNCHANGED <<Fixed, redis, stamp, copies, written, due, Time, faults>>

-----------------------------------------------------------------------------
(* A request that writes what the answer says, and clears copies.          *)

PhaseFor(parts) ==
    IF parts \cap {"pending", "memory"} # {} THEN "clear"
    ELSE IF "redis" \in parts THEN "purge" ELSE "end"

Write(c, p) ==
    /\ ~Busy(c) /\ begun < MaxCalls
    /\ Cardinality({d \in Calls : Writing(d)}) + db < MaxWrites
    /\ written' = IF sweep.early THEN written ELSE Append(written, clock)
    /\ calls' = [calls EXCEPT ![c] =
         [Idle EXCEPT !.phase = PhaseFor(sweep.parts), !.p = p, !.since = clock,
                      !.value = db + 1, !.alone = \A d \in Calls : ~Reading(d)]]
    /\ begun' = begun + 1
    /\ UNCHANGED <<Fixed, Copies, due, clock, faults>>

(* A load that has read the database before the write, or a request that   *)
(* has heard the old version, may bring an old copy back.  What is kept in *)
(* both places can come back from one of them while the other is cleared,  *)
(* what was cleared before the commit can be loaded again before it.  A    *)
(* version in the key is asked for anew, so no load brings it back.        *)
Returns(c) ==
    \/ (sweep.early \/ (answer.memory /\ answer.redis)) /\ answer.version = "none"
       /\ ~calls[c].alone
    \/ /\ answer.version = "copied"
       /\ \E d \in Calls : calls[d].phase = "versioned" /\ calls[d].value < stamp
    \/ /\ answer.version = "none" /\ ~sweep.early /\ ~(answer.memory /\ answer.redis)
       /\ \E d \in Calls : /\ calls[d].phase \in {"loaded", "store", "stored"}
                          /\ calls[d].value < calls[c].value

\* From here on the write is seen: by its process, or by every one if the
\* answer is kept in Redis alone.
Owing(c, number) ==
    LET reach == IF answer.memory THEN {calls[c].p} ELSE Processes
    IN  IF sweep.owes /\ ~calls[c].failed /\ ~Returns(c)
        THEN [p \in Processes |-> IF p \in reach /\ due[p] < number THEN number ELSE due[p]]
        ELSE due

\* The writer goes on to its next step, or is done unless it still commits.
GoOn(c, phase) ==
    IF phase = "end" /\ ~sweep.early
    THEN calls' = [calls EXCEPT ![c] = Idle] /\ due' = Owing(c, calls[c].value)
    ELSE calls' = Step(c, phase) /\ UNCHANGED due

\* In the memory of the process.
Clear(c) ==
    /\ calls[c].phase = "clear"
    /\ LET p == calls[c].p
       IN  /\ pending' = IF "pending" \in sweep.parts
                         THEN [pending EXCEPT ![p] = [k \in Keys |-> NoCall]] ELSE pending
           /\ memory' = IF "memory" \in sweep.parts
                        THEN [memory EXCEPT ![p] = [k \in Keys |-> Nothing]] ELSE memory
    /\ GoOn(c, PhaseFor(sweep.parts \ {"pending", "memory"}))
    /\ UNCHANGED <<Fixed, redis, stamp, copies, written, Time, faults>>

\* In Redis: the copy is deleted, or the version in its key incremented.
Purge(c) ==
    /\ calls[c].phase = "purge"
    /\ redis' = IF answer.version = "none" THEN [redis EXCEPT ![0] = Nothing] ELSE redis
    /\ stamp' = IF answer.version = "none" THEN stamp ELSE stamp + 1
    /\ GoOn(c, IF "copy" \in sweep.parts THEN "drop" ELSE "end")
    /\ UNCHANGED <<Fixed, memory, copies, pending, written, Time, faults>>

\* Redis does not answer: the handler goes on.
PurgeFails(c) ==
    /\ calls[c].phase = "purge" /\ faults < MaxFaults
    /\ faults' = faults + 1
    /\ calls' = [calls EXCEPT
         ![c].phase = IF "copy" \in sweep.parts THEN "drop" ELSE "end",
         ![c].failed = TRUE]
    /\ UNCHANGED <<Fixed, Copies, written, due, Time>>

DropCopy(c) ==
    /\ calls[c].phase = "drop"
    /\ copies' = [copies EXCEPT ![calls[c].p] = Nothing]
    /\ GoOn(c, "end")
    /\ UNCHANGED <<Fixed, memory, redis, stamp, pending, written, Time, faults>>

End(c) ==
    /\ calls[c].phase = "end"
    /\ IF sweep.early
       THEN written' = Append(written, clock) /\ due' = Owing(c, db + 1)
       ELSE UNCHANGED <<written, due>>
    /\ calls' = [calls EXCEPT ![c] = Idle]
    /\ UNCHANGED <<Fixed, Copies, Time, faults>>

\* A request takes less than two ticks.
Tick ==
    /\ clock < MaxTicks
    /\ \A c \in Calls : Busy(c) => calls[c].since = clock
    /\ clock' = clock + 1
    /\ UNCHANGED <<Fixed, Copies, written, calls, due, begun, faults>>

ReadStep(c) ==
    \/ \E p \in Processes : Ask(c, p)
    \/ HearVersion(c) \/ TakeVersion(c) \/ HearRedis(c) \/ Refill(c) \/ Join(c)
    \/ ReadDatabase(c) \/ Loaded(c) \/ StoreInRedis(c) \/ Stored(c)
WriteStep(c) ==
    \/ \E p \in Processes : Write(c, p)
    \/ Clear(c) \/ Purge(c) \/ PurgeFails(c) \/ DropCopy(c) \/ End(c)
Next == Tick \/ \E c \in Calls : ReadStep(c) \/ WriteStep(c)

Spec == Init /\ [][Next]_vars

-----------------------------------------------------------------------------
(* A request is answered with every write its process had finished when it *)
(* began, and, where the copies are in Redis alone, with those of every    *)
(* process, unless a load that overlapped the write brought an old copy    *)
(* back or Redis did not answer; a version in the key excludes the former. *)
WritesSeen == \A c \in Calls : ~calls[c].missed

(* Whatever happens, nobody is answered with what was overwritten longer   *)
(* ago than the copies live, one after the other, and a request lasts.     *)
CopiesFade == \A c \in Calls : ~calls[c].expired

CachesHold == WritesSeen /\ CopiesFade
=============================================================================
