----------------------------- MODULE ShownProofs ----------------------------
(* What is proved, for all constants, of what a user is shown: the answers   *)
(* that are cached for him, the affiche, and what he is told of occasions    *)
(* that are near. Each has an invariant, which the steps of its service      *)
(* keep, and a step of the run is one of these steps, a stutter, or a step   *)
(* of another service.                                                       *)
EXTENDS MCPeople, FiniteSetTheorems, SequenceTheorems, WellFoundedInduction, TLAPS

-----------------------------------------------------------------------------
(* Answers that are cached, for any processes, lifetimes and requests.       *)

answer == v1
sweep == v2
written == v3
memory == v4
redis == v5
stamp == v6
copies == v7
underWay == v8
calls == v9
due == v10
clock == v11
USE DEF answer, sweep, written, memory, redis, stamp, copies, underWay, calls,
        due, clock

LEMMA CachesKnown ==
    /\ IsFiniteSet(AnyCalls) /\ Cache!NoCall \notin AnyCalls
    /\ MemoryLife \in Nat \ {0} /\ RedisLife \in Nat /\ CopyLife \in Nat
    /\ MaxWrites \in Nat
BY CachesFit, GuessesFit DEF Cache!NoCall

LEMMA RequestsCounted == \A S : Cache!Cardinality(S) = Cardinality(S)
BY DEF Cache!Cardinality, Cardinality

-----------------------------------------------------------------------------
(* The inductive invariant.                                                 *)

Phases == {"idle", "version", "versioned", "ask", "heard", "join", "wait", "load",
           "loaded", "store", "stored", "clear", "purge", "drop", "end"}
CopyRows == [value : Int, until : Int]
CallRows ==
    [phase : Phases, p : CacheProcesses \cup {Cache!NoProcess},
     key : Cache!Keys, value : Int, on : AnyCalls \cup {Cache!NoCall},
     owed : Nat, since : Nat, alone : BOOLEAN,
     failed : BOOLEAN, missed : BOOLEAN, expired : BOOLEAN]

RowsFit ==
    /\ written \in Seq(Nat)
    /\ memory \in [CacheProcesses -> [Cache!Keys -> CopyRows]]
    /\ redis \in [Cache!Keys -> CopyRows]
    /\ stamp \in Cache!Keys
    /\ copies \in [CacheProcesses -> CopyRows]
    /\ underWay \in [CacheProcesses -> [Cache!Keys -> AnyCalls \cup {Cache!NoCall}]]
    /\ calls \in [AnyCalls -> CallRows]
    /\ due \in [CacheProcesses -> Nat]
    /\ clock \in Nat

(* What the handlers clear fits how the answer is kept: a writer that owes  *)
(* its write to later requests clears every place the answer is kept in.    *)
PairFits(kept, clears) ==
    /\ kept \in [memory : BOOLEAN, redis : BOOLEAN, version : {"none", "redis", "copied"},
                 memoryFirst : BOOLEAN, joined : BOOLEAN]
    /\ clears \in [parts : SUBSET {"pending", "memory", "redis", "copy"},
                   early : BOOLEAN, owes : BOOLEAN]
    /\ kept.version # "none" => kept.redis /\ ~clears.early
    /\ kept.version = "redis" => ~kept.memory
    /\ kept.version = "copied" => kept.memory
    /\ "copy" \in clears.parts => kept.version = "copied" /\ "redis" \in clears.parts
    /\ clears.owes =>
         /\ kept.redis <=> "redis" \in clears.parts
         /\ kept.version = "none" /\ kept.memory => "memory" \in clears.parts
         /\ kept.version = "copied" => "copy" \in clears.parts
         /\ clears.early => ~(kept.memory /\ kept.redis)
         /\ kept.memory \/ kept.redis

Keyed(d) == calls[d].phase \in {"ask", "heard", "join", "wait", "load", "loaded", "store",
                                "stored"}
Loading(d) == calls[d].phase \in {"load", "loaded", "store", "stored"}
HasLoaded(d) == calls[d].phase \in {"loaded", "store", "stored"}

(* At that time or later the database said that.                            *)
Current(value, time) ==
    /\ value \in 0 .. Cache!db
    /\ value = Cache!db \/ written[value + 1] >= time

InRedisFor == IF answer.redis THEN RedisLife ELSE 0

(* Every value that a process can come by under a key has seen that write.  *)
Holds(p, key, number) ==
    /\ Cache!Lives(memory[p][key]) => memory[p][key].value >= number
    /\ Cache!Lives(redis[key]) => redis[key].value >= number
    /\ \A e \in AnyCalls : HasLoaded(e) /\ calls[e].key = key => calls[e].value >= number
    /\ \A e \in AnyCalls :
          calls[e].phase = "heard" /\ calls[e].p = p /\ calls[e].key = key /\ answer.memory
              => calls[e].value >= number

(* The keys by which a process may ask from now on.                         *)
Valid(p, key) ==
    \/ key = stamp
    \/ answer.version = "copied" /\ Cache!Lives(copies[p]) /\ copies[p].value = key
    \/ /\ answer.version = "copied"
       /\ \E d \in AnyCalls : /\ calls[d].phase = "versioned" /\ calls[d].p = p
                              /\ calls[d].value = key

RequestFits(d) ==
    /\ ~calls[d].missed /\ ~calls[d].expired
    /\ Cache!Busy(d) => /\ calls[d].p \in CacheProcesses
                        /\ calls[d].since <= clock /\ clock <= calls[d].since + 1
    /\ calls[d].phase \in {"ask", "heard", "store", "stored"} => answer.redis
    /\ calls[d].phase \in {"version", "versioned"} => answer.version # "none"
    /\ calls[d].phase = "versioned" => calls[d].value \in 0 .. stamp
    /\ Cache!Reading(d) => calls[d].key <= stamp /\ calls[d].owed <= Cache!db
    /\ HasLoaded(d) => Current(calls[d].value, calls[d].since)
    /\ calls[d].phase = "heard" =>
          /\ Current(calls[d].value, calls[d].since - RedisLife)
          /\ calls[d].value >= calls[d].owed
    /\ Cache!Writing(d) => sweep.early \/ calls[d].value \in 0 .. Cache!db
    /\ calls[d].phase = "purge" => "redis" \in sweep.parts
    /\ calls[d].phase = "drop" => "copy" \in sweep.parts

WaitFits(d) ==
    calls[d].phase = "wait" =>
        /\ calls[d].on \in AnyCalls
        /\ Loading(calls[d].on)
        /\ calls[calls[d].on].p = calls[d].p
        /\ calls[calls[d].on].key = calls[d].key

AloneFits(d) == Cache!Writing(d) /\ calls[d].alone => \A e \in AnyCalls : ~Cache!Reading(e)

PendingFits ==
    \A p \in CacheProcesses, key \in Cache!Keys :
        underWay[p][key] # Cache!NoCall =>
            /\ answer.joined
            /\ Loading(underWay[p][key])
            /\ calls[underWay[p][key]].p = p
            /\ calls[underWay[p][key]].key = key

CopiesFit ==
    /\ \A p \in CacheProcesses, key \in Cache!Keys :
          Cache!Lives(memory[p][key]) =>
              /\ answer.memory /\ key <= stamp
              /\ memory[p][key].until <= clock + MemoryLife
              /\ Current(memory[p][key].value,
                         memory[p][key].until - MemoryLife - 1 - InRedisFor)
    /\ \A key \in Cache!Keys :
          Cache!Lives(redis[key]) =>
              /\ answer.redis /\ key <= stamp
              /\ redis[key].until <= clock + RedisLife
              /\ Current(redis[key].value, redis[key].until - RedisLife - 1)
    /\ \A p \in CacheProcesses : Cache!Lives(copies[p]) => copies[p].value \in 0 .. stamp

(* What a request must have seen, it can only come by what has seen it.     *)
Served(d) ==
    /\ calls[d].phase = "version" => Holds(calls[d].p, stamp, calls[d].owed)
    /\ calls[d].phase = "versioned" => Holds(calls[d].p, calls[d].value, calls[d].owed)
    /\ Keyed(d) => Holds(calls[d].p, calls[d].key, calls[d].owed)
    /\ calls[d].phase = "drop" /\ ~calls[d].failed =>
          Holds(calls[d].p, stamp, calls[d].value)

DueServed ==
    \A p \in CacheProcesses :
        /\ due[p] <= Cache!db
        /\ \A key \in Cache!Keys : Valid(p, key) => Holds(p, key, due[p])

(* What a writer that no reading has crossed has cleared stays so.          *)
Cleared(d) ==
    calls[d].alone =>
        /\ calls[d].phase = "purge" /\ "memory" \in sweep.parts =>
              ~Cache!Lives(memory[calls[d].p][0])
        /\ /\ calls[d].phase = "end" /\ sweep.early /\ sweep.owes
           /\ ~calls[d].failed
           => ~Cache!Lives(memory[calls[d].p][0]) /\ ~Cache!Lives(redis[0])

(* The versions never run out of keys.                                      *)
ToPurge == {d \in AnyCalls : calls[d].phase \in {"clear", "purge"}}
StampFits ==
    /\ answer.version = "none" => stamp = 0
    /\ ~sweep.early => stamp + Cardinality(ToPurge) <= Cache!db /\ Cache!db <= MaxWrites

CacheInv ==
    /\ RowsFit
    /\ PairFits(answer, sweep)
    /\ \A d \in AnyCalls : RequestFits(d) /\ WaitFits(d) /\ AloneFits(d)
    /\ PendingFits
    /\ CopiesFit
    /\ \A d \in AnyCalls : Served(d) /\ Cleared(d)
    /\ DueServed
    /\ StampFits
-----------------------------------------------------------------------------
(* Every handler that clears an answer clears all that is kept of it, but   *)
(* for those who leave the copies in Redis alone.                           *)

PartNames == {"pending", "memory", "redis", "copy"}

PartsFit(a, parts) ==
    /\ parts \subseteq PartNames
    /\ "redis" \in parts => a.kept.redis
    /\ "copy" \in parts => a.kept.version = "copied" /\ "redis" \in parts
    /\ parts \cap {"memory", "redis", "copy"} # {} /\ a \notin Cache!LeftInRedis =>
         /\ a.kept.memory \/ a.kept.redis
         /\ a.kept.redis => "redis" \in parts
         /\ a.kept.version = "none" /\ a.kept.memory => "memory" \in parts
         /\ a.kept.version = "copied" => "copy" \in parts

PartsOf(clears, a) == {part \in PartNames : [name |-> a.name, part |-> part] \in clears}

Sound(clears) ==
    /\ \A c \in clears : c = [name |-> c.name, part |-> c.part] /\ c.part \in PartNames
    /\ \A a \in Cache!Answers : PartsFit(a, PartsOf(clears, a))

LEMMA SoundTogether ==
    ASSUME NEW S, NEW T, Sound(S), Sound(T) PROVE Sound(S \cup T)
<1> SUFFICES ASSUME NEW a \in Cache!Answers PROVE PartsFit(a, PartsOf(S \cup T, a))
  BY DEF Sound
<1>1. PartsOf(S \cup T, a) = PartsOf(S, a) \cup PartsOf(T, a)
  BY DEF PartsOf
<1>2. PartsFit(a, PartsOf(S, a)) /\ PartsFit(a, PartsOf(T, a))
  BY DEF Sound
<1> QED BY <1>1, <1>2 DEF PartsFit

LEMMA SoundNone == Sound({})
BY DEF Sound, PartsOf, PartsFit

LEMMA SoundOf ==
    ASSUME NEW a \in Cache!Answers, \A b \in Cache!Answers : b.name = a.name => b = a,
           NEW parts, PartsFit(a, parts)
    PROVE  Sound(Cache!Of({a}, parts))
<1>1. parts \subseteq PartNames
  BY DEF PartsFit
<1>2. \A c \in Cache!Of({a}, parts) :
        c = [name |-> c.name, part |-> c.part] /\ c.name = a.name /\ c.part \in parts
  BY DEF Cache!Of
<1>3. \A part \in parts : [name |-> a.name, part |-> part] \in Cache!Of({a}, parts)
  BY DEF Cache!Of
<1>4. ASSUME NEW b \in Cache!Answers PROVE PartsFit(b, PartsOf(Cache!Of({a}, parts), b))
  <2>1. CASE b.name = a.name
    <3>1. PartsOf(Cache!Of({a}, parts), b) = parts
      BY <1>1, <1>2, <1>3, <2>1 DEF PartsOf
    <3> QED BY <2>1, <3>1
  <2>2. CASE b.name # a.name
    <3>1. PartsOf(Cache!Of({a}, parts), b) = {}
      BY <1>2, <2>2 DEF PartsOf
    <3> QED BY <3>1 DEF PartsFit
  <2> QED BY <2>1, <2>2
<1> QED BY <1>1, <1>2, <1>4 DEF Sound

LEMMA OfTwo ==
    ASSUME NEW a, NEW b, NEW parts
    PROVE  Cache!Of({a, b}, parts) = Cache!Of({a}, parts) \cup Cache!Of({b}, parts)
BY DEF Cache!Of

LEMMA OfMore ==
    ASSUME NEW a, NEW parts, NEW others
    PROVE  Cache!Of({a}, parts) \cup Cache!Of({a}, others)
           = Cache!Of({a}, parts \cup others)
BY DEF Cache!Of

LEMMA AnswersNamed ==
    /\ Cache!Profile.name = "profile"
    /\ Cache!Season.name = "season"
    /\ Cache!SeasonHistory.name = "season history"
    /\ Cache!SeasonPeople.name = "season people"
    /\ Cache!Onboarding.name = "onboarding"
    /\ Cache!VerificationState.name = "verification"
    /\ Cache!Settings.name = "settings"
    /\ Cache!Wallet.name = "wallet"
    /\ Cache!Catalog.name = "subscription catalog"
    /\ Cache!Subscription.name = "subscription"
    /\ Cache!AfterDarkAccess.name = "after dark access"
    /\ Cache!DropsHome.name = "drops home"
    /\ Cache!DropsDetail.name = "drop"
    /\ Cache!DropsTasks.name = "drops tasks"
    /\ Cache!DropsHistory.name = "drops history"
    /\ Cache!People.name = "people"
    /\ Cache!Following.name = "following"
    /\ Cache!PersonProfile.name = "person profile"
    /\ Cache!ProfileSocial.name = "profile social"
    /\ Cache!SafetyState.name = "safety"
    /\ Cache!TrustedContacts.name = "trusted contacts"
    /\ Cache!Reports.name = "reports"
    /\ Cache!Blocks.name = "blocks"
    /\ Cache!Matches.name = "matches"
    /\ Cache!DatingDiscover.name = "dating discover"
    /\ Cache!DatingLikes.name = "dating likes"
    /\ Cache!DatingLimits.name = "dating limits"
    /\ Cache!ChatList.name = "chat list"
    /\ Cache!ChatListOther.name = "another page of the chat list"
    /\ Cache!ChatMessages.name = "chat messages"
    /\ Cache!NotificationList.name = "notifications"
    /\ Cache!UnreadCount.name = "unread count"
    /\ Cache!EventsFeed.name = "events feed"
    /\ Cache!EventsBasePage.name = "base page of the feed"
    /\ Cache!EventDetail.name = "event"
    /\ Cache!ActiveMeetups.name = "active meetups"
    /\ Cache!HostDashboard.name = "host dashboard"
    /\ Cache!EveningRoute.name = "evening route"
    /\ Cache!EveningSessions.name = "evening sessions"
    /\ Cache!RouteTemplates.name = "route templates"
    /\ Cache!AfficheEvents.name = "affiche"
    /\ Cache!AfficheEvent.name = "affiche event"
    /\ Cache!GroupedSearch.name = "search"
    /\ Cache!PlaceSearch.name = "places"
    /\ Cache!PlacePromos.name = "promos"
    /\ Cache!AppOverlay.name = "app overlay"
    /\ Cache!PaymentsCatalog.name = "payments catalog"
    /\ Cache!MediaAsset.name = "media asset"
BY DEF Cache!Named, Cache!Profile, Cache!Season, Cache!SeasonHistory,
   Cache!SeasonPeople, Cache!Onboarding, Cache!VerificationState,
   Cache!Settings, Cache!Wallet, Cache!Catalog, Cache!Subscription,
   Cache!AfterDarkAccess, Cache!DropsHome, Cache!DropsDetail, Cache!DropsTasks,
   Cache!DropsHistory, Cache!People, Cache!Following, Cache!PersonProfile,
   Cache!ProfileSocial, Cache!SafetyState, Cache!TrustedContacts, Cache!Reports,
   Cache!Blocks, Cache!Matches, Cache!DatingDiscover, Cache!DatingLikes,
   Cache!DatingLimits, Cache!ChatList, Cache!ChatListOther, Cache!ChatMessages,
   Cache!NotificationList, Cache!UnreadCount, Cache!EventsFeed,
   Cache!EventsBasePage, Cache!EventDetail, Cache!ActiveMeetups,
   Cache!HostDashboard, Cache!EveningRoute, Cache!EveningSessions,
   Cache!RouteTemplates, Cache!AfficheEvents, Cache!AfficheEvent,
   Cache!GroupedSearch, Cache!PlaceSearch, Cache!PlacePromos, Cache!AppOverlay,
   Cache!PaymentsCatalog, Cache!MediaAsset

LEMMA OfSound ==
    /\ Sound(Cache!Of({Cache!Profile}, {"memory", "redis"}))
    /\ Sound(Cache!Of({Cache!VerificationState}, {"redis"}))
    /\ Sound(Cache!Of({Cache!Settings}, {"pending", "redis"}))
    /\ Sound(Cache!Of({Cache!Wallet}, {"pending", "redis"}))
    /\ Sound(Cache!Of({Cache!Catalog}, {"pending", "memory"}))
    /\ Sound(Cache!Of({Cache!Subscription}, {"pending", "memory"}))
    /\ Sound(Cache!Of({Cache!AfterDarkAccess}, {"pending", "memory"}))
    /\ Sound(Cache!Of({Cache!DropsHistory}, {"pending", "memory"}))
    /\ Sound(Cache!Of({Cache!DropsHome}, {"redis"}))
    /\ Sound(Cache!Of({Cache!DropsTasks}, {"redis"}))
    /\ Sound(Cache!Of({Cache!DropsDetail}, {"redis"}))
    /\ Sound(Cache!Of({Cache!PersonProfile}, {"redis"}))
    /\ Sound(Cache!Of({Cache!ProfileSocial}, {"redis"}))
    /\ Sound(Cache!Of({Cache!SafetyState}, {"redis"}))
    /\ Sound(Cache!Of({Cache!TrustedContacts}, {"pending", "memory"}))
    /\ Sound(Cache!Of({Cache!Reports}, {"pending", "memory"}))
    /\ Sound(Cache!Of({Cache!Blocks}, {"pending", "memory"}))
    /\ Sound(Cache!Of({Cache!DatingDiscover}, {"redis", "copy"}))
    /\ Sound(Cache!Of({Cache!DatingLikes}, {"redis"}))
    /\ Sound(Cache!Of({Cache!DatingLimits}, {"pending", "redis"}))
    /\ Sound(Cache!Of({Cache!ChatList}, {"pending", "memory", "redis"}))
    /\ Sound(Cache!Of({Cache!ChatListOther}, {"pending", "memory"}))
    /\ Sound(Cache!Of({Cache!NotificationList}, {"pending", "memory"}))
    /\ Sound(Cache!Of({Cache!UnreadCount}, {"redis"}))
    /\ Sound(Cache!Of({Cache!EventsFeed}, {"redis"}))
    /\ Sound(Cache!Of({Cache!EventsBasePage}, {"redis"}))
    /\ Sound(Cache!Of({Cache!EventDetail}, {"pending", "memory", "redis"}))
    /\ Sound(Cache!Of({Cache!HostDashboard}, {"pending", "redis"}))
    /\ Sound(Cache!Of({Cache!EveningRoute}, {"pending", "memory", "redis"}))
    /\ Sound(Cache!Of({Cache!EveningSessions}, {"pending", "memory"}))
    /\ Sound(Cache!Of({Cache!AfficheEvent}, {"pending", "memory", "redis"}))
    /\ Sound(Cache!Of({Cache!Onboarding}, {"redis"}))
    /\ Sound(Cache!Of({Cache!Following}, {"pending", "memory"}))
<1>1. Sound(Cache!Of({Cache!Profile}, {"memory", "redis"}))
  <2>1. \A b \in Cache!Answers : b.name = "profile" => b = Cache!Profile
    BY Zenon, AnswersNamed DEF Cache!Answers
  <2>2. Cache!Profile \in Cache!Answers /\ Cache!Profile.name = "profile"
    BY Zenon, AnswersNamed DEF Cache!Answers
  <2>3. /\ Cache!Profile.kept.memory
        /\ Cache!Profile.kept.redis
        /\ Cache!Profile.kept.version = "none"
    BY DEF Cache!Profile, Cache!Named, Cache!Kept, Cache!InBoth
  <2>4. PartsFit(Cache!Profile, {"memory", "redis"})
    BY <2>3 DEF PartsFit, PartNames
  <2> QED BY Zenon, <2>1, <2>2, <2>4, SoundOf
<1>2. Sound(Cache!Of({Cache!VerificationState}, {"redis"}))
  <2>1. \A b \in Cache!Answers : b.name = "verification" => b = Cache!VerificationState
    BY Zenon, AnswersNamed DEF Cache!Answers
  <2>2. /\ Cache!VerificationState \in Cache!Answers
        /\ Cache!VerificationState.name = "verification"
    BY Zenon, AnswersNamed DEF Cache!Answers
  <2>3. /\ ~Cache!VerificationState.kept.memory
        /\ Cache!VerificationState.kept.redis
        /\ Cache!VerificationState.kept.version = "none"
    BY DEF Cache!VerificationState, Cache!Named, Cache!Kept, Cache!InRedis
  <2>4. PartsFit(Cache!VerificationState, {"redis"})
    BY <2>3 DEF PartsFit, PartNames
  <2> QED BY Zenon, <2>1, <2>2, <2>4, SoundOf
<1>3. Sound(Cache!Of({Cache!Settings}, {"pending", "redis"}))
  <2>1. \A b \in Cache!Answers : b.name = "settings" => b = Cache!Settings
    BY Zenon, AnswersNamed DEF Cache!Answers
  <2>2. Cache!Settings \in Cache!Answers /\ Cache!Settings.name = "settings"
    BY Zenon, AnswersNamed DEF Cache!Answers
  <2>3. /\ ~Cache!Settings.kept.memory
        /\ Cache!Settings.kept.redis
        /\ Cache!Settings.kept.version = "none"
    BY DEF Cache!Settings, Cache!Named, Cache!Kept, Cache!InRedis
  <2>4. PartsFit(Cache!Settings, {"pending", "redis"})
    BY <2>3 DEF PartsFit, PartNames
  <2> QED BY Zenon, <2>1, <2>2, <2>4, SoundOf
<1>4. Sound(Cache!Of({Cache!Wallet}, {"pending", "redis"}))
  <2>1. \A b \in Cache!Answers : b.name = "wallet" => b = Cache!Wallet
    BY Zenon, AnswersNamed DEF Cache!Answers
  <2>2. Cache!Wallet \in Cache!Answers /\ Cache!Wallet.name = "wallet"
    BY Zenon, AnswersNamed DEF Cache!Answers
  <2>3. /\ ~Cache!Wallet.kept.memory
        /\ Cache!Wallet.kept.redis
        /\ Cache!Wallet.kept.version = "none"
    BY DEF Cache!Wallet, Cache!Named, Cache!Kept, Cache!InRedis
  <2>4. PartsFit(Cache!Wallet, {"pending", "redis"})
    BY <2>3 DEF PartsFit, PartNames
  <2> QED BY Zenon, <2>1, <2>2, <2>4, SoundOf
<1>5. Sound(Cache!Of({Cache!Catalog}, {"pending", "memory"}))
  <2>1. \A b \in Cache!Answers : b.name = "subscription catalog" => b = Cache!Catalog
    BY Zenon, AnswersNamed DEF Cache!Answers
  <2>2. Cache!Catalog \in Cache!Answers /\ Cache!Catalog.name = "subscription catalog"
    BY Zenon, AnswersNamed DEF Cache!Answers
  <2>3. /\ Cache!Catalog.kept.memory
        /\ ~Cache!Catalog.kept.redis
        /\ Cache!Catalog.kept.version = "none"
    BY DEF Cache!Catalog, Cache!Named, Cache!Kept, Cache!InMemory
  <2>4. PartsFit(Cache!Catalog, {"pending", "memory"})
    BY <2>3 DEF PartsFit, PartNames
  <2> QED BY Zenon, <2>1, <2>2, <2>4, SoundOf
<1>6. Sound(Cache!Of({Cache!Subscription}, {"pending", "memory"}))
  <2>1. \A b \in Cache!Answers : b.name = "subscription" => b = Cache!Subscription
    BY Zenon, AnswersNamed DEF Cache!Answers
  <2>2. Cache!Subscription \in Cache!Answers /\ Cache!Subscription.name = "subscription"
    BY Zenon, AnswersNamed DEF Cache!Answers
  <2>3. /\ Cache!Subscription.kept.memory
        /\ ~Cache!Subscription.kept.redis
        /\ Cache!Subscription.kept.version = "none"
    BY DEF Cache!Subscription, Cache!Named, Cache!Kept, Cache!InMemory
  <2>4. PartsFit(Cache!Subscription, {"pending", "memory"})
    BY <2>3 DEF PartsFit, PartNames
  <2> QED BY Zenon, <2>1, <2>2, <2>4, SoundOf
<1>7. Sound(Cache!Of({Cache!AfterDarkAccess}, {"pending", "memory"}))
  <2>1. \A b \in Cache!Answers : b.name = "after dark access" => b = Cache!AfterDarkAccess
    BY Zenon, AnswersNamed DEF Cache!Answers
  <2>2. /\ Cache!AfterDarkAccess \in Cache!Answers
        /\ Cache!AfterDarkAccess.name = "after dark access"
    BY Zenon, AnswersNamed DEF Cache!Answers
  <2>3. /\ Cache!AfterDarkAccess.kept.memory
        /\ ~Cache!AfterDarkAccess.kept.redis
        /\ Cache!AfterDarkAccess.kept.version = "none"
    BY DEF Cache!AfterDarkAccess, Cache!Named, Cache!Kept, Cache!InMemory
  <2>4. PartsFit(Cache!AfterDarkAccess, {"pending", "memory"})
    BY <2>3 DEF PartsFit, PartNames
  <2> QED BY Zenon, <2>1, <2>2, <2>4, SoundOf
<1>8. Sound(Cache!Of({Cache!DropsHistory}, {"pending", "memory"}))
  <2>1. \A b \in Cache!Answers : b.name = "drops history" => b = Cache!DropsHistory
    BY Zenon, AnswersNamed DEF Cache!Answers
  <2>2. /\ Cache!DropsHistory \in Cache!Answers
        /\ Cache!DropsHistory.name = "drops history"
    BY Zenon, AnswersNamed DEF Cache!Answers
  <2>3. /\ Cache!DropsHistory.kept.memory
        /\ ~Cache!DropsHistory.kept.redis
        /\ Cache!DropsHistory.kept.version = "none"
    BY DEF Cache!DropsHistory, Cache!Named, Cache!Kept, Cache!InMemory
  <2>4. PartsFit(Cache!DropsHistory, {"pending", "memory"})
    BY <2>3 DEF PartsFit, PartNames
  <2> QED BY Zenon, <2>1, <2>2, <2>4, SoundOf
<1>9. Sound(Cache!Of({Cache!DropsHome}, {"redis"}))
  <2>1. \A b \in Cache!Answers : b.name = "drops home" => b = Cache!DropsHome
    BY Zenon, AnswersNamed DEF Cache!Answers
  <2>2. Cache!DropsHome \in Cache!Answers /\ Cache!DropsHome.name = "drops home"
    BY Zenon, AnswersNamed DEF Cache!Answers
  <2>3. /\ ~Cache!DropsHome.kept.memory
        /\ Cache!DropsHome.kept.redis
        /\ Cache!DropsHome.kept.version = "none"
    BY DEF Cache!DropsHome, Cache!Named, Cache!Kept, Cache!InRedis
  <2>4. PartsFit(Cache!DropsHome, {"redis"})
    BY <2>3 DEF PartsFit, PartNames
  <2> QED BY Zenon, <2>1, <2>2, <2>4, SoundOf
<1>10. Sound(Cache!Of({Cache!DropsTasks}, {"redis"}))
  <2>1. \A b \in Cache!Answers : b.name = "drops tasks" => b = Cache!DropsTasks
    BY Zenon, AnswersNamed DEF Cache!Answers
  <2>2. Cache!DropsTasks \in Cache!Answers /\ Cache!DropsTasks.name = "drops tasks"
    BY Zenon, AnswersNamed DEF Cache!Answers
  <2>3. /\ ~Cache!DropsTasks.kept.memory
        /\ Cache!DropsTasks.kept.redis
        /\ Cache!DropsTasks.kept.version = "none"
    BY DEF Cache!DropsTasks, Cache!Named, Cache!Kept, Cache!InRedis
  <2>4. PartsFit(Cache!DropsTasks, {"redis"})
    BY <2>3 DEF PartsFit, PartNames
  <2> QED BY Zenon, <2>1, <2>2, <2>4, SoundOf
<1>11. Sound(Cache!Of({Cache!DropsDetail}, {"redis"}))
  <2>1. \A b \in Cache!Answers : b.name = "drop" => b = Cache!DropsDetail
    BY Zenon, AnswersNamed DEF Cache!Answers
  <2>2. Cache!DropsDetail \in Cache!Answers /\ Cache!DropsDetail.name = "drop"
    BY Zenon, AnswersNamed DEF Cache!Answers
  <2>3. /\ ~Cache!DropsDetail.kept.memory
        /\ Cache!DropsDetail.kept.redis
        /\ Cache!DropsDetail.kept.version = "none"
    BY DEF Cache!DropsDetail, Cache!Named, Cache!Kept, Cache!InRedis
  <2>4. PartsFit(Cache!DropsDetail, {"redis"})
    BY <2>3 DEF PartsFit, PartNames
  <2> QED BY Zenon, <2>1, <2>2, <2>4, SoundOf
<1>12. Sound(Cache!Of({Cache!PersonProfile}, {"redis"}))
  <2>1. \A b \in Cache!Answers : b.name = "person profile" => b = Cache!PersonProfile
    BY Zenon, AnswersNamed DEF Cache!Answers
  <2>2. /\ Cache!PersonProfile \in Cache!Answers
        /\ Cache!PersonProfile.name = "person profile"
    BY Zenon, AnswersNamed DEF Cache!Answers
  <2>3. /\ ~Cache!PersonProfile.kept.memory
        /\ Cache!PersonProfile.kept.redis
        /\ Cache!PersonProfile.kept.version = "none"
    BY DEF Cache!PersonProfile, Cache!Named, Cache!Kept, Cache!InRedis
  <2>4. PartsFit(Cache!PersonProfile, {"redis"})
    BY <2>3 DEF PartsFit, PartNames
  <2> QED BY Zenon, <2>1, <2>2, <2>4, SoundOf
<1>13. Sound(Cache!Of({Cache!ProfileSocial}, {"redis"}))
  <2>1. \A b \in Cache!Answers : b.name = "profile social" => b = Cache!ProfileSocial
    BY Zenon, AnswersNamed DEF Cache!Answers
  <2>2. /\ Cache!ProfileSocial \in Cache!Answers
        /\ Cache!ProfileSocial.name = "profile social"
    BY Zenon, AnswersNamed DEF Cache!Answers
  <2>3. /\ ~Cache!ProfileSocial.kept.memory
        /\ Cache!ProfileSocial.kept.redis
        /\ Cache!ProfileSocial.kept.version = "none"
    BY DEF Cache!ProfileSocial, Cache!Named, Cache!Kept, Cache!InRedis
  <2>4. PartsFit(Cache!ProfileSocial, {"redis"})
    BY <2>3 DEF PartsFit, PartNames
  <2> QED BY Zenon, <2>1, <2>2, <2>4, SoundOf
<1>14. Sound(Cache!Of({Cache!SafetyState}, {"redis"}))
  <2>1. \A b \in Cache!Answers : b.name = "safety" => b = Cache!SafetyState
    BY Zenon, AnswersNamed DEF Cache!Answers
  <2>2. Cache!SafetyState \in Cache!Answers /\ Cache!SafetyState.name = "safety"
    BY Zenon, AnswersNamed DEF Cache!Answers
  <2>3. /\ ~Cache!SafetyState.kept.memory
        /\ Cache!SafetyState.kept.redis
        /\ Cache!SafetyState.kept.version = "none"
    BY DEF Cache!SafetyState, Cache!Named, Cache!Kept, Cache!InRedis
  <2>4. PartsFit(Cache!SafetyState, {"redis"})
    BY <2>3 DEF PartsFit, PartNames
  <2> QED BY Zenon, <2>1, <2>2, <2>4, SoundOf
<1>15. Sound(Cache!Of({Cache!TrustedContacts}, {"pending", "memory"}))
  <2>1. \A b \in Cache!Answers : b.name = "trusted contacts" => b = Cache!TrustedContacts
    BY Zenon, AnswersNamed DEF Cache!Answers
  <2>2. /\ Cache!TrustedContacts \in Cache!Answers
        /\ Cache!TrustedContacts.name = "trusted contacts"
    BY Zenon, AnswersNamed DEF Cache!Answers
  <2>3. /\ Cache!TrustedContacts.kept.memory
        /\ ~Cache!TrustedContacts.kept.redis
        /\ Cache!TrustedContacts.kept.version = "none"
    BY DEF Cache!TrustedContacts, Cache!Named, Cache!Kept, Cache!InMemory
  <2>4. PartsFit(Cache!TrustedContacts, {"pending", "memory"})
    BY <2>3 DEF PartsFit, PartNames
  <2> QED BY Zenon, <2>1, <2>2, <2>4, SoundOf
<1>16. Sound(Cache!Of({Cache!Reports}, {"pending", "memory"}))
  <2>1. \A b \in Cache!Answers : b.name = "reports" => b = Cache!Reports
    BY Zenon, AnswersNamed DEF Cache!Answers
  <2>2. Cache!Reports \in Cache!Answers /\ Cache!Reports.name = "reports"
    BY Zenon, AnswersNamed DEF Cache!Answers
  <2>3. /\ Cache!Reports.kept.memory
        /\ ~Cache!Reports.kept.redis
        /\ Cache!Reports.kept.version = "none"
    BY DEF Cache!Reports, Cache!Named, Cache!Kept, Cache!InMemory
  <2>4. PartsFit(Cache!Reports, {"pending", "memory"})
    BY <2>3 DEF PartsFit, PartNames
  <2> QED BY Zenon, <2>1, <2>2, <2>4, SoundOf
<1>17. Sound(Cache!Of({Cache!Blocks}, {"pending", "memory"}))
  <2>1. \A b \in Cache!Answers : b.name = "blocks" => b = Cache!Blocks
    BY Zenon, AnswersNamed DEF Cache!Answers
  <2>2. Cache!Blocks \in Cache!Answers /\ Cache!Blocks.name = "blocks"
    BY Zenon, AnswersNamed DEF Cache!Answers
  <2>3. /\ Cache!Blocks.kept.memory
        /\ ~Cache!Blocks.kept.redis
        /\ Cache!Blocks.kept.version = "none"
    BY DEF Cache!Blocks, Cache!Named, Cache!Kept, Cache!InMemory
  <2>4. PartsFit(Cache!Blocks, {"pending", "memory"})
    BY <2>3 DEF PartsFit, PartNames
  <2> QED BY Zenon, <2>1, <2>2, <2>4, SoundOf
<1>18. Sound(Cache!Of({Cache!DatingDiscover}, {"redis", "copy"}))
  <2>1. \A b \in Cache!Answers : b.name = "dating discover" => b = Cache!DatingDiscover
    BY Zenon, AnswersNamed DEF Cache!Answers
  <2>2. /\ Cache!DatingDiscover \in Cache!Answers
        /\ Cache!DatingDiscover.name = "dating discover"
    BY Zenon, AnswersNamed DEF Cache!Answers
  <2>3. /\ Cache!DatingDiscover.kept.memory
        /\ Cache!DatingDiscover.kept.redis
        /\ Cache!DatingDiscover.kept.version = "copied"
    BY DEF Cache!DatingDiscover, Cache!Named, Cache!Kept
  <2>4. PartsFit(Cache!DatingDiscover, {"redis", "copy"})
    BY <2>3 DEF PartsFit, PartNames
  <2> QED BY Zenon, <2>1, <2>2, <2>4, SoundOf
<1>19. Sound(Cache!Of({Cache!DatingLikes}, {"redis"}))
  <2>1. \A b \in Cache!Answers : b.name = "dating likes" => b = Cache!DatingLikes
    BY Zenon, AnswersNamed DEF Cache!Answers
  <2>2. Cache!DatingLikes \in Cache!Answers /\ Cache!DatingLikes.name = "dating likes"
    BY Zenon, AnswersNamed DEF Cache!Answers
  <2>3. /\ ~Cache!DatingLikes.kept.memory
        /\ Cache!DatingLikes.kept.redis
        /\ Cache!DatingLikes.kept.version = "redis"
    BY DEF Cache!DatingLikes, Cache!Named, Cache!Kept, Cache!Versioned
  <2>4. PartsFit(Cache!DatingLikes, {"redis"})
    BY <2>3 DEF PartsFit, PartNames
  <2> QED BY Zenon, <2>1, <2>2, <2>4, SoundOf
<1>20. Sound(Cache!Of({Cache!DatingLimits}, {"pending", "redis"}))
  <2>1. \A b \in Cache!Answers : b.name = "dating limits" => b = Cache!DatingLimits
    BY Zenon, AnswersNamed DEF Cache!Answers
  <2>2. /\ Cache!DatingLimits \in Cache!Answers
        /\ Cache!DatingLimits.name = "dating limits"
    BY Zenon, AnswersNamed DEF Cache!Answers
  <2>3. /\ ~Cache!DatingLimits.kept.memory
        /\ Cache!DatingLimits.kept.redis
        /\ Cache!DatingLimits.kept.version = "none"
    BY DEF Cache!DatingLimits, Cache!Named, Cache!Kept, Cache!InRedis
  <2>4. PartsFit(Cache!DatingLimits, {"pending", "redis"})
    BY <2>3 DEF PartsFit, PartNames
  <2> QED BY Zenon, <2>1, <2>2, <2>4, SoundOf
<1>21. Sound(Cache!Of({Cache!ChatList}, {"pending", "memory", "redis"}))
  <2>1. \A b \in Cache!Answers : b.name = "chat list" => b = Cache!ChatList
    BY Zenon, AnswersNamed DEF Cache!Answers
  <2>2. Cache!ChatList \in Cache!Answers /\ Cache!ChatList.name = "chat list"
    BY Zenon, AnswersNamed DEF Cache!Answers
  <2>3. /\ Cache!ChatList.kept.memory
        /\ Cache!ChatList.kept.redis
        /\ Cache!ChatList.kept.version = "none"
    BY DEF Cache!ChatList, Cache!Named, Cache!Kept, Cache!InBoth
  <2>4. PartsFit(Cache!ChatList, {"pending", "memory", "redis"})
    BY <2>3 DEF PartsFit, PartNames
  <2> QED BY Zenon, <2>1, <2>2, <2>4, SoundOf
<1>22. Sound(Cache!Of({Cache!ChatListOther}, {"pending", "memory"}))
  <2>1. \A b \in Cache!Answers : b.name = "another page of the chat list" =>
            b = Cache!ChatListOther
    BY Zenon, AnswersNamed DEF Cache!Answers
  <2>2. /\ Cache!ChatListOther \in Cache!Answers
        /\ Cache!ChatListOther.name = "another page of the chat list"
    BY Zenon, AnswersNamed DEF Cache!Answers
  <2>3. /\ Cache!ChatListOther.kept.memory
        /\ Cache!ChatListOther.kept.redis
        /\ Cache!ChatListOther.kept.version = "none"
    BY DEF Cache!ChatListOther, Cache!Named, Cache!Kept, Cache!InBoth
  <2>4. PartsFit(Cache!ChatListOther, {"pending", "memory"})
    BY <2>3 DEF PartsFit, PartNames, Cache!LeftInRedis
  <2> QED BY Zenon, <2>1, <2>2, <2>4, SoundOf
<1>23. Sound(Cache!Of({Cache!NotificationList}, {"pending", "memory"}))
  <2>1. \A b \in Cache!Answers : b.name = "notifications" => b = Cache!NotificationList
    BY Zenon, AnswersNamed DEF Cache!Answers
  <2>2. /\ Cache!NotificationList \in Cache!Answers
        /\ Cache!NotificationList.name = "notifications"
    BY Zenon, AnswersNamed DEF Cache!Answers
  <2>3. /\ Cache!NotificationList.kept.memory
        /\ ~Cache!NotificationList.kept.redis
        /\ Cache!NotificationList.kept.version = "none"
    BY DEF Cache!NotificationList, Cache!Named, Cache!Kept, Cache!InMemory
  <2>4. PartsFit(Cache!NotificationList, {"pending", "memory"})
    BY <2>3 DEF PartsFit, PartNames
  <2> QED BY Zenon, <2>1, <2>2, <2>4, SoundOf
<1>24. Sound(Cache!Of({Cache!UnreadCount}, {"redis"}))
  <2>1. \A b \in Cache!Answers : b.name = "unread count" => b = Cache!UnreadCount
    BY Zenon, AnswersNamed DEF Cache!Answers
  <2>2. Cache!UnreadCount \in Cache!Answers /\ Cache!UnreadCount.name = "unread count"
    BY Zenon, AnswersNamed DEF Cache!Answers
  <2>3. /\ ~Cache!UnreadCount.kept.memory
        /\ Cache!UnreadCount.kept.redis
        /\ Cache!UnreadCount.kept.version = "none"
    BY DEF Cache!UnreadCount, Cache!Named, Cache!Kept, Cache!InRedis
  <2>4. PartsFit(Cache!UnreadCount, {"redis"})
    BY <2>3 DEF PartsFit, PartNames
  <2> QED BY Zenon, <2>1, <2>2, <2>4, SoundOf
<1>25. Sound(Cache!Of({Cache!EventsFeed}, {"redis"}))
  <2>1. \A b \in Cache!Answers : b.name = "events feed" => b = Cache!EventsFeed
    BY Zenon, AnswersNamed DEF Cache!Answers
  <2>2. Cache!EventsFeed \in Cache!Answers /\ Cache!EventsFeed.name = "events feed"
    BY Zenon, AnswersNamed DEF Cache!Answers
  <2>3. /\ ~Cache!EventsFeed.kept.memory
        /\ Cache!EventsFeed.kept.redis
        /\ Cache!EventsFeed.kept.version = "redis"
    BY DEF Cache!EventsFeed, Cache!Named, Cache!Kept, Cache!Versioned
  <2>4. PartsFit(Cache!EventsFeed, {"redis"})
    BY <2>3 DEF PartsFit, PartNames
  <2> QED BY Zenon, <2>1, <2>2, <2>4, SoundOf
<1>26. Sound(Cache!Of({Cache!EventsBasePage}, {"redis"}))
  <2>1. \A b \in Cache!Answers : b.name = "base page of the feed" =>
            b = Cache!EventsBasePage
    BY Zenon, AnswersNamed DEF Cache!Answers
  <2>2. /\ Cache!EventsBasePage \in Cache!Answers
        /\ Cache!EventsBasePage.name = "base page of the feed"
    BY Zenon, AnswersNamed DEF Cache!Answers
  <2>3. /\ ~Cache!EventsBasePage.kept.memory
        /\ Cache!EventsBasePage.kept.redis
        /\ Cache!EventsBasePage.kept.version = "redis"
    BY DEF Cache!EventsBasePage, Cache!Named, Cache!Kept
  <2>4. PartsFit(Cache!EventsBasePage, {"redis"})
    BY <2>3 DEF PartsFit, PartNames
  <2> QED BY Zenon, <2>1, <2>2, <2>4, SoundOf
<1>27. Sound(Cache!Of({Cache!EventDetail}, {"pending", "memory", "redis"}))
  <2>1. \A b \in Cache!Answers : b.name = "event" => b = Cache!EventDetail
    BY Zenon, AnswersNamed DEF Cache!Answers
  <2>2. Cache!EventDetail \in Cache!Answers /\ Cache!EventDetail.name = "event"
    BY Zenon, AnswersNamed DEF Cache!Answers
  <2>3. /\ Cache!EventDetail.kept.memory
        /\ Cache!EventDetail.kept.redis
        /\ Cache!EventDetail.kept.version = "none"
    BY DEF Cache!EventDetail, Cache!Named, Cache!Kept, Cache!InBoth
  <2>4. PartsFit(Cache!EventDetail, {"pending", "memory", "redis"})
    BY <2>3 DEF PartsFit, PartNames
  <2> QED BY Zenon, <2>1, <2>2, <2>4, SoundOf
<1>28. Sound(Cache!Of({Cache!HostDashboard}, {"pending", "redis"}))
  <2>1. \A b \in Cache!Answers : b.name = "host dashboard" => b = Cache!HostDashboard
    BY Zenon, AnswersNamed DEF Cache!Answers
  <2>2. /\ Cache!HostDashboard \in Cache!Answers
        /\ Cache!HostDashboard.name = "host dashboard"
    BY Zenon, AnswersNamed DEF Cache!Answers
  <2>3. /\ ~Cache!HostDashboard.kept.memory
        /\ Cache!HostDashboard.kept.redis
        /\ Cache!HostDashboard.kept.version = "none"
    BY DEF Cache!HostDashboard, Cache!Named, Cache!Kept, Cache!InRedis
  <2>4. PartsFit(Cache!HostDashboard, {"pending", "redis"})
    BY <2>3 DEF PartsFit, PartNames
  <2> QED BY Zenon, <2>1, <2>2, <2>4, SoundOf
<1>29. Sound(Cache!Of({Cache!EveningRoute}, {"pending", "memory", "redis"}))
  <2>1. \A b \in Cache!Answers : b.name = "evening route" => b = Cache!EveningRoute
    BY Zenon, AnswersNamed DEF Cache!Answers
  <2>2. /\ Cache!EveningRoute \in Cache!Answers
        /\ Cache!EveningRoute.name = "evening route"
    BY Zenon, AnswersNamed DEF Cache!Answers
  <2>3. /\ Cache!EveningRoute.kept.memory
        /\ Cache!EveningRoute.kept.redis
        /\ Cache!EveningRoute.kept.version = "none"
    BY DEF Cache!EveningRoute, Cache!Named, Cache!Kept, Cache!InBoth
  <2>4. PartsFit(Cache!EveningRoute, {"pending", "memory", "redis"})
    BY <2>3 DEF PartsFit, PartNames
  <2> QED BY Zenon, <2>1, <2>2, <2>4, SoundOf
<1>30. Sound(Cache!Of({Cache!EveningSessions}, {"pending", "memory"}))
  <2>1. \A b \in Cache!Answers : b.name = "evening sessions" => b = Cache!EveningSessions
    BY Zenon, AnswersNamed DEF Cache!Answers
  <2>2. /\ Cache!EveningSessions \in Cache!Answers
        /\ Cache!EveningSessions.name = "evening sessions"
    BY Zenon, AnswersNamed DEF Cache!Answers
  <2>3. /\ Cache!EveningSessions.kept.memory
        /\ ~Cache!EveningSessions.kept.redis
        /\ Cache!EveningSessions.kept.version = "none"
    BY DEF Cache!EveningSessions, Cache!Named, Cache!Kept, Cache!InMemory
  <2>4. PartsFit(Cache!EveningSessions, {"pending", "memory"})
    BY <2>3 DEF PartsFit, PartNames
  <2> QED BY Zenon, <2>1, <2>2, <2>4, SoundOf
<1>31. Sound(Cache!Of({Cache!AfficheEvent}, {"pending", "memory", "redis"}))
  <2>1. \A b \in Cache!Answers : b.name = "affiche event" => b = Cache!AfficheEvent
    BY Zenon, AnswersNamed DEF Cache!Answers
  <2>2. /\ Cache!AfficheEvent \in Cache!Answers
        /\ Cache!AfficheEvent.name = "affiche event"
    BY Zenon, AnswersNamed DEF Cache!Answers
  <2>3. /\ Cache!AfficheEvent.kept.memory
        /\ Cache!AfficheEvent.kept.redis
        /\ Cache!AfficheEvent.kept.version = "none"
    BY DEF Cache!AfficheEvent, Cache!Named, Cache!Kept, Cache!InBoth
  <2>4. PartsFit(Cache!AfficheEvent, {"pending", "memory", "redis"})
    BY <2>3 DEF PartsFit, PartNames
  <2> QED BY Zenon, <2>1, <2>2, <2>4, SoundOf
<1>32. Sound(Cache!Of({Cache!Onboarding}, {"redis"}))
  <2>1. \A b \in Cache!Answers : b.name = "onboarding" => b = Cache!Onboarding
    BY Zenon, AnswersNamed DEF Cache!Answers
  <2>2. Cache!Onboarding \in Cache!Answers /\ Cache!Onboarding.name = "onboarding"
    BY Zenon, AnswersNamed DEF Cache!Answers
  <2>3. /\ ~Cache!Onboarding.kept.memory
        /\ Cache!Onboarding.kept.redis
        /\ Cache!Onboarding.kept.version = "none"
    BY DEF Cache!Onboarding, Cache!Named, Cache!Kept, Cache!InRedis
  <2>4. PartsFit(Cache!Onboarding, {"redis"})
    BY <2>3 DEF PartsFit, PartNames
  <2> QED BY Zenon, <2>1, <2>2, <2>4, SoundOf
<1>33. Sound(Cache!Of({Cache!Following}, {"pending", "memory"}))
  <2>1. \A b \in Cache!Answers : b.name = "following" => b = Cache!Following
    BY Zenon, AnswersNamed DEF Cache!Answers
  <2>2. Cache!Following \in Cache!Answers /\ Cache!Following.name = "following"
    BY Zenon, AnswersNamed DEF Cache!Answers
  <2>3. /\ Cache!Following.kept.memory
        /\ Cache!Following.kept.redis
        /\ Cache!Following.kept.version = "none"
    BY DEF Cache!Following, Cache!Named, Cache!Kept, Cache!InBoth
  <2>4. PartsFit(Cache!Following, {"pending", "memory"})
    BY <2>3 DEF PartsFit, PartNames, Cache!LeftInRedis
  <2> QED BY Zenon, <2>1, <2>2, <2>4, SoundOf
<1> QED BY <1>1, <1>2, <1>3, <1>4, <1>5, <1>6, <1>7, <1>8, <1>9, <1>10, <1>11, <1>12,
    <1>13, <1>14, <1>15, <1>16, <1>17, <1>18, <1>19, <1>20, <1>21, <1>22, <1>23, <1>24,
    <1>25, <1>26, <1>27, <1>28, <1>29, <1>30, <1>31, <1>32, <1>33

LEMMA ClearsSound ==
    /\ Sound(Cache!ClearProfileCache)
    /\ Sound(Cache!ClearVerificationCache)
    /\ Sound(Cache!ClearSettingsCache)
    /\ Sound(Cache!ClearWalletCache)
    /\ Sound(Cache!ClearCatalogCache)
    /\ Sound(Cache!ClearCurrentCache)
    /\ Sound(Cache!ClearAccessCache)
    /\ Sound(Cache!ClearHistoryCache)
    /\ Sound(Cache!ClearUserDropsCache)
    /\ Sound(Cache!ClearPersonProfileCache)
    /\ Sound(Cache!ClearSafetyCache)
    /\ Sound(Cache!ClearListCaches)
    /\ Sound(Cache!ClearBlockedProfileCache)
    /\ Sound(Cache!IncrementDatingDiscoverVersion)
    /\ Sound(Cache!IncrementDatingLikesVersion)
    /\ Sound(Cache!ClearDatingLimitsCache)
    /\ Sound(Cache!ClearChatListCache)
    /\ Sound(Cache!ClearListCache)
    /\ Sound(Cache!ClearUnreadCountCache)
    /\ Sound(Cache!IncrementEventsFeedCityVersion)
    /\ Sound(Cache!ClearEventDetailCache)
    /\ Sound(Cache!ClearHostDashboardCache)
    /\ Sound(Cache!ClearEveningRouteCache)
    /\ Sound(Cache!ClearSessionListCache)
    /\ Sound(Cache!ClearAfficheDetailCache)
<1>1. Sound(Cache!ClearProfileCache)
  BY OfSound DEF Cache!ClearProfileCache
<1>2. Sound(Cache!ClearVerificationCache)
  BY OfSound DEF Cache!ClearVerificationCache
<1>3. Sound(Cache!ClearSettingsCache)
  BY OfSound DEF Cache!ClearSettingsCache
<1>4. Sound(Cache!ClearWalletCache)
  BY OfSound DEF Cache!ClearWalletCache
<1>5. Sound(Cache!ClearCatalogCache)
  BY OfSound DEF Cache!ClearCatalogCache
<1>6. Sound(Cache!ClearCurrentCache)
  BY OfSound DEF Cache!ClearCurrentCache
<1>7. Sound(Cache!ClearAccessCache)
  BY OfSound DEF Cache!ClearAccessCache
<1>8. Sound(Cache!ClearHistoryCache)
  BY OfSound DEF Cache!ClearHistoryCache
<1>9. Sound(Cache!ClearUserDropsCache)
  <2>1. Cache!ClearUserDropsCache
            = (Cache!ClearHistoryCache
               \cup Cache!Of({Cache!DropsHome}, {"redis"}))
               \cup Cache!Of({Cache!DropsTasks}, {"redis"})
    BY DEF Cache!ClearUserDropsCache, Cache!Of
  <2>2. Sound(Cache!ClearHistoryCache
              \cup Cache!Of({Cache!DropsHome}, {"redis"}))
    BY <1>8, OfSound, SoundTogether
  <2> QED BY <2>1, <2>2, OfSound, SoundTogether
<1>10. Sound(Cache!ClearPersonProfileCache)
  <2>1. Cache!ClearPersonProfileCache
            = Cache!Of({Cache!PersonProfile}, {"redis"})
              \cup Cache!Of({Cache!ProfileSocial}, {"redis"})
    BY DEF Cache!ClearPersonProfileCache, Cache!Of
  <2> QED BY <2>1, OfSound, SoundTogether
<1>11. Sound(Cache!ClearSafetyCache)
  BY OfSound DEF Cache!ClearSafetyCache
<1>12. Sound(Cache!ClearListCaches)
  <2>1. Cache!ClearListCaches
            = (Cache!Of({Cache!TrustedContacts}, {"pending", "memory"})
               \cup Cache!Of({Cache!Reports}, {"pending", "memory"}))
                           \cup Cache!Of({Cache!Blocks}, {"pending", "memory"})
    BY DEF Cache!ClearListCaches, Cache!Of
  <2>2. Sound(Cache!Of({Cache!TrustedContacts}, {"pending", "memory"})
              \cup Cache!Of({Cache!Reports}, {"pending", "memory"}))
    BY OfSound, SoundTogether
  <2> QED BY <2>1, <2>2, OfSound, SoundTogether
<1>13. Sound(Cache!ClearBlockedProfileCache)
  <2>1. Cache!ClearBlockedProfileCache
            = Cache!Of({Cache!PersonProfile}, {"redis"})
              \cup Cache!Of({Cache!ProfileSocial}, {"redis"})
    BY DEF Cache!ClearBlockedProfileCache, Cache!Of
  <2> QED BY <2>1, OfSound, SoundTogether
<1>14. Sound(Cache!IncrementDatingDiscoverVersion)
  BY OfSound DEF Cache!IncrementDatingDiscoverVersion
<1>15. Sound(Cache!IncrementDatingLikesVersion)
  BY OfSound DEF Cache!IncrementDatingLikesVersion
<1>16. Sound(Cache!ClearDatingLimitsCache)
  BY OfSound DEF Cache!ClearDatingLimitsCache
<1>17. Sound(Cache!ClearChatListCache)
  <2>1. Cache!ClearChatListCache
            = Cache!Of({Cache!ChatList}, {"pending", "memory", "redis"})
              \cup Cache!Of({Cache!ChatListOther}, {"pending", "memory"})
    BY DEF Cache!ClearChatListCache, Cache!Of
  <2> QED BY <2>1, OfSound, SoundTogether
<1>18. Sound(Cache!ClearListCache)
  BY OfSound DEF Cache!ClearListCache
<1>19. Sound(Cache!ClearUnreadCountCache)
  BY OfSound DEF Cache!ClearUnreadCountCache
<1>20. Sound(Cache!IncrementEventsFeedCityVersion)
  <2>1. Cache!IncrementEventsFeedCityVersion
            = Cache!Of({Cache!EventsFeed}, {"redis"})
              \cup Cache!Of({Cache!EventsBasePage}, {"redis"})
    BY DEF Cache!IncrementEventsFeedCityVersion, Cache!Of
  <2> QED BY <2>1, OfSound, SoundTogether
<1>21. Sound(Cache!ClearEventDetailCache)
  BY OfSound DEF Cache!ClearEventDetailCache
<1>22. Sound(Cache!ClearHostDashboardCache)
  BY OfSound DEF Cache!ClearHostDashboardCache
<1>23. Sound(Cache!ClearEveningRouteCache)
  BY OfSound DEF Cache!ClearEveningRouteCache
<1>24. Sound(Cache!ClearSessionListCache)
  BY OfSound DEF Cache!ClearSessionListCache
<1>25. Sound(Cache!ClearAfficheDetailCache)
  BY OfSound DEF Cache!ClearAfficheDetailCache
<1> QED BY <1>1, <1>2, <1>3, <1>4, <1>5, <1>6, <1>7, <1>8, <1>9, <1>10, <1>11, <1>12,
    <1>13, <1>14, <1>15, <1>16, <1>17, <1>18, <1>19, <1>20, <1>21, <1>22, <1>23, <1>24,
    <1>25

SoundWriter(w) ==
    /\ Sound(w.clears)
    /\ w.early => \E a \in {Cache!Wallet,
          Cache!Subscription} : \A c \in w.clears : c.name = a.name
    /\ w.early \in BOOLEAN

LEMMA AfterSound ==
    ASSUME NEW clears, Sound(clears) PROVE SoundWriter(Cache!After(clears))
BY DEF SoundWriter, Cache!After

LEMMA WritersSound == \A w \in Cache!Writers : SoundWriter(w)
<1>1. SoundWriter(Cache!Elsewhere)
  BY SoundNone, AfterSound DEF Cache!Elsewhere
<1>2. SoundWriter(Cache!UpdateProfile)
  BY ClearsSound, AfterSound DEF Cache!UpdateProfile
<1>3. SoundWriter(Cache!CompleteAvatarUpload)
  BY ClearsSound, AfterSound DEF Cache!CompleteAvatarUpload
<1>4. SoundWriter(Cache!UploadAvatarFile)
  BY ClearsSound, AfterSound DEF Cache!UploadAvatarFile
<1>5. SoundWriter(Cache!UploadProfilePhotoFile)
  BY ClearsSound, AfterSound DEF Cache!UploadProfilePhotoFile
<1>6. SoundWriter(Cache!CompleteProfilePhotoUpload)
  BY ClearsSound, AfterSound DEF Cache!CompleteProfilePhotoUpload
<1>7. SoundWriter(Cache!DeleteProfilePhoto)
  BY ClearsSound, AfterSound DEF Cache!DeleteProfilePhoto
<1>8. SoundWriter(Cache!MakePrimaryPhoto)
  BY ClearsSound, AfterSound DEF Cache!MakePrimaryPhoto
<1>9. SoundWriter(Cache!ReorderProfilePhotos)
  BY ClearsSound, AfterSound DEF Cache!ReorderProfilePhotos
<1>10. SoundWriter(Cache!UpdateOnboarding)
  BY ClearsSound, OfSound, SoundTogether, AfterSound DEF Cache!UpdateOnboarding
<1>11. SoundWriter(Cache!SubmitVerification)
  BY ClearsSound, AfterSound DEF Cache!SubmitVerification
<1>12. SoundWriter(Cache!UpdateSettings)
  BY ClearsSound, AfterSound DEF Cache!UpdateSettings
<1>13. SoundWriter(Cache!UpdateTestingAccess)
  <2>1. Sound(Cache!ClearSettingsCache \cup Cache!ClearCurrentCache)
    BY ClearsSound, SoundTogether
  <2> QED BY <2>1, ClearsSound, SoundTogether, AfterSound DEF Cache!UpdateTestingAccess
<1>14. SoundWriter(Cache!CreditPurchasedTokens)
  BY ClearsSound DEF SoundWriter, Cache!CreditPurchasedTokens, Cache!Inside,
     Cache!ClearWalletCache, Cache!Of
<1>15. SoundWriter(Cache!SpendTokens)
  BY ClearsSound DEF SoundWriter, Cache!SpendTokens, Cache!Inside, Cache!ClearWalletCache,
     Cache!Of
<1>16. SoundWriter(Cache!CreatePromotion)
  BY ClearsSound, AfterSound DEF Cache!CreatePromotion
<1>17. SoundWriter(Cache!UpdateAdminCatalog)
  BY ClearsSound, AfterSound DEF Cache!UpdateAdminCatalog
<1>18. SoundWriter(Cache!Subscribe)
  BY ClearsSound, AfterSound DEF Cache!Subscribe
<1>19. SoundWriter(Cache!SubscribeWithTokens)
  BY ClearsSound, AfterSound DEF Cache!SubscribeWithTokens
<1>20. SoundWriter(Cache!ActivatePaidSubscription)
  BY ClearsSound DEF SoundWriter, Cache!ActivatePaidSubscription, Cache!Inside,
     Cache!ClearCurrentCache, Cache!Of
<1>21. SoundWriter(Cache!ClaimVerification)
  BY ClearsSound, AfterSound DEF Cache!ClaimVerification
<1>22. SoundWriter(Cache!ClaimDailyLogin)
  BY ClearsSound, AfterSound DEF Cache!ClaimDailyLogin
<1>23. SoundWriter(Cache!ApplyTickets)
  BY ClearsSound, OfSound, SoundTogether, AfterSound DEF Cache!ApplyTickets
<1>24. SoundWriter(Cache!BindReferralCode)
  BY ClearsSound, AfterSound DEF Cache!BindReferralCode
<1>25. SoundWriter(Cache!SetFollow)
  BY ClearsSound, OfSound, SoundTogether, AfterSound DEF Cache!SetFollow
<1>26. SoundWriter(Cache!SetFollowNotifications)
  BY ClearsSound, AfterSound DEF Cache!SetFollowNotifications
<1>27. SoundWriter(Cache!SetProfileReaction)
  BY ClearsSound, AfterSound DEF Cache!SetProfileReaction
<1>28. SoundWriter(Cache!UpdateSafety)
  BY ClearsSound, AfterSound DEF Cache!UpdateSafety
<1>29. SoundWriter(Cache!CreateTrustedContact)
  BY ClearsSound, SoundTogether, AfterSound DEF Cache!CreateTrustedContact
<1>30. SoundWriter(Cache!DeleteTrustedContact)
  BY ClearsSound, SoundTogether, AfterSound DEF Cache!DeleteTrustedContact
<1>31. SoundWriter(Cache!CreateReport)
  <2>1. Sound(Cache!ClearSafetyCache \cup Cache!ClearBlockedProfileCache)
    BY ClearsSound, SoundTogether
  <2> QED BY <2>1, ClearsSound, SoundTogether, AfterSound DEF Cache!CreateReport
<1>32. SoundWriter(Cache!CreateBlock)
  <2>1. Sound(Cache!ClearSafetyCache \cup Cache!ClearBlockedProfileCache)
    BY ClearsSound, SoundTogether
  <2> QED BY <2>1, ClearsSound, SoundTogether, AfterSound DEF Cache!CreateBlock
<1>33. SoundWriter(Cache!DeleteBlock)
  <2>1. Sound(Cache!ClearSafetyCache \cup Cache!ClearBlockedProfileCache)
    BY ClearsSound, SoundTogether
  <2> QED BY <2>1, ClearsSound, SoundTogether, AfterSound DEF Cache!DeleteBlock
<1>34. SoundWriter(Cache!RecordAction)
  <2>1. Sound(Cache!IncrementDatingDiscoverVersion \cup Cache!IncrementDatingLikesVersion)
    BY ClearsSound, SoundTogether
  <2> QED BY <2>1, ClearsSound, SoundTogether, AfterSound DEF Cache!RecordAction
<1>35. SoundWriter(Cache!RewindLastPass)
  BY ClearsSound, SoundTogether, AfterSound DEF Cache!RewindLastPass
<1>36. SoundWriter(Cache!SetPinned)
  BY ClearsSound, AfterSound DEF Cache!SetPinned
<1>37. SoundWriter(Cache!MarkChatRead)
  BY ClearsSound, AfterSound DEF Cache!MarkChatRead
<1>38. SoundWriter(Cache!MarkNotificationRead)
  BY ClearsSound, SoundTogether, AfterSound DEF Cache!MarkNotificationRead
<1>39. SoundWriter(Cache!MarkAllNotificationsRead)
  BY ClearsSound, SoundTogether, AfterSound DEF Cache!MarkAllNotificationsRead
<1>40. SoundWriter(Cache!JoinEvent)
  BY ClearsSound, SoundTogether, AfterSound DEF Cache!JoinEvent
<1>41. SoundWriter(Cache!CreateJoinRequest)
  BY ClearsSound, AfterSound DEF Cache!CreateJoinRequest
<1>42. SoundWriter(Cache!CancelJoinRequest)
  BY ClearsSound, AfterSound DEF Cache!CancelJoinRequest
<1>43. SoundWriter(Cache!LeaveEvent)
  BY ClearsSound, SoundTogether, AfterSound DEF Cache!LeaveEvent
<1>44. SoundWriter(Cache!CreateEvent)
  BY ClearsSound, SoundTogether, AfterSound DEF Cache!CreateEvent
<1>45. SoundWriter(Cache!AcceptInvite)
  BY ClearsSound, SoundTogether, AfterSound DEF Cache!AcceptInvite
<1>46. SoundWriter(Cache!UpdateHostedEvent)
  BY ClearsSound, AfterSound DEF Cache!UpdateHostedEvent
<1>47. SoundWriter(Cache!ApproveRequest)
  BY ClearsSound, AfterSound DEF Cache!ApproveRequest
<1>48. SoundWriter(Cache!RejectRequest)
  BY ClearsSound, AfterSound DEF Cache!RejectRequest
<1>49. SoundWriter(Cache!ManualCheckIn)
  BY ClearsSound, AfterSound DEF Cache!ManualCheckIn
<1>50. SoundWriter(Cache!StartLive)
  BY ClearsSound, AfterSound DEF Cache!StartLive
<1>51. SoundWriter(Cache!FinishLive)
  BY ClearsSound, AfterSound DEF Cache!FinishLive
<1>52. SoundWriter(Cache!MarkPerkUsed)
  BY ClearsSound, AfterSound DEF Cache!MarkPerkUsed
<1>53. SoundWriter(Cache!MarkTicketBought)
  BY ClearsSound, AfterSound DEF Cache!MarkTicketBought
<1>54. SoundWriter(Cache!ShareStepToChat)
  BY ClearsSound, AfterSound DEF Cache!ShareStepToChat
<1>55. SoundWriter(Cache!LaunchRoute)
  BY ClearsSound, AfterSound DEF Cache!LaunchRoute
<1>56. SoundWriter(Cache!FinishRoute)
  BY ClearsSound, AfterSound DEF Cache!FinishRoute
<1>57. SoundWriter(Cache!SaveClientGeo)
  BY ClearsSound, AfterSound DEF Cache!SaveClientGeo
<1> QED BY <1>1, <1>2, <1>3, <1>4, <1>5, <1>6, <1>7, <1>8, <1>9, <1>10, <1>11, <1>12,
    <1>13, <1>14, <1>15, <1>16, <1>17, <1>18, <1>19, <1>20, <1>21, <1>22, <1>23, <1>24,
    <1>25, <1>26, <1>27, <1>28, <1>29, <1>30, <1>31, <1>32, <1>33, <1>34, <1>35, <1>36,
    <1>37, <1>38, <1>39, <1>40, <1>41, <1>42, <1>43, <1>44, <1>45, <1>46, <1>47, <1>48,
    <1>49, <1>50, <1>51, <1>52, <1>53, <1>54, <1>55, <1>56, <1>57 DEF Cache!Writers

KeptFits(kept) ==
    /\ kept \in [memory : BOOLEAN, redis : BOOLEAN, version : {"none", "redis", "copied"},
                 memoryFirst : BOOLEAN, joined : BOOLEAN]
    /\ kept.version # "none" => kept.redis
    /\ kept.version = "redis" => ~kept.memory
    /\ kept.version = "copied" => kept.memory

LEMMA AnswersFit == \A a \in Cache!Answers : KeptFits(a.kept)
<1>1. \A inMemory, inRedis, memoryFirst, joined \in BOOLEAN :
        KeptFits(Cache!Kept(inMemory, inRedis, "none", memoryFirst, joined))
  BY DEF KeptFits, Cache!Kept
<1>2. \A memoryFirst, joined \in BOOLEAN :
        /\ KeptFits(Cache!Kept(FALSE, TRUE, "redis", memoryFirst, joined))
        /\ KeptFits(Cache!Kept(TRUE, TRUE, "copied", memoryFirst, joined))
  BY DEF KeptFits, Cache!Kept
<1>3. KeptFits(Cache!InMemory) /\ KeptFits(Cache!InRedis) /\ KeptFits(Cache!InBoth)
          /\ KeptFits(Cache!Versioned)
  BY <1>1, <1>2 DEF Cache!InMemory, Cache!InRedis, Cache!InBoth, Cache!Versioned
<1>4. KeptFits(Cache!DatingDiscover.kept)
  <2>1. Cache!DatingDiscover.kept = Cache!Kept(TRUE, TRUE, "copied", FALSE, TRUE)
    BY DEF Cache!DatingDiscover, Cache!Named
  <2> QED BY <1>2, <2>1
<1>5. KeptFits(Cache!EventsBasePage.kept)
  <2>1. Cache!EventsBasePage.kept = Cache!Kept(FALSE, TRUE, "redis", TRUE, FALSE)
    BY DEF Cache!EventsBasePage, Cache!Named
  <2> QED BY <1>2, <2>1
<1>6. KeptFits(Cache!MediaAsset.kept)
  <2>1. Cache!MediaAsset.kept = Cache!Kept(TRUE, FALSE, "none", TRUE, FALSE)
    BY DEF Cache!MediaAsset, Cache!Named
  <2> QED BY <1>1, <2>1
<1>7. /\ Cache!Profile.kept = Cache!InBoth
      /\ Cache!Season.kept = Cache!InMemory
      /\ Cache!SeasonHistory.kept = Cache!InMemory
      /\ Cache!SeasonPeople.kept = Cache!InMemory
      /\ Cache!Onboarding.kept = Cache!InRedis
      /\ Cache!VerificationState.kept = Cache!InRedis
      /\ Cache!Settings.kept = Cache!InRedis
      /\ Cache!Wallet.kept = Cache!InRedis
      /\ Cache!Catalog.kept = Cache!InMemory
      /\ Cache!Subscription.kept = Cache!InMemory
      /\ Cache!AfterDarkAccess.kept = Cache!InMemory
      /\ Cache!DropsHome.kept = Cache!InRedis
      /\ Cache!DropsDetail.kept = Cache!InRedis
      /\ Cache!DropsTasks.kept = Cache!InRedis
      /\ Cache!DropsHistory.kept = Cache!InMemory
      /\ Cache!People.kept = Cache!InRedis
      /\ Cache!Following.kept = Cache!InBoth
      /\ Cache!PersonProfile.kept = Cache!InRedis
      /\ Cache!ProfileSocial.kept = Cache!InRedis
      /\ Cache!SafetyState.kept = Cache!InRedis
      /\ Cache!TrustedContacts.kept = Cache!InMemory
      /\ Cache!Reports.kept = Cache!InMemory
      /\ Cache!Blocks.kept = Cache!InMemory
      /\ Cache!Matches.kept = Cache!InRedis
      /\ Cache!DatingLikes.kept = Cache!Versioned
      /\ Cache!DatingLimits.kept = Cache!InRedis
      /\ Cache!ChatList.kept = Cache!InBoth
      /\ Cache!ChatListOther.kept = Cache!InBoth
      /\ Cache!ChatMessages.kept = Cache!InBoth
      /\ Cache!NotificationList.kept = Cache!InMemory
      /\ Cache!UnreadCount.kept = Cache!InRedis
      /\ Cache!EventsFeed.kept = Cache!Versioned
      /\ Cache!EventDetail.kept = Cache!InBoth
      /\ Cache!ActiveMeetups.kept = Cache!InMemory
      /\ Cache!HostDashboard.kept = Cache!InRedis
      /\ Cache!EveningRoute.kept = Cache!InBoth
      /\ Cache!EveningSessions.kept = Cache!InMemory
      /\ Cache!RouteTemplates.kept = Cache!InRedis
      /\ Cache!AfficheEvents.kept = Cache!InRedis
      /\ Cache!AfficheEvent.kept = Cache!InBoth
      /\ Cache!GroupedSearch.kept = Cache!InRedis
      /\ Cache!PlaceSearch.kept = Cache!InRedis
      /\ Cache!PlacePromos.kept = Cache!InRedis
      /\ Cache!AppOverlay.kept = Cache!InRedis
      /\ Cache!PaymentsCatalog.kept = Cache!InRedis
  BY DEF Cache!Named, Cache!Profile, Cache!Season, Cache!SeasonHistory,
     Cache!SeasonPeople, Cache!Onboarding, Cache!VerificationState,
     Cache!Settings, Cache!Wallet, Cache!Catalog, Cache!Subscription,
     Cache!AfterDarkAccess, Cache!DropsHome, Cache!DropsDetail,
     Cache!DropsTasks, Cache!DropsHistory, Cache!People, Cache!Following,
     Cache!PersonProfile, Cache!ProfileSocial, Cache!SafetyState,
     Cache!TrustedContacts, Cache!Reports, Cache!Blocks, Cache!Matches,
     Cache!DatingLikes, Cache!DatingLimits, Cache!ChatList, Cache!ChatListOther,
     Cache!ChatMessages, Cache!NotificationList, Cache!UnreadCount,
     Cache!EventsFeed, Cache!EventDetail, Cache!ActiveMeetups,
     Cache!HostDashboard, Cache!EveningRoute, Cache!EveningSessions,
     Cache!RouteTemplates, Cache!AfficheEvents, Cache!AfficheEvent,
     Cache!GroupedSearch, Cache!PlaceSearch, Cache!PlacePromos,
     Cache!AppOverlay, Cache!PaymentsCatalog
<1> QED BY <1>3, <1>4, <1>5, <1>6, <1>7 DEF Cache!Answers

LEMMA PairsFit == \A pair \in Cache!Pairs : PairFits(pair.kept, pair.sweep)
<1>1. ASSUME NEW a \in Cache!Answers, NEW w \in Cache!Writers,
             w = Cache!Elsewhere \/ Cache!Parts(w, a) # {}
      PROVE  PairFits(a.kept, Cache!Pair(a, w).sweep)
  <2> DEFINE parts == Cache!Parts(w, a)
  <2>1. KeptFits(a.kept) /\ SoundWriter(w)
    BY AnswersFit, WritersSound
  <2>2. parts = PartsOf(w.clears, a)
    BY <2>1 DEF Cache!Parts, PartsOf, SoundWriter, Sound
  <2>3. PartsFit(a, parts)
    BY <2>1, <2>2 DEF SoundWriter, Sound
  <2>4. w.early /\ parts # {} => a \in {Cache!Wallet, Cache!Subscription}
    <3> SUFFICES ASSUME w.early, NEW c \in w.clears, c.name = a.name
                 PROVE  a \in {Cache!Wallet, Cache!Subscription}
      BY DEF Cache!Parts
    <3>1. PICK b \in {Cache!Wallet, Cache!Subscription} : c.name = b.name
      BY <2>1 DEF SoundWriter
    <3>2. Cache!Wallet.name = "wallet" /\ Cache!Subscription.name = "subscription"
      BY Zenon, AnswersNamed
    <3>3. a.name = "wallet" \/ a.name = "subscription"
      BY <3>1, <3>2
    <3>4. a.name = "wallet" => a = Cache!Wallet
      BY Zenon, AnswersNamed DEF Cache!Answers
    <3>5. a.name = "subscription" => a = Cache!Subscription
      BY Zenon, AnswersNamed DEF Cache!Answers
    <3> QED BY <3>3, <3>4, <3>5
  <2>5. /\ ~Cache!Wallet.kept.memory /\ Cache!Wallet.kept.version = "none"
        /\ ~Cache!Subscription.kept.redis /\ Cache!Subscription.kept.version = "none"
    BY DEF Cache!Wallet, Cache!Subscription, Cache!Named, Cache!InRedis, Cache!InMemory,
       Cache!Kept
  <2>6. Cache!Pair(a, w).sweep
            = [parts |-> parts, early |-> w.early, owes |-> Cache!Owes(a, w)]
    BY DEF Cache!Pair
  <2>7. Cache!Owes(a, w) \in BOOLEAN
    BY DEF Cache!Owes
  <2>8. Cache!Owes(a, w) =>
            a \notin Cache!LeftInRedis /\ parts \cap {"memory", "redis", "copy"} # {}
    BY DEF Cache!Owes
  <2>9. w.early => parts # {}
    BY <1>1 DEF Cache!Elsewhere, Cache!After
  <2> HIDE DEF parts
  <2>10. PartsFit(a, parts) /\ w.early \in BOOLEAN
    BY <2>1, <2>3 DEF SoundWriter
  <2> QED BY <2>1, <2>4, <2>5, <2>6, <2>7, <2>8, <2>9, <2>10 DEF KeptFits, PartsFit,
      PairFits, PartNames
<1>2. \A a \in Cache!Answers, w \in Cache!Writers : Cache!Pair(a, w).kept = a.kept
  BY DEF Cache!Pair
<1>3. \A pair \in Cache!Pairs : \E a \in Cache!Answers, w \in Cache!Writers :
        pair = Cache!Pair(a, w) /\ (w = Cache!Elsewhere \/ Cache!Parts(w, a) # {})
  BY DEF Cache!Pairs
<1> QED BY <1>1, <1>2, <1>3

-----------------------------------------------------------------------------
(* Values.                                                                  *)

LEMMA PairTyped ==
    ASSUME CacheInv
    PROVE  /\ answer.memory \in BOOLEAN /\ answer.redis \in BOOLEAN
           /\ InRedisFor \in Nat /\ Cache!Lifetime \in Nat /\ Cache!db \in Nat
           /\ answer.memory => Cache!Lifetime = MemoryLife + InRedisFor
           /\ answer.redis => Cache!Lifetime >= 1 + RedisLife
           /\ Cache!Lifetime >= 1
<1>1. /\ answer \in [memory : BOOLEAN, redis : BOOLEAN,
                     version : {"none", "redis", "copied"},
                     memoryFirst : BOOLEAN, joined : BOOLEAN]
      /\ Cache!db \in Nat
  BY DEF CacheInv, PairFits, RowsFit, Cache!db
<1> QED BY <1>1, CachesKnown DEF InRedisFor, Cache!Lifetime

LEMMA CurrentStays ==
    ASSUME RowsFit, NEW v, NEW t \in Int, Current(v, t), t <= clock,
           written' = written \/ written' = Append(written, clock)
    PROVE  Current(v, t)'
<1>1. written \in Seq(Nat) /\ clock \in Nat /\ Cache!db = Len(written) /\ Cache!db \in Nat
  BY DEF RowsFit, Cache!db
<1>2. v \in 0 .. Cache!db /\ (v = Cache!db \/ written[v + 1] >= t)
  BY DEF Current
<1>3. CASE written' = written
  BY <1>1, <1>2, <1>3 DEF Current, Cache!db
<1>4. CASE written' = Append(written, clock)
  <2>1. /\ Cache!db' = Cache!db + 1
        /\ written'[Cache!db + 1] = clock
        /\ \A i \in 1 .. Cache!db : written'[i] = written[i]
    BY <1>1, <1>4 DEF Cache!db
  <2>2. v = Cache!db => written'[v + 1] >= t
    BY <2>1
  <2>3. v # Cache!db => written'[v + 1] >= t
    BY <1>1, <1>2, <2>1
  <2> QED BY <1>1, <1>2, <2>1, <2>2, <2>3 DEF Current
<1> QED BY <1>3, <1>4

LEMMA IdleTyped ==
    /\ Cache!Idle \in CallRows
    /\ Cache!Idle.phase = "idle" /\ ~Cache!Idle.missed /\ ~Cache!Idle.expired
          /\ Cache!Idle.owed = 0
    /\ ~Cache!Idle.failed /\ Cache!Idle.alone
BY CachesKnown DEF Cache!Idle, CallRows, Phases, Cache!Keys

LEMMA AnsweredIdle ==
    ASSUME CacheInv, NEW call \in CallRows, NEW v, NEW t \in Int, Current(v, t),
           t + Cache!Lifetime >= clock, v >= call.owed
    PROVE  Cache!Answered(call, v) = Cache!Idle
<1>1. v \in 0 .. Cache!db /\ Cache!db \in Nat /\ clock \in Nat /\ Cache!Lifetime \in Nat
  BY PairTyped DEF Current, CacheInv, RowsFit
<1>2. Cache!Age(v) <= Cache!Lifetime
  BY <1>1 DEF Cache!Age, Current, CacheInv, RowsFit, Cache!db
<1>3. Cache!Age(v) \in Int
  BY <1>1 DEF Cache!Age, CacheInv, RowsFit, Cache!db
<1>4. (v < call.owed) = FALSE
  BY <1>1 DEF CallRows
<1>5. (Cache!Age(v) > Cache!Lifetime) = FALSE
  BY <1>1, <1>2, <1>3
<1>6. Cache!Answered(call, v) = [Cache!Idle EXCEPT !.missed = FALSE, !.expired = FALSE]
  BY <1>4, <1>5 DEF Cache!Answered
<1> QED BY <1>6, IdleTyped DEF CallRows

(* What lives can be had: what a live copy holds is not too old.            *)
LEMMA MemoryAnswers ==
    ASSUME CacheInv, NEW call \in CallRows, NEW p \in CacheProcesses,
           NEW key \in Cache!Keys,
           Cache!Lives(memory[p][key]), Holds(p, key, call.owed)
    PROVE  Cache!Answered(call, memory[p][key].value) = Cache!Idle
<1> DEFINE copy == memory[p][key]
           t == copy.until - MemoryLife - 1 - InRedisFor
<1>1. copy \in CopyRows /\ clock \in Nat
  BY DEF CacheInv, RowsFit
<1>2. Current(copy.value, t) /\ answer.memory
  BY DEF CacheInv, CopiesFit
<1>3. t \in Int /\ t + Cache!Lifetime >= clock
  BY <1>1, <1>2, PairTyped, CachesKnown DEF CopyRows, Cache!Lives
<1>4. copy.value >= call.owed
  BY DEF Holds
<1> HIDE DEF copy, t
<1>5. Cache!Answered(call, copy.value) = Cache!Idle
  BY <1>2, <1>3, <1>4, AnsweredIdle
<1> QED BY <1>5 DEF copy

-----------------------------------------------------------------------------
(* A copy in memory is filled with what Redis has just answered.             *)
Refills(e) == calls[e].phase = "heard" /\ answer.memory

(* Where values go in a step: copies are filled with what a request holds,  *)
(* what is loaded comes from the database, what is heard from Redis.        *)
Flow ==
    /\ clock <= clock' /\ answer' = answer
    /\ written' = written \/ written' = Append(written, clock)
    /\ \A p \in CacheProcesses, key \in Cache!Keys : Cache!Lives(memory[p][key])' =>
          \/ memory'[p][key] = memory[p][key]
          \/ \E e \in AnyCalls : /\ HasLoaded(e) \/ Refills(e)
                                 /\ calls[e].p = p /\ calls[e].key = key
                                 /\ memory'[p][key].value = calls[e].value
    /\ \A key \in Cache!Keys : Cache!Lives(redis[key])' =>
          \/ redis'[key] = redis[key]
          \/ \E e \in AnyCalls : /\ HasLoaded(e) /\ calls[e].key = key
                                 /\ redis'[key].value = calls[e].value
    /\ \A e \in AnyCalls : HasLoaded(e)' =>
          \/ /\ HasLoaded(e) /\ calls'[e].key = calls[e].key
             /\ calls'[e].value = calls[e].value
          \/ calls'[e].value = Cache!db
    /\ \A e \in AnyCalls : (calls[e].phase = "heard")' =>
          /\ calls'[e].p = calls[e].p /\ calls'[e].key = calls[e].key
          /\ \/ calls[e].phase = "heard" /\ calls'[e].value = calls[e].value
             \/ /\ Cache!Lives(redis[calls[e].key])
                /\ calls'[e].value = redis[calls[e].key].value

LEMMA HoldsStays ==
    ASSUME CacheInv, Flow, clock' \in Nat, NEW p \in CacheProcesses,
           NEW key \in Cache!Keys, NEW n \in Int,
           n <= Cache!db, Holds(p, key, n)
    PROVE  Holds(p, key, n)'
<1>0. clock \in Nat /\ clock <= clock'
  BY DEF CacheInv, RowsFit, Flow, Refills
<1>1. Cache!Lives(memory[p][key])' => memory'[p][key].value >= n
  <2> SUFFICES ASSUME Cache!Lives(memory[p][key])' PROVE memory'[p][key].value >= n
    OBVIOUS
  <2>1. CASE memory'[p][key] = memory[p][key]
    <3>1. memory[p][key] \in CopyRows
      BY DEF CacheInv, RowsFit
    <3>2. Cache!Lives(memory[p][key])
      BY <1>0, <2>1, <3>1 DEF Cache!Lives, CopyRows
    <3> QED BY <2>1, <3>2 DEF Holds
  <2>2. CASE memory'[p][key] # memory[p][key]
    BY <2>2 DEF Flow, Refills, Holds
  <2> QED BY <2>1, <2>2
<1>2. Cache!Lives(redis[key])' => redis'[key].value >= n
  <2> SUFFICES ASSUME Cache!Lives(redis[key])' PROVE redis'[key].value >= n
    OBVIOUS
  <2>1. CASE redis'[key] = redis[key]
    <3>1. redis[key] \in CopyRows
      BY DEF CacheInv, RowsFit
    <3>2. Cache!Lives(redis[key])
      BY <1>0, <2>1, <3>1 DEF Cache!Lives, CopyRows
    <3> QED BY <2>1, <3>2 DEF Holds
  <2>2. CASE redis'[key] # redis[key]
    BY <2>2 DEF Flow, Refills, Holds
  <2> QED BY <2>1, <2>2
<1>3. ASSUME NEW e \in AnyCalls, HasLoaded(e)', calls'[e].key = key
      PROVE  calls'[e].value >= n
  BY <1>3, PairTyped DEF Flow, Refills, Holds
<1>4. ASSUME NEW e \in AnyCalls, (calls[e].phase = "heard")', calls'[e].p = p,
             calls'[e].key = key, answer.memory
      PROVE  calls'[e].value >= n
  BY <1>4 DEF Flow, Refills, Holds
<1>5. answer' = answer
  BY DEF Flow, Refills
<1> QED BY <1>1, <1>2, <1>3, <1>4, <1>5 DEF Holds

(* Nothing is known yet under a version that is still to come.              *)
LEMMA NothingAhead ==
    ASSUME CacheInv, NEW p \in CacheProcesses, NEW key \in Cache!Keys, NEW n \in Int,
           key > stamp
    PROVE  Holds(p, key, n)
<1>1. \A e \in AnyCalls : Cache!Reading(e) =>
          calls[e].key \in Cache!Keys /\ calls[e].key <= stamp
  BY DEF CacheInv, RequestFits, RowsFit, CallRows
<1>2. stamp \in Nat /\ key \in Nat
  BY CachesKnown DEF CacheInv, RowsFit, Cache!Keys
<1>3. \A e \in AnyCalls : HasLoaded(e) \/ calls[e].phase = "heard" => calls[e].key # key
  BY <1>1, <1>2 DEF HasLoaded, Cache!Reading, Cache!Writing, Cache!Busy
<1>4. ~Cache!Lives(memory[p][key]) /\ ~Cache!Lives(redis[key])
  BY <1>2 DEF CacheInv, CopiesFit
<1> QED BY <1>3, <1>4 DEF Holds

(* All have seen the state the behaviour began with.                        *)
LEMMA AllHoldNone ==
    ASSUME CacheInv, NEW p \in CacheProcesses, NEW key \in Cache!Keys
    PROVE  Holds(p, key, 0)
<1>1. \A v, t : Current(v, t) => v \in Int /\ v >= 0
  BY PairTyped DEF Current
<1>2. Cache!Lives(memory[p][key]) => memory[p][key].value >= 0
  BY <1>1 DEF CacheInv, CopiesFit
<1>3. Cache!Lives(redis[key]) => redis[key].value >= 0
  BY <1>1 DEF CacheInv, CopiesFit
<1>4. \A e \in AnyCalls : HasLoaded(e) \/ calls[e].phase = "heard" => calls[e].value >= 0
  BY <1>1 DEF CacheInv, RequestFits
<1> QED BY <1>2, <1>3, <1>4 DEF Holds

-----------------------------------------------------------------------------
(* What a step leaves alone.                                                *)

LEMMA CallTyped ==
    ASSUME CacheInv, NEW d \in AnyCalls
    PROVE  /\ calls[d] \in CallRows
           /\ calls[d].key \in Cache!Keys /\ calls[d].value \in Int /\ calls[d].owed \in Nat
           /\ calls[d].since \in Nat /\ stamp \in Cache!Keys /\ Cache!db \in Nat
                 /\ clock \in Nat
           /\ Cache!Keys \subseteq Nat /\ 0 \in Cache!Keys
           /\ Cache!Busy(d) => calls[d].p \in CacheProcesses
           /\ Cache!Reading(d) => calls[d].owed <= Cache!db /\ calls[d].key <= stamp
           /\ calls[d].phase = "drop" => calls[d].value \in 0 .. Cache!db
           /\ calls[d].phase = "versioned" => calls[d].value \in Cache!Keys
<1>1. calls[d] \in CallRows /\ stamp \in Cache!Keys /\ clock \in Nat /\ RequestFits(d)
          /\ written \in Seq(Nat)
  BY DEF CacheInv, RowsFit
<1>2. Cache!Keys \subseteq Nat /\ 0 \in Cache!Keys
  BY CachesKnown DEF Cache!Keys
<1>3. "copy" \in sweep.parts => ~sweep.early
  BY DEF CacheInv, PairFits
<1>4. calls[d].phase = "drop" => calls[d].value \in 0 .. Cache!db
  BY <1>1, <1>3 DEF RequestFits, Cache!Writing
<1>5. calls[d].phase = "versioned" => calls[d].value \in Cache!Keys
  BY <1>1, CachesKnown DEF RequestFits, Cache!Keys
<1> QED BY <1>1, <1>2, <1>4, <1>5 DEF RequestFits, CallRows, Cache!db

LEMMA ServedStays ==
    ASSUME CacheInv, Flow, clock' \in Nat, stamp' = stamp, NEW d \in AnyCalls,
           calls'[d] = calls[d]
    PROVE  Served(d)'
<1>1. Served(d)
  BY DEF CacheInv
<1>2. calls[d].phase = "version" => Cache!Reading(d) /\ Cache!Busy(d)
  BY DEF Cache!Reading, Cache!Writing, Cache!Busy
<1>3. calls[d].phase = "versioned" => Cache!Reading(d) /\ Cache!Busy(d)
  BY DEF Cache!Reading, Cache!Writing, Cache!Busy
<1>4. Keyed(d) => Cache!Reading(d) /\ Cache!Busy(d)
  BY DEF Keyed, Cache!Reading, Cache!Writing, Cache!Busy
<1>5. calls[d].phase = "drop" => Cache!Busy(d)
  BY DEF Cache!Busy
<1>6. calls[d].phase = "version" => Holds(calls[d].p, stamp, calls[d].owed)'
  BY <1>1, <1>2, CallTyped, HoldsStays DEF Served
<1>7. calls[d].phase = "versioned" => Holds(calls[d].p, calls[d].value, calls[d].owed)'
  BY <1>1, <1>3, CallTyped, HoldsStays DEF Served
<1>8. Keyed(d) => Holds(calls[d].p, calls[d].key, calls[d].owed)'
  BY <1>1, <1>4, CallTyped, HoldsStays DEF Served
<1>9. calls[d].phase = "drop" /\ ~calls[d].failed =>
        Holds(calls[d].p, stamp, calls[d].value)'
  BY <1>1, <1>5, CallTyped, HoldsStays DEF Served
<1>10. Keyed(d)' => Keyed(d)
  BY DEF Keyed
<1> QED BY <1>6, <1>7, <1>8, <1>9, <1>10 DEF Served

LEMMA IdleRequestFits ==
    ASSUME NEW d \in AnyCalls, calls'[d] = Cache!Idle
    PROVE  RequestFits(d)' /\ WaitFits(d)' /\ AloneFits(d)' /\ Served(d)' /\ Cleared(d)'
BY IdleTyped
   DEF RequestFits, WaitFits, AloneFits, Served, Cleared, Cache!Busy, Cache!Reading,
       Cache!Writing, HasLoaded,
       Keyed

-----------------------------------------------------------------------------
(* A request that reads.                                                    *)

LEMMA ReadKeeps ==
    ASSUME CacheInv, Flow, NEW c \in AnyCalls, Cache!Reading(c),
           UNCHANGED <<answer, sweep, stamp, written, clock>>, RowsFit',
           \A d \in AnyCalls \ {c} :
              calls'[d] = calls[d] \/ (calls[d].phase = "wait" /\ calls'[d] = Cache!Idle),
           calls'[c] = Cache!Idle \/ Cache!Reading(c)',
           RequestFits(c)', Served(c)', \A d \in AnyCalls : WaitFits(d)', PendingFits',
               CopiesFit',
           \A p \in CacheProcesses : due'[p] = due[p] \/ due'[p] = 0,
           \A p \in CacheProcesses, key \in Cache!Keys : Valid(p, key)' =>
               Valid(p, key) \/ due'[p] = 0
    PROVE  CacheInv'
<1>0. clock' \in Nat /\ 0 <= Cache!db /\ Cache!db' = Cache!db /\ PairFits(answer, sweep)'
  BY PairTyped DEF CacheInv, RowsFit, Cache!db
<1>1. \A d \in AnyCalls : RequestFits(d)'
  <2> SUFFICES ASSUME NEW d \in AnyCalls \ {c} PROVE RequestFits(d)'
    OBVIOUS
  <2>1. CASE calls'[d] = calls[d]
    <3>1. RequestFits(d)
      BY DEF CacheInv
    <3> QED BY <2>1, <3>1 DEF RequestFits, Cache!Busy, Cache!Reading, Cache!Writing,
        HasLoaded, Current, Cache!db
  <2> QED BY <2>1, IdleRequestFits
<1>2. \A d \in AnyCalls : Served(d)'
  BY <1>0, ServedStays, IdleRequestFits
<1>3. \A d \in AnyCalls : ~(Cache!Writing(d)' /\ calls'[d].alone)
  <2> SUFFICES ASSUME NEW d \in AnyCalls, Cache!Writing(d)', calls'[d].alone PROVE FALSE
    OBVIOUS
  <2>1. d # c
    BY IdleTyped DEF Cache!Reading, Cache!Writing, Cache!Busy
  <2>2. calls'[d] = calls[d]
    BY <2>1, IdleTyped DEF Cache!Writing
  <2>3. AloneFits(d)
    BY DEF CacheInv
  <2> QED BY <2>2, <2>3 DEF AloneFits, Cache!Writing
<1>4. \A d \in AnyCalls : AloneFits(d)' /\ Cleared(d)'
  BY <1>3 DEF AloneFits, Cleared, Cache!Writing
<1>5. DueServed'
  <2> SUFFICES ASSUME NEW p \in CacheProcesses
               PROVE  /\ due'[p] <= Cache!db'
                      /\ \A key \in Cache!Keys : Valid(p, key)' => Holds(p, key, due[p])'
    BY DEF DueServed
  <2>1. due[p] \in Nat /\ due[p] <= Cache!db
    BY DEF CacheInv, DueServed, RowsFit
  <2>2. ASSUME NEW key \in Cache!Keys, Valid(p, key)', due'[p] = due[p]
        PROVE  Holds(p, key, due[p])'
    <3>1. CASE Valid(p, key)
      <4>1. Holds(p, key, due[p])
        BY <3>1 DEF CacheInv, DueServed
      <4> QED BY <1>0, <2>1, <4>1, <2>2, HoldsStays
    <3>2. CASE due'[p] = 0
      <4>1. Holds(p, key, 0)'
        BY <1>0, AllHoldNone, HoldsStays
      <4> QED BY <3>2, <4>1
    <3> QED BY <2>2, <3>1, <3>2
  <2>3. ASSUME NEW key \in Cache!Keys, due'[p] = 0
        PROVE  Holds(p, key, due[p])'
    <3>1. Holds(p, key, 0)'
      BY <1>0, AllHoldNone, HoldsStays
    <3> QED BY <2>3, <3>1
  <2> QED BY <1>0, <2>1, <2>2, <2>3
<1>6. StampFits'
  <2>1. ToPurge' = ToPurge
    BY IdleTyped DEF ToPurge, Cache!Reading, Cache!Writing, Cache!Busy
  <2> QED BY <1>0, <2>1 DEF CacheInv, StampFits
<1> QED BY <1>0, <1>1, <1>2, <1>4, <1>5, <1>6 DEF CacheInv

(* Who waits, and what is pending, waits for a load that is under way.      *)
LEMMA LoadsStay ==
    ASSUME CacheInv, NEW c \in AnyCalls,
           \A d \in AnyCalls \ {c} :
              /\ calls'[d].phase = calls[d].phase /\ calls'[d].on = calls[d].on
              /\ calls'[d].p = calls[d].p /\ calls'[d].key = calls[d].key,
           Loading(c) => /\ Loading(c)' /\ calls'[c].p = calls[c].p
                         /\ calls'[c].key = calls[c].key,
           WaitFits(c)'
    PROVE  (\A d \in AnyCalls : WaitFits(d)') /\ (UNCHANGED <<answer, underWay>> =>
           PendingFits')
<1>1. \A e \in AnyCalls : Loading(e) => /\ Loading(e)' /\ calls'[e].p = calls[e].p
                                        /\ calls'[e].key = calls[e].key
  BY DEF Loading
<1>2. ASSUME NEW d \in AnyCalls \ {c} PROVE WaitFits(d)'
  <2>1. WaitFits(d)
    BY DEF CacheInv
  <2> QED BY <1>1, <2>1 DEF WaitFits
<1>3. ASSUME UNCHANGED <<answer, underWay>> PROVE PendingFits'
  <2> SUFFICES ASSUME NEW p \in CacheProcesses, NEW key \in Cache!Keys,
                      underWay[p][key] # Cache!NoCall
               PROVE  /\ answer.joined /\ Loading(underWay[p][key])'
                      /\ calls'[underWay[p][key]].p = p
                      /\ calls'[underWay[p][key]].key = key
    BY <1>3 DEF PendingFits
  <2>1. underWay[p][key] \in AnyCalls
    BY DEF CacheInv, RowsFit
  <2>2. answer.joined /\ Loading(underWay[p][key]) /\ calls[underWay[p][key]].p = p
          /\ calls[underWay[p][key]].key = key
    BY DEF CacheInv, PendingFits
  <2> QED BY <1>1, <1>3, <2>1, <2>2
<1> QED BY <1>2, <1>3

LEMMA CurrentEarlier ==
    ASSUME CacheInv, NEW v, NEW t \in Int, NEW s \in Int, s <= t, Current(v, t)
    PROVE  Current(v, s)
<1>1. v \in 0 .. Cache!db /\ Cache!db \in Nat /\ \A i \in 1 .. Cache!db : written[i] \in Nat
  BY PairTyped DEF Current, CacheInv, RowsFit, Cache!db
<1> QED BY <1>1 DEF Current

LEMMA CopiesStay ==
    ASSUME CacheInv, UNCHANGED <<answer, memory, redis, copies, stamp, written, clock>>
    PROVE  CopiesFit'
BY DEF CacheInv, CopiesFit, Cache!Lives, Current, InRedisFor, Cache!db

(* What two of the shorthands do to a request.                              *)
Unlike(next, c) == \A d \in AnyCalls \ {c} : next[d] = calls[d]
SameRequest(row, c) ==
    /\ row.p = calls[c].p /\ row.key = calls[c].key /\ row.on = calls[c].on
    /\ row.owed = calls[c].owed /\ row.since = calls[c].since /\ row.alone = calls[c].alone
    /\ row.failed = calls[c].failed /\ row.missed = calls[c].missed
    /\ row.expired = calls[c].expired

LEMMA WithGives ==
    ASSUME CacheInv, NEW c \in AnyCalls, NEW phase \in Phases, NEW value \in Int
    PROVE  /\ Cache!With(c, phase, value) \in [AnyCalls -> CallRows]
           /\ Unlike(Cache!With(c, phase, value), c)
           /\ Cache!With(c, phase, value)[c].phase = phase
           /\ Cache!With(c, phase, value)[c].value = value
           /\ SameRequest(Cache!With(c, phase, value)[c], c)
<1>1. calls \in [AnyCalls -> CallRows]
  BY DEF CacheInv, RowsFit
<1> QED BY <1>1 DEF Cache!With, CallRows, Unlike, SameRequest

LEMMA StepGives ==
    ASSUME CacheInv, NEW c \in AnyCalls, NEW phase \in Phases
    PROVE  /\ Cache!Step(c, phase) \in [AnyCalls -> CallRows]
           /\ Unlike(Cache!Step(c, phase), c)
           /\ Cache!Step(c, phase)[c].phase = phase
           /\ Cache!Step(c, phase)[c].value = calls[c].value
           /\ SameRequest(Cache!Step(c, phase)[c], c)
<1>1. calls \in [AnyCalls -> CallRows]
  BY DEF CacheInv, RowsFit
<1> QED BY <1>1 DEF Cache!Step, CallRows, Unlike, SameRequest

LEMMA HearVersionKeeps ==
    ASSUME CacheInv, NEW c \in AnyCalls, Cache!HearVersion(c) PROVE CacheInv'
<1>1. UNCHANGED <<answer, sweep, memory, redis, stamp, copies, underWay, written, clock>>
  BY DEF Cache!HearVersion, Cache!Fixed, Cache!Copies, Cache!Time
<1>2. calls[c].phase = "version" /\ calls[c] \in CallRows /\ RequestFits(c) /\ Served(c)
  BY DEF Cache!HearVersion, CacheInv, RowsFit
<1>3. /\ calls' \in [AnyCalls -> CallRows]
      /\ \A d \in AnyCalls \ {c} : calls'[d] = calls[d]
      /\ calls'[c].phase = "versioned" /\ calls'[c].p = calls[c].p
      /\ calls'[c].key = calls[c].key /\ calls'[c].since = calls[c].since
      /\ calls'[c].missed = calls[c].missed /\ calls'[c].expired = calls[c].expired
      /\ \/ calls'[c].value = stamp /\ calls'[c].owed = calls[c].owed
         \/ calls'[c].value = 0 /\ calls'[c].owed = 0
  <2> DEFINE failed == Cache!With(c, "versioned", 0)
  <2>1. "versioned" \in Phases /\ 0 \in Int /\ stamp \in Int
    BY CallTyped DEF Phases
  <2>2. CASE calls' = Cache!With(c, "versioned", stamp)
    BY <2>1, <2>2, WithGives DEF Unlike, SameRequest
  <2>3. CASE calls' = [failed EXCEPT ![c].owed = 0]
    <3>1. failed \in [AnyCalls -> CallRows] /\ Unlike(failed, c)
              /\ SameRequest(failed[c], c)
            /\ failed[c].phase = "versioned" /\ failed[c].value = 0
      BY <2>1, WithGives
    <3> HIDE DEF failed
    <3> QED BY <2>3, <3>1 DEF Unlike, SameRequest, CallRows
  <2> QED BY <2>2, <2>3 DEF Cache!HearVersion
<1>4. /\ due' \in [CacheProcesses -> Nat]
      /\ \A p \in CacheProcesses : due'[p] = due[p] \/ due'[p] = 0
      /\ \/ calls'[c].value = stamp
         \/ answer.version # "copied"
         \/ calls'[c].value = 0 /\ due'[calls[c].p] = 0
  <2>1. due \in [CacheProcesses -> Nat] /\ calls[c].p \in CacheProcesses
    BY <1>2 DEF CacheInv, RowsFit, RequestFits, Cache!Busy
  <2>2. CASE calls' = Cache!With(c, "versioned", stamp) /\ due' = due
    <3>1. calls'[c].value = stamp
      BY <2>2, CallTyped, WithGives DEF Phases
    <3> QED BY <2>1, <2>2, <3>1
  <2>3. CASE due' = IF answer.version = "copied" THEN [due EXCEPT ![calls[c].p] = 0]
                    ELSE due
    BY <1>3, <2>1, <2>3, CallTyped
  <2> QED BY <2>2, <2>3 DEF Cache!HearVersion
<1>5. Flow
  BY <1>1, <1>3, <1>2, CallTyped DEF Flow, Refills, HasLoaded
<1>6. Cache!Reading(c) /\ Cache!Reading(c)' /\ Cache!Busy(c) /\ Cache!Busy(c)'
  BY <1>2, <1>3 DEF Cache!Reading, Cache!Writing, Cache!Busy
<1>7. RequestFits(c)'
  BY <1>1, <1>2, <1>3, <1>6, CallTyped
     DEF RequestFits, Cache!Busy, Cache!Reading, Cache!Writing, HasLoaded, Cache!db
<1>8. Served(c)'
  <2>1. CASE calls'[c].value = stamp /\ calls'[c].owed = calls[c].owed
    <3>1. Holds(calls[c].p, stamp, calls[c].owed)
      BY <1>2 DEF Served
    <3>2. Holds(calls[c].p, stamp, calls[c].owed)'
      BY <1>1, <1>3, <1>5, <1>6, <2>1, <3>1, CallTyped, HoldsStays
    <3> QED BY <1>1, <1>3, <2>1, <3>2 DEF Served, Keyed
  <2>2. CASE calls'[c].value = 0 /\ calls'[c].owed = 0
    <3>1. Holds(calls[c].p, 0, 0)'
      BY <1>1, <1>3, <1>5, <1>6, CallTyped, AllHoldNone, HoldsStays
    <3> QED BY <1>3, <2>2, <3>1 DEF Served, Keyed
  <2> QED BY <1>3, <2>1, <2>2
<1>9. (\A d \in AnyCalls : WaitFits(d)') /\ PendingFits' /\ CopiesFit'
  BY <1>1, <1>2, <1>3, LoadsStay, CopiesStay DEF WaitFits, Loading
<1>10. RowsFit'
  BY <1>1, <1>3, <1>4 DEF CacheInv, RowsFit
<1>11. ASSUME NEW p \in CacheProcesses, NEW key \in Cache!Keys,
              Valid(p, key)', ~Valid(p, key)
       PROVE  due'[p] = 0
  <2>1. PICK d \in AnyCalls : /\ answer.version = "copied" /\ calls'[d].phase = "versioned"
                              /\ calls'[d].p = p /\ calls'[d].value = key
    BY <1>1, <1>11 DEF Valid, Cache!Lives
  <2>2. d = c /\ key # stamp
    BY <1>1, <1>3, <1>11, <2>1 DEF Valid
  <2> QED BY <1>3, <1>4, <2>1, <2>2
<1> QED
  BY <1>1, <1>3, <1>4, <1>5, <1>6, <1>7, <1>8, <1>9, <1>10, <1>11, ReadKeeps

LEMMA HearRedisKeeps ==
    ASSUME CacheInv, NEW c \in AnyCalls, Cache!HearRedis(c) PROVE CacheInv'
<1>1. UNCHANGED <<answer, sweep, memory, redis, stamp, copies, underWay,
                  written, clock, due>>
  BY DEF Cache!HearRedis, Cache!Fixed, Cache!Copies, Cache!Time
<1>2. calls[c].phase = "ask" /\ calls[c] \in CallRows /\ RequestFits(c) /\ Served(c)
  BY DEF Cache!HearRedis, CacheInv, RowsFit
<1>0. redis[calls[c].key] \in CopyRows
  BY CallTyped DEF CacheInv, RowsFit
<1>3. /\ calls' \in [AnyCalls -> CallRows]
      /\ \A d \in AnyCalls \ {c} : calls'[d] = calls[d]
      /\ calls'[c].p = calls[c].p /\ calls'[c].owed = calls[c].owed
      /\ calls'[c].key = calls[c].key /\ calls'[c].since = calls[c].since
      /\ calls'[c].missed = calls[c].missed /\ calls'[c].expired = calls[c].expired
      /\ \/ /\ calls'[c].phase = "heard" /\ Cache!Lives(redis[calls[c].key])
            /\ calls'[c].value = redis[calls[c].key].value
         \/ calls'[c].phase = "join"
  <2>1. redis[calls[c].key].value \in Int /\ {"heard", "join"} \subseteq Phases
    BY <1>0 DEF CopyRows, Phases
  <2>2. CASE calls' = Cache!With(c, "heard", redis[calls[c].key].value)
            /\ Cache!Lives(redis[calls[c].key])
    BY <2>1, <2>2, WithGives DEF Unlike, SameRequest
  <2>3. CASE calls' = Cache!Step(c, "join")
    BY <2>1, <2>3, StepGives DEF Unlike, SameRequest
  <2> QED BY <2>2, <2>3 DEF Cache!HearRedis
<1>5. Flow
  BY <1>1, <1>3, <1>2, CallTyped DEF Flow, Refills, HasLoaded
<1>6. Cache!Reading(c) /\ Cache!Reading(c)' /\ Cache!Busy(c) /\ Cache!Busy(c)' /\ Keyed(c)
  BY <1>2, <1>3 DEF Cache!Reading, Cache!Writing, Cache!Busy, Keyed
<1>7. RequestFits(c)'
  <2>1. calls'[c].phase = "heard" =>
          /\ Current(calls[c].value, calls[c].since - RedisLife)'
          /\ calls'[c].value >= calls'[c].owed
    <3> SUFFICES ASSUME calls'[c].phase = "heard"
                 PROVE  /\ Current(calls[c].value, calls[c].since - RedisLife)'
                        /\ calls'[c].value >= calls'[c].owed
      OBVIOUS
    <3>1. Cache!Lives(redis[calls[c].key]) /\ calls'[c].value = redis[calls[c].key].value
      BY <1>3
    <3>2. Current(redis[calls[c].key].value, redis[calls[c].key].until - RedisLife - 1)
      BY <3>1, CallTyped DEF CacheInv, CopiesFit
    <3>3. redis[calls[c].key].until > clock /\ calls[c].since <= clock
      BY <1>2, <1>6, <3>1 DEF Cache!Lives, RequestFits
    <3>4. redis[calls[c].key].value >= calls[c].owed
      BY <1>2, <1>6, <3>1 DEF Served, Holds
    <3>5. Current(redis[calls[c].key].value, calls[c].since - RedisLife)
      BY <1>0, <3>2, <3>3, CallTyped, CachesKnown, CurrentEarlier DEF CopyRows
    <3> QED BY <1>1, <1>3, <3>1, <3>4, <3>5 DEF Current, Cache!db
  <2> QED
    BY <1>1, <1>2, <1>3, <1>6, <2>1, CallTyped
       DEF RequestFits, Cache!Busy, Cache!Reading, Cache!Writing, HasLoaded, Cache!db
<1>8. Served(c)'
  <2>1. Holds(calls[c].p, calls[c].key, calls[c].owed)
    BY <1>2, <1>6 DEF Served
  <2>2. Holds(calls[c].p, calls[c].key, calls[c].owed)'
    BY <1>1, <1>3, <1>5, <1>6, <2>1, CallTyped, HoldsStays
  <2> QED BY <1>3, <2>2 DEF Served
<1>9. (\A d \in AnyCalls : WaitFits(d)') /\ PendingFits' /\ CopiesFit'
  BY <1>1, <1>2, <1>3, LoadsStay, CopiesStay DEF WaitFits, Loading
<1>10. RowsFit'
  BY <1>1, <1>3 DEF CacheInv, RowsFit
<1>11. \A p \in CacheProcesses, key \in Cache!Keys : Valid(p, key)' => Valid(p, key)
  BY <1>1, <1>3 DEF Valid, Cache!Lives
<1> QED
  BY <1>1, <1>3, <1>5, <1>6, <1>7, <1>8, <1>9, <1>10, <1>11, ReadKeeps

-----------------------------------------------------------------------------
(* Copies that are filled.                                                  *)

Filling(p, key, value) == [memory EXCEPT ![p][key] = Cache!Copy(value, MemoryLife)]

LEMMA MemoryFilled ==
    ASSUME CacheInv, NEW p \in CacheProcesses, NEW key \in Cache!Keys, key
        <= stamp, answer.memory,
           NEW v, NEW t \in Int, Current(v, t), t + 1 + InRedisFor >= clock,
           memory' = Filling(p, key, v),
           UNCHANGED <<answer, redis, copies, stamp, written, clock>>
    PROVE  /\ CopiesFit'
           /\ memory' \in [CacheProcesses -> [Cache!Keys -> CopyRows]]
           /\ \A q \in CacheProcesses, k \in Cache!Keys :
                 memory'[q][k] = memory[q][k]
                 \/ (q = p /\ k = key /\ memory'[q][k].value = v)
<1> DEFINE copy == Cache!Copy(v, MemoryLife)
<1>1. memory \in [CacheProcesses -> [Cache!Keys -> CopyRows]] /\ clock \in Nat
          /\ InRedisFor \in Nat
        /\ v \in Int /\ Cache!db \in Nat
  BY PairTyped DEF CacheInv, RowsFit, Current
<1>2. copy \in CopyRows /\ copy.value = v /\ copy.until = clock + MemoryLife
  BY <1>1, CachesKnown DEF Cache!Copy, CopyRows
<1> HIDE DEF copy
<1>3. memory' \in [CacheProcesses -> [Cache!Keys -> CopyRows]]
  BY <1>1, <1>2 DEF copy, Filling
<1>4. \A q \in CacheProcesses, k \in Cache!Keys :
        memory'[q][k] = IF q = p /\ k = key THEN copy ELSE memory[q][k]
  BY <1>1 DEF copy, Filling
<1>5. Current(v, clock - 1 - InRedisFor)
  BY <1>1, CurrentEarlier
<1>6. copy.until - MemoryLife - 1 - InRedisFor = clock - 1 - InRedisFor
  BY <1>1, <1>2, CachesKnown
<1>7. ASSUME NEW q \in CacheProcesses, NEW k \in Cache!Keys, Cache!Lives(memory[q][k])'
      PROVE  /\ answer.memory' /\ k <= stamp
             /\ memory'[q][k].until <= clock + MemoryLife
             /\ Current(memory'[q][k].value,
                        memory'[q][k].until - MemoryLife - 1 - InRedisFor)
  <2>1. CASE q = p /\ k = key
    <3>1. memory'[q][k] = copy
      BY <1>4, <2>1
    <3> QED BY <1>1, <1>2, <1>5, <1>6, <2>1, <3>1, CachesKnown
  <2>2. CASE ~(q = p /\ k = key)
    <3>1. memory'[q][k] = memory[q][k]
      BY <1>4, <2>2
    <3>2. Cache!Lives(memory[q][k])
      BY <1>7, <3>1 DEF Cache!Lives
    <3> QED BY <3>1, <3>2 DEF CacheInv, CopiesFit
  <2> QED BY <2>1, <2>2
<1>8. CopiesFit'
  BY <1>7 DEF CacheInv, CopiesFit, Cache!Lives, Current, InRedisFor, Cache!db
<1> QED BY <1>2, <1>3, <1>4, <1>8

LEMMA RedisFilled ==
    ASSUME CacheInv, NEW key \in Cache!Keys, key <= stamp, answer.redis,
           NEW v, NEW t \in Int, Current(v, t), t + 1 >= clock,
           redis' = [redis EXCEPT ![key] = Cache!Copy(v, RedisLife)],
           UNCHANGED <<answer, memory, copies, stamp, written, clock>>
    PROVE  /\ CopiesFit'
           /\ redis' \in [Cache!Keys -> CopyRows]
           /\ \A k \in Cache!Keys :
                 redis'[k] = redis[k] \/ (k = key /\ redis'[k].value = v)
<1> DEFINE copy == Cache!Copy(v, RedisLife)
<1>1. redis \in [Cache!Keys -> CopyRows] /\ clock \in Nat /\ v \in Int /\ Cache!db \in Nat
  BY PairTyped DEF CacheInv, RowsFit, Current
<1>2. copy \in CopyRows /\ copy.value = v /\ copy.until = clock + RedisLife
  BY <1>1, CachesKnown DEF Cache!Copy, CopyRows
<1> HIDE DEF copy
<1>3. redis' \in [Cache!Keys -> CopyRows]
  BY <1>1, <1>2 DEF copy
<1>4. \A k \in Cache!Keys : redis'[k] = IF k = key THEN copy ELSE redis[k]
  BY <1>1 DEF copy
<1>5. Current(v, clock - 1)
  BY <1>1, CurrentEarlier
<1>6. copy.until - RedisLife - 1 = clock - 1
  BY <1>1, <1>2, CachesKnown
<1>7. ASSUME NEW k \in Cache!Keys, Cache!Lives(redis[k])'
      PROVE  /\ answer.redis' /\ k <= stamp
             /\ redis'[k].until <= clock + RedisLife
             /\ Current(redis'[k].value, redis'[k].until - RedisLife - 1)
  <2>1. CASE k = key
    <3>1. redis'[k] = copy
      BY <1>4, <2>1
    <3> QED BY <1>1, <1>2, <1>5, <1>6, <2>1, <3>1, CachesKnown
  <2>2. CASE k # key
    <3>1. redis'[k] = redis[k]
      BY <1>4, <2>2
    <3>2. Cache!Lives(redis[k])
      BY <1>7, <3>1 DEF Cache!Lives
    <3> QED BY <3>1, <3>2 DEF CacheInv, CopiesFit
  <2> QED BY <2>1, <2>2
<1>8. CopiesFit'
  BY <1>7 DEF CacheInv, CopiesFit, Cache!Lives, Current, InRedisFor, Cache!db
<1> QED BY <1>2, <1>3, <1>4, <1>8

(* What a request holds is recent enough to be kept.                        *)
LEMMA LoadedRecent ==
    ASSUME CacheInv, NEW c \in AnyCalls, HasLoaded(c)
    PROVE  /\ Current(calls[c].value, calls[c].since)
           /\ calls[c].since \in Int /\ calls[c].since + 1 >= clock
           /\ calls[c].since + 1 + InRedisFor >= clock
           /\ calls[c].since + Cache!Lifetime >= clock
           /\ Cache!Reading(c) /\ Cache!Busy(c) /\ Keyed(c)
<1>1. Cache!Reading(c) /\ Cache!Busy(c) /\ Keyed(c)
  BY DEF HasLoaded, Cache!Reading, Cache!Writing, Cache!Busy, Keyed
<1>2. RequestFits(c)
  BY DEF CacheInv
<1> QED BY <1>1, <1>2, CallTyped, PairTyped DEF RequestFits

(* A load that is over answers those who wait for it.                       *)
LEMMA DoneGives ==
    ASSUME CacheInv, NEW c \in AnyCalls, HasLoaded(c), Cache!Done(c), answer' = answer
    PROVE  /\ calls' \in [AnyCalls -> CallRows]
           /\ underWay' \in [CacheProcesses -> [Cache!Keys -> AnyCalls \cup {Cache!NoCall}]]
           /\ calls'[c] = Cache!Idle
           /\ \A d \in AnyCalls \ {c} :
                 calls'[d] = calls[d] \/ (calls[d].phase = "wait" /\ calls'[d] = Cache!Idle)
           /\ \A d \in AnyCalls : WaitFits(d)'
           /\ PendingFits'
<1>1. \A d \in AnyCalls : calls[d] \in CallRows
  BY CallTyped
<1>2. ASSUME NEW d \in AnyCalls, d = c \/ (calls[d].phase = "wait" /\ calls[d].on = c)
      PROVE  Cache!Answered(calls[d], calls[c].value) = Cache!Idle
  <2>1. Keyed(d) /\ calls[d].key = calls[c].key
    BY <1>2, LoadedRecent DEF Keyed, CacheInv, WaitFits
  <2>2. Holds(calls[d].p, calls[d].key, calls[d].owed)
    BY <2>1 DEF CacheInv, Served
  <2>3. calls[c].value >= calls[d].owed
    BY <2>1, <2>2 DEF Holds
  <2> QED BY <1>1, <2>3, LoadedRecent, AnsweredIdle
<1>3. \A d \in AnyCalls :
        calls'[d] = IF d = c \/ (calls[d].phase = "wait" /\ calls[d].on = c)
                    THEN Cache!Idle ELSE calls[d]
  BY <1>2 DEF Cache!Done
<1>4. calls' \in [AnyCalls -> CallRows]
  BY <1>1, <1>3, IdleTyped DEF Cache!Done
<1>5. ASSUME NEW e \in AnyCalls, e # c, Loading(e)
      PROVE  calls'[e] = calls[e] /\ Loading(e)'
  BY <1>3, <1>5 DEF Loading
<1>6. ASSUME NEW d \in AnyCalls PROVE WaitFits(d)'
  <2> SUFFICES ASSUME calls'[d].phase = "wait"
               PROVE  WaitFits(d)'
    BY DEF WaitFits
  <2>1. calls'[d] = calls[d] /\ calls[d].on # c
    BY <1>3, IdleTyped
  <2>2. WaitFits(d)
    BY DEF CacheInv
  <2> QED BY <1>5, <2>1, <2>2 DEF WaitFits
<1>7. calls[c].p \in CacheProcesses /\ calls[c].key \in Cache!Keys
  BY LoadedRecent, CallTyped
<1>8. underWay \in [CacheProcesses -> [Cache!Keys -> AnyCalls \cup {Cache!NoCall}]]
  BY DEF CacheInv, RowsFit
<1>9. underWay' \in [CacheProcesses -> [Cache!Keys -> AnyCalls \cup {Cache!NoCall}]]
  BY <1>7, <1>8 DEF Cache!Done
<1>10. ASSUME NEW p \in CacheProcesses, NEW key \in Cache!Keys, NEW e \in AnyCalls,
              underWay'[p][key] = e
       PROVE  /\ answer.joined /\ Loading(e)' /\ calls'[e].p = p /\ calls'[e].key = key
  <2>1. underWay[p][key] = e
    BY <1>7, <1>8, <1>10, CachesKnown DEF Cache!Done
  <2>2. answer.joined /\ Loading(e) /\ calls[e].p = p /\ calls[e].key = key
    BY <1>8, <1>10, <2>1, CachesKnown DEF CacheInv, PendingFits
  <2>3. e # c
    BY <1>7, <1>8, <1>10, <2>2, CachesKnown DEF Cache!Done
  <2> QED BY <1>5, <2>2, <2>3
<1>11. PendingFits'
  <2> SUFFICES ASSUME NEW p \in CacheProcesses, NEW key \in Cache!Keys,
                      underWay'[p][key] # Cache!NoCall
               PROVE  /\ answer.joined' /\ Loading(underWay[p][key])'
                      /\ calls'[underWay'[p][key]].p = p
                      /\ calls'[underWay'[p][key]].key = key
    BY DEF PendingFits
  <2> QED BY <1>9, <1>10
<1> QED BY <1>3, <1>4, <1>6, <1>9, <1>11

-----------------------------------------------------------------------------
(* The steps of a request that reads.                                       *)

LEMMA ReadDatabaseKeeps ==
    ASSUME CacheInv, NEW c \in AnyCalls, Cache!ReadDatabase(c) PROVE CacheInv'
<1>1. UNCHANGED <<answer, sweep, memory, redis, stamp, copies, underWay,
                  written, clock, due>>
  BY DEF Cache!ReadDatabase, Cache!Fixed, Cache!Copies, Cache!Time
<1>2. calls[c].phase = "load" /\ calls[c] \in CallRows /\ RequestFits(c) /\ Served(c)
  BY DEF Cache!ReadDatabase, CacheInv, RowsFit
<1>3. /\ calls' \in [AnyCalls -> CallRows]
      /\ \A d \in AnyCalls \ {c} : calls'[d] = calls[d]
      /\ SameRequest(calls'[c],
            c) /\ calls'[c].phase = "loaded" /\ calls'[c].value = Cache!db
  BY CallTyped, WithGives DEF Cache!ReadDatabase, Phases, Unlike
<1>5. Flow
  BY <1>1, <1>3, <1>2, CallTyped DEF Flow, Refills, HasLoaded
<1>6. Cache!Reading(c) /\ Cache!Reading(c)' /\ Cache!Busy(c) /\ Cache!Busy(c)'
          /\ Keyed(c) /\ Loading(c)'
  BY <1>2, <1>3 DEF Cache!Reading, Cache!Writing, Cache!Busy, Keyed, Loading
<1>7. RequestFits(c)'
  BY <1>1, <1>2, <1>3, <1>6, CallTyped
     DEF RequestFits, Cache!Busy, Cache!Reading, Cache!Writing, HasLoaded, Cache!db,
         SameRequest, Current
<1>8. Served(c)'
  <2>1. Holds(calls[c].p, calls[c].key, calls[c].owed)
    BY <1>2, <1>6 DEF Served
  <2>2. Holds(calls[c].p, calls[c].key, calls[c].owed)'
    BY <1>1, <1>3, <1>5, <1>6, <2>1, CallTyped, HoldsStays DEF SameRequest
  <2> QED BY <1>3, <2>2 DEF Served
<1>9. (\A d \in AnyCalls : WaitFits(d)') /\ PendingFits' /\ CopiesFit'
  BY <1>1, <1>2, <1>3, <1>6, LoadsStay, CopiesStay DEF WaitFits, SameRequest
<1>10. RowsFit'
  BY <1>1, <1>3 DEF CacheInv, RowsFit
<1>11. \A p \in CacheProcesses, key \in Cache!Keys : Valid(p, key)' => Valid(p, key)
  BY <1>1, <1>3 DEF Valid, Cache!Lives
<1> QED
  BY <1>1, <1>3, <1>5, <1>6, <1>7, <1>8, <1>9, <1>10, <1>11, ReadKeeps

(* What a load that goes on keeps.                                          *)
LEMMA LoadGoesOn ==
    ASSUME CacheInv, Flow, NEW c \in AnyCalls, HasLoaded(c),
           calls' \in [AnyCalls -> CallRows],
               \A d \in AnyCalls \ {c} : calls'[d] = calls[d],
           SameRequest(calls'[c], c), calls'[c].value = calls[c].value, HasLoaded(c)',
           answer.redis,
           UNCHANGED <<answer, sweep, stamp, written, clock, underWay, copies, due>>,
           memory' \in [CacheProcesses -> [Cache!Keys -> CopyRows]],
               redis' \in [Cache!Keys -> CopyRows],
           CopiesFit'
    PROVE  CacheInv'
<1>1. Cache!Reading(c) /\ Cache!Busy(c) /\ Keyed(c) /\ RequestFits(c) /\ Served(c)
  BY LoadedRecent DEF CacheInv
<1>2. Cache!Reading(c)' /\ Cache!Busy(c)' /\ Loading(c)'
  BY DEF Cache!Reading, Cache!Writing, Cache!Busy, Loading, HasLoaded
<1>3. /\ calls'[c].p = calls[c].p /\ calls'[c].key = calls[c].key
      /\ calls'[c].owed = calls[c].owed /\ calls'[c].since = calls[c].since
      /\ calls'[c].missed = calls[c].missed /\ calls'[c].expired = calls[c].expired
  BY DEF SameRequest
<1>4. RequestFits(c)'
  BY <1>1, <1>2, <1>3, CallTyped
     DEF RequestFits, Cache!Busy, Cache!Reading, Cache!Writing, HasLoaded, Cache!db, Current
<1>5. Served(c)'
  <2>1. Holds(calls[c].p, calls[c].key, calls[c].owed)
    BY <1>1 DEF Served
  <2>2. Holds(calls[c].p, calls[c].key, calls[c].owed)'
    BY <1>1, <1>3, <2>1, CallTyped, HoldsStays
  <2> QED BY <1>3, <2>2 DEF Served, HasLoaded
<1>6. (\A d \in AnyCalls : WaitFits(d)') /\ PendingFits'
  BY <1>2, <1>3, LoadsStay DEF WaitFits, HasLoaded
<1>7. RowsFit'
  BY DEF CacheInv, RowsFit
<1>8. \A p \in CacheProcesses, key \in Cache!Keys : Valid(p, key)' => Valid(p, key)
  BY DEF Valid, Cache!Lives, HasLoaded
<1> QED BY <1>1, <1>2, <1>4, <1>5, <1>6, <1>7, <1>8, ReadKeeps

LEMMA LoadEnds ==
    ASSUME CacheInv, Flow, NEW c \in AnyCalls, HasLoaded(c), Cache!Done(c),
           UNCHANGED <<answer, sweep, stamp, written, clock, copies, due>>,
           memory' \in [CacheProcesses -> [Cache!Keys -> CopyRows]],
               redis' \in [Cache!Keys -> CopyRows],
           CopiesFit'
    PROVE  CacheInv'
<1>1. Cache!Reading(c)
  BY LoadedRecent
<1>2. RowsFit'
  BY DoneGives DEF CacheInv, RowsFit
<1>3. \A p \in CacheProcesses, key \in Cache!Keys : Valid(p, key)' => Valid(p, key)
  BY DoneGives, IdleTyped DEF Valid, Cache!Lives
<1> QED BY <1>1, <1>2, <1>3, DoneGives, IdleRequestFits, ReadKeeps

LEMMA StoreInRedisKeeps ==
    ASSUME CacheInv, NEW c \in AnyCalls, Cache!StoreInRedis(c) PROVE CacheInv'
<1>1. UNCHANGED <<answer, sweep, memory, stamp, copies, underWay, written, clock, due>>
  BY DEF Cache!StoreInRedis, Cache!Fixed, Cache!Time
<1>2. HasLoaded(c) /\ calls[c].key \in Cache!Keys /\ calls[c].key <= stamp /\ answer.redis
  BY LoadedRecent, CallTyped DEF Cache!StoreInRedis, HasLoaded, CacheInv, RequestFits
<1>3. /\ calls' \in [AnyCalls -> CallRows]
      /\ \A d \in AnyCalls \ {c} : calls'[d] = calls[d]
      /\ SameRequest(calls'[c], c) /\ calls'[c].phase = "stored"
      /\ calls'[c].value = calls[c].value
  BY StepGives DEF Cache!StoreInRedis, Phases, Unlike
<1>4. /\ CopiesFit' /\ redis' \in [Cache!Keys -> CopyRows]
      /\ \A k \in Cache!Keys :
            redis'[k] = redis[k] \/ (k = calls[c].key /\ redis'[k].value = calls[c].value)
  <2>1. CASE redis' = [redis EXCEPT ![calls[c].key] = Cache!Copy(calls[c].value, RedisLife)]
    BY ZenonT(40), <1>1, <1>2, <2>1, LoadedRecent, RedisFilled
  <2>2. CASE redis' = redis
    BY <1>1, <2>2, CopiesStay DEF CacheInv, RowsFit
  <2> QED BY <2>1, <2>2 DEF Cache!StoreInRedis
<1>5. Flow
  <2>1. \A k \in Cache!Keys : Cache!Lives(redis[k])' =>
          \/ redis'[k] = redis[k]
          \/ \E e \in AnyCalls : /\ HasLoaded(e) /\ calls[e].key = k
                                 /\ redis'[k].value = calls[e].value
    BY <1>2, <1>4
  <2> QED BY <1>1, <1>2, <1>3, <2>1, CallTyped DEF Flow, Refills, HasLoaded, SameRequest
<1>6. HasLoaded(c)'
  BY <1>3 DEF HasLoaded
<1> QED BY <1>1, <1>2, <1>3, <1>4, <1>5, <1>6, LoadGoesOn DEF CacheInv, RowsFit

LEMMA FilledFits ==
    ASSUME CacheInv, NEW c \in AnyCalls, HasLoaded(c),
           \/ memory' = memory
           \/ answer.memory /\ memory' = Cache!Filled(calls[c]),
           UNCHANGED <<answer, redis, copies, stamp, written, clock>>
    PROVE  /\ CopiesFit' /\ memory' \in [CacheProcesses -> [Cache!Keys -> CopyRows]]
           /\ \A p \in CacheProcesses, key \in Cache!Keys :
                 \/ memory'[p][key] = memory[p][key]
                 \/ /\ p = calls[c].p /\ key = calls[c].key
                    /\ memory'[p][key].value = calls[c].value
<1>1. calls[c].p \in CacheProcesses /\ calls[c].key \in Cache!Keys /\ calls[c].key <= stamp
  BY LoadedRecent, CallTyped
<1>2. CASE memory' = memory
  BY <1>2, CopiesStay DEF CacheInv, RowsFit
<1>3. CASE answer.memory /\ memory' = Cache!Filled(calls[c])
  <2> DEFINE v == calls[c].value
             t == calls[c].since
             p == calls[c].p
             key == calls[c].key
  <2>1. /\ Current(v, t) /\ t \in Int /\ t + 1 + InRedisFor >= clock
        /\ p \in CacheProcesses /\ key \in Cache!Keys /\ key <= stamp
    BY <1>1, LoadedRecent
  <2>2. memory' = Filling(p, key, v)
    BY <1>3 DEF Cache!Filled, Filling
  <2> HIDE DEF v, t, p, key
  <2>3. /\ CopiesFit' /\ memory' \in [CacheProcesses -> [Cache!Keys -> CopyRows]]
        /\ \A q \in CacheProcesses, k \in Cache!Keys :
              memory'[q][k] = memory[q][k]
              \/ (q = p /\ k = key /\ memory'[q][k].value = v)
    BY <1>3, <2>1, <2>2, MemoryFilled
  <2> QED BY <2>3 DEF p, key, v
<1> QED BY <1>2, <1>3

LEMMA LoadedKeeps ==
    ASSUME CacheInv, NEW c \in AnyCalls, Cache!Loaded(c) PROVE CacheInv'
<1>1. UNCHANGED <<answer, sweep, redis, stamp, copies, written, clock, due>>
  BY DEF Cache!Loaded, Cache!Fixed, Cache!Time
<1>2. HasLoaded(c)
  BY DEF Cache!Loaded, HasLoaded
<1>3. memory' = memory \/ (answer.memory /\ memory' = Cache!Filled(calls[c]))
  BY DEF Cache!Loaded
<1>4. redis' \in [Cache!Keys -> CopyRows]
  BY <1>1 DEF CacheInv, RowsFit
<1>5. CASE answer.redis
  <2>1. /\ calls' \in [AnyCalls -> CallRows]
        /\ \A d \in AnyCalls \ {c} : calls'[d] = calls[d]
        /\ SameRequest(calls'[c], c) /\ calls'[c].phase = "store"
        /\ calls'[c].value = calls[c].value
    BY <1>5, StepGives DEF Cache!Loaded, Phases, Unlike
  <2>2. Flow
    BY <1>1, <1>2, <1>3, <2>1, CallTyped, FilledFits DEF Flow, Refills, HasLoaded,
       SameRequest
  <2>3. HasLoaded(c)' /\ underWay' = underWay
    BY <1>5, <2>1 DEF HasLoaded, Cache!Loaded
  <2> QED BY <1>1, <1>2, <1>3, <1>4, <1>5, <2>1, <2>2, <2>3, FilledFits, LoadGoesOn
<1>6. CASE ~answer.redis
  <2>1. Cache!Done(c)
    BY <1>6 DEF Cache!Loaded
  <2>2. Flow
    BY <1>1, <1>2, <1>3, <2>1, CallTyped, FilledFits, DoneGives, IdleTyped DEF Flow,
       Refills, HasLoaded
  <2> QED BY <1>1, <1>2, <1>3, <1>4, <2>1, <2>2, FilledFits, LoadEnds
<1> QED BY <1>5, <1>6

LEMMA StoredKeeps ==
    ASSUME CacheInv, NEW c \in AnyCalls, Cache!Stored(c) PROVE CacheInv'
<1>1. UNCHANGED <<answer, sweep, redis, stamp, copies, written, clock, due>>
          /\ Cache!Done(c)
  BY DEF Cache!Stored, Cache!Fixed, Cache!Time
<1>2. HasLoaded(c)
  BY DEF Cache!Stored, HasLoaded
<1>3. memory' = memory \/ (answer.memory /\ memory' = Cache!Filled(calls[c]))
  BY DEF Cache!Stored
<1>4. redis' \in [Cache!Keys -> CopyRows]
  BY <1>1 DEF CacheInv, RowsFit
<1>5. Flow
  BY <1>1, <1>2, <1>3, CallTyped, FilledFits, DoneGives, IdleTyped DEF Flow, Refills,
     HasLoaded
<1> QED BY <1>1, <1>2, <1>3, <1>4, <1>5, FilledFits, LoadEnds

LEMMA RefillKeeps ==
    ASSUME CacheInv, NEW c \in AnyCalls, Cache!Refill(c) PROVE CacheInv'
<1> DEFINE v == calls[c].value
           t == calls[c].since - RedisLife
           p == calls[c].p
           key == calls[c].key
<1>1. UNCHANGED <<answer, sweep, redis, stamp, copies, underWay, written, clock, due>>
  BY DEF Cache!Refill, Cache!Fixed, Cache!Time
<1>2. /\ calls[c].phase = "heard" /\ calls[c] \in CallRows /\ calls[c].since \in Nat
      /\ RequestFits(c) /\ Served(c) /\ Cache!Reading(c) /\ Cache!Busy(c) /\ Keyed(c)
            /\ answer.redis
  BY CallTyped DEF Cache!Refill, CacheInv, RequestFits, Cache!Reading, Cache!Writing,
     Cache!Busy, Keyed
<1>3. /\ Current(v, t) /\ t \in Int /\ v >= calls[c].owed
      /\ t + 1 + RedisLife >= clock /\ clock \in Nat
      /\ p \in CacheProcesses /\ key \in Cache!Keys /\ key <= stamp
  BY <1>2, CallTyped, CachesKnown DEF RequestFits
<1>4. t + Cache!Lifetime >= clock /\ t + 1 + InRedisFor >= clock
  BY <1>2, <1>3, CachesKnown, PairTyped DEF InRedisFor
<1>5. /\ \/ memory' = memory
         \/ answer.memory /\ memory' = Filling(p, key, v)
      /\ calls' = [calls EXCEPT ![c] = Cache!Answered(calls[c], v)]
  BY DEF Cache!Refill, Filling
<1> HIDE DEF v, t, p, key
<1>6. Cache!Answered(calls[c], v) = Cache!Idle
  BY <1>2, <1>3, <1>4, AnsweredIdle
<1>7. /\ calls' \in [AnyCalls -> CallRows] /\ calls'[c] = Cache!Idle
      /\ \A d \in AnyCalls \ {c} : calls'[d] = calls[d]
  BY <1>5, <1>6, IdleTyped DEF CacheInv, RowsFit
<1>8. /\ CopiesFit' /\ memory' \in [CacheProcesses -> [Cache!Keys -> CopyRows]]
      /\ \A q \in CacheProcesses, k \in Cache!Keys :
            \/ memory'[q][k] = memory[q][k]
            \/ answer.memory /\ q = p /\ k = key /\ memory'[q][k].value = v
  <2>1. CASE memory' = memory
    BY <1>1, <2>1, CopiesStay DEF CacheInv, RowsFit
  <2>2. CASE answer.memory /\ memory' = Filling(p, key, v)
    BY <1>1, <1>3, <1>4, <2>2, MemoryFilled
  <2> QED BY <1>5, <2>1, <2>2
<1>9. Flow
  <2>1. \A q \in CacheProcesses, k \in Cache!Keys : Cache!Lives(memory[q][k])' =>
          \/ memory'[q][k] = memory[q][k]
          \/ \E e \in AnyCalls : /\ HasLoaded(e) \/ Refills(e)
                                 /\ calls[e].p = q /\ calls[e].key = k
                                 /\ memory'[q][k].value = calls[e].value
    BY <1>2, <1>8 DEF v, p, key, Refills
  <2> QED BY <1>1, <1>7, <2>1, CallTyped, IdleTyped DEF Flow, Refills, HasLoaded
<1>10. (\A d \in AnyCalls : WaitFits(d)') /\ PendingFits'
  BY <1>1, <1>2, <1>7, IdleRequestFits, LoadsStay DEF Loading
<1>11. RowsFit'
  BY <1>1, <1>7, <1>8 DEF CacheInv, RowsFit
<1>12. \A q \in CacheProcesses, k \in Cache!Keys : Valid(q, k)' => Valid(q, k)
  BY <1>1, <1>7, IdleTyped DEF Valid, Cache!Lives
<1> QED
  BY <1>1, <1>2, <1>7, <1>8, <1>9, <1>10, <1>11, <1>12, IdleRequestFits, ReadKeeps

(* What comes of a look at the memory.                                      *)
LookedAt(row, call, k) ==
    /\ row \in CallRows
    /\ row.phase = IF answer.redis THEN "ask" ELSE "join"
    /\ row.key = k /\ row.p = call.p /\ row.owed = call.owed /\ row.since = call.since
    /\ row.missed = call.missed /\ row.expired = call.expired

LEMMA LookGives ==
    ASSUME CacheInv, NEW call \in CallRows, call.p \in CacheProcesses,
           NEW key \in Cache!Keys,
           Holds(call.p, key, call.owed)
    PROVE  Cache!Look(call, key) = Cache!Idle \/ LookedAt(Cache!Look(call, key), call, key)
<1> DEFINE at == [call EXCEPT !.key = key]
<1>1. at \in CallRows /\ at.owed = call.owed
  BY DEF CallRows
<1>2. CASE answer.memory /\ Cache!Lives(memory[call.p][key])
  <2>1. Cache!Look(call, key) = Cache!Answered(at, memory[call.p][key].value)
    BY <1>2 DEF Cache!Look
  <2> HIDE DEF at
  <2>2. Cache!Answered(at, memory[call.p][key].value) = Cache!Idle
    BY <1>1, <1>2, MemoryAnswers
  <2> QED BY <2>1, <2>2
<1>3. CASE ~(answer.memory /\ Cache!Lives(memory[call.p][key]))
  <2> DEFINE phase == IF answer.redis THEN "ask" ELSE "join"
             row == [at EXCEPT !.phase = phase]
  <2>1. Cache!Look(call, key) = row
    BY <1>3 DEF Cache!Look
  <2>2. phase \in Phases
    BY DEF Phases
  <2>3. LookedAt(row, call, key)
    BY <1>1, <2>2 DEF LookedAt, CallRows
  <2> QED BY <2>1, <2>3
<1> QED BY <1>2, <1>3

LEMMA TakeVersionKeeps ==
    ASSUME CacheInv, NEW c \in AnyCalls, Cache!TakeVersion(c) PROVE CacheInv'
<1> DEFINE v == calls[c].value
           p == calls[c].p
<1>1. UNCHANGED <<answer, sweep, memory, redis, stamp, underWay, written, clock, due>>
  BY DEF Cache!TakeVersion, Cache!Fixed, Cache!Time
<1>2. /\ calls[c].phase = "versioned" /\ calls[c] \in CallRows /\ RequestFits(c)
          /\ Served(c)
      /\ Cache!Reading(c) /\ Cache!Busy(c)
  BY DEF Cache!TakeVersion, CacheInv, RowsFit, Cache!Reading, Cache!Writing, Cache!Busy
<1>3. /\ v \in Cache!Keys /\ v \in 0 .. stamp /\ p \in CacheProcesses
          /\ Holds(p, v, calls[c].owed)
      /\ stamp \in Nat /\ clock \in Nat
  BY <1>2, CallTyped DEF RequestFits, Served
<1>4. Cache!Look(calls[c], v) = Cache!Idle \/ LookedAt(Cache!Look(calls[c], v), calls[c], v)
  BY <1>2, <1>3, LookGives
<1>5. calls' = [calls EXCEPT ![c] = Cache!Look(calls[c], v)]
  BY DEF Cache!TakeVersion
<1>6. /\ calls' \in [AnyCalls -> CallRows] /\ \A d \in AnyCalls \ {c} : calls'[d] = calls[d]
      /\ calls'[c] = Cache!Idle \/ LookedAt(calls'[c], calls[c], v)
  <2> HIDE DEF v
  <2> QED BY <1>4, <1>5, IdleTyped DEF CacheInv, RowsFit, LookedAt
<1>7. /\ copies' \in [CacheProcesses -> CopyRows]
      /\ \A q \in CacheProcesses : \/ copies'[q] = copies[q]
                                   \/ answer.version = "copied" /\ q = p
                                         /\ copies'[q].value = v
  <2> DEFINE copy == Cache!Copy(v, CopyLife)
  <2>1. copy \in CopyRows /\ copy.value = v
    BY <1>3, CachesKnown DEF Cache!Copy, CopyRows
  <2>2. \/ copies' = copies
        \/ answer.version = "copied" /\ copies' = [copies EXCEPT ![p] = copy]
    BY DEF Cache!TakeVersion
  <2>3. copies \in [CacheProcesses -> CopyRows]
    BY DEF CacheInv, RowsFit
  <2> HIDE DEF copy, v, p
  <2> QED BY <1>3, <2>1, <2>2, <2>3
<1> HIDE DEF v, p
<1>8. CopiesFit'
  <2>1. \A q \in CacheProcesses : Cache!Lives(copies[q])' => copies'[q].value \in 0 .. stamp
    BY <1>1, <1>3, <1>7 DEF CacheInv, CopiesFit, Cache!Lives
  <2>2. \A q \in CacheProcesses, k \in Cache!Keys : Cache!Lives(memory[q][k])' =>
          /\ answer.memory /\ k <= stamp
          /\ memory[q][k].until <= clock + MemoryLife
          /\ Current(memory[q][k].value,
                     memory[q][k].until - MemoryLife - 1 - InRedisFor)
    BY <1>1 DEF CacheInv, CopiesFit, Cache!Lives
  <2>3. \A k \in Cache!Keys : Cache!Lives(redis[k])' =>
          /\ answer.redis /\ k <= stamp
          /\ redis[k].until <= clock + RedisLife
          /\ Current(redis[k].value, redis[k].until - RedisLife - 1)
    BY <1>1 DEF CacheInv, CopiesFit, Cache!Lives
  <2> QED BY <1>1, <2>1, <2>2, <2>3 DEF CopiesFit, Current, InRedisFor, Cache!db
<1>9. Flow
  BY <1>1, <1>6, IdleTyped, CallTyped DEF Flow, Refills, HasLoaded, LookedAt
<1>10. (\A d \in AnyCalls : WaitFits(d)') /\ PendingFits'
  <2>1. WaitFits(c)'
    BY <1>6, IdleTyped DEF WaitFits, LookedAt
  <2> QED BY <1>1, <1>2, <1>6, <2>1, LoadsStay DEF Loading
<1>11. RowsFit'
  BY <1>1, <1>6, <1>7 DEF CacheInv, RowsFit
<1>12. \A q \in CacheProcesses, k \in Cache!Keys : Valid(q, k)' => Valid(q, k)
  <2>1. ASSUME NEW q \in CacheProcesses, NEW k \in Cache!Keys, Valid(q, k)'
        PROVE  Valid(q, k)
    <3>1. CASE k = stamp'
      BY <1>1, <3>1 DEF Valid
    <3>2. CASE answer.version = "copied" /\ Cache!Lives(copies[q])' /\ copies'[q].value = k
      <4>1. CASE copies'[q] = copies[q]
        BY <1>1, <3>2, <4>1 DEF Valid, Cache!Lives
      <4>2. CASE copies'[q] # copies[q]
        BY <1>2, <1>7, <3>2, <4>2 DEF Valid, v, p
      <4> QED BY <4>1, <4>2
    <3>3. ASSUME NEW d \in AnyCalls, answer.version = "copied",
                 calls'[d].phase = "versioned",
                 calls'[d].p = q, calls'[d].value = k
          PROVE  Valid(q, k)
      <4>1. d # c
        BY <1>6, <3>3, IdleTyped DEF LookedAt
      <4> QED BY <1>6, <3>3, <4>1 DEF Valid
    <3> QED BY <1>1, <2>1, <3>1, <3>2, <3>3 DEF Valid
  <2> QED BY <2>1
<1>13. calls'[c] = Cache!Idle \/ Cache!Reading(c)'
  BY <1>6 DEF Cache!Reading, Cache!Writing, Cache!Busy, LookedAt
<1>14. RequestFits(c)' /\ Served(c)'
  <2>1. CASE LookedAt(calls'[c], calls[c], v)
    <3>0. PICK q \in CacheProcesses, k \in Cache!Keys, n \in Nat :
                q = p /\ k = v /\ n = calls[c].owed /\ n <= Cache!db
      BY <1>2, <1>3, CallTyped
    <3>1. Holds(q, k, n)'
      BY <1>1, <1>3, <1>9, <3>0, HoldsStays
    <3>2. Served(c)'
      BY <2>1, <3>0, <3>1 DEF Served, Keyed, LookedAt, p
    <3>3. Cache!Busy(c)' /\ Cache!Reading(c)' /\ ~Cache!Writing(c)' /\ ~HasLoaded(c)'
      BY <2>1 DEF Cache!Reading, Cache!Writing, Cache!Busy, LookedAt, HasLoaded
    <3>4. RequestFits(c)'
      BY <1>1, <1>2, <1>3, <2>1, <3>3, CallTyped DEF RequestFits, LookedAt, Cache!db, p
    <3> QED BY <3>2, <3>4
  <2> QED BY <1>6, <2>1, IdleRequestFits
<1> QED
  BY <1>1, <1>2, <1>6, <1>8, <1>9, <1>10, <1>11, <1>12, <1>13, <1>14, ReadKeeps

LEMMA JoinKeeps ==
    ASSUME CacheInv, NEW c \in AnyCalls, Cache!Join(c) PROVE CacheInv'
<1> DEFINE p == calls[c].p
           key == calls[c].key
<1>1. UNCHANGED <<answer, sweep, memory, redis, stamp, copies, written, clock, due>>
  BY DEF Cache!Join, Cache!Fixed, Cache!Time
<1>2. /\ calls[c].phase = "join" /\ calls[c] \in CallRows /\ RequestFits(c) /\ Served(c)
      /\ Cache!Reading(c) /\ Cache!Busy(c) /\ Keyed(c) /\ p \in CacheProcesses
            /\ key \in Cache!Keys
  BY CallTyped DEF Cache!Join, CacheInv, RowsFit, Cache!Reading, Cache!Writing, Cache!Busy,
     Keyed
<1>3. underWay \in [CacheProcesses -> [Cache!Keys -> AnyCalls \cup {Cache!NoCall}]]
          /\ calls \in [AnyCalls -> CallRows]
  BY DEF CacheInv, RowsFit
<1>4. /\ calls' \in [AnyCalls -> CallRows] /\ \A d \in AnyCalls \ {c} : calls'[d] = calls[d]
      /\ calls'[c].p = p /\ calls'[c].key = key /\ calls'[c].owed = calls[c].owed
      /\ calls'[c].since = calls[c].since
      /\ calls'[c].missed = calls[c].missed /\ calls'[c].expired = calls[c].expired
      /\ \/ /\ calls'[c].phase = "wait" /\ calls'[c].on = underWay[p][key]
            /\ underWay[p][key] # Cache!NoCall /\ underWay' = underWay
         \/ /\ calls'[c].phase = "load"
            /\ \/ underWay' = underWay
               \/ answer.joined /\ underWay' = [underWay EXCEPT ![p][key] = c]
  <2>1. CASE /\ answer.joined /\ underWay[p][key] # Cache!NoCall /\ underWay' = underWay
             /\ calls' = [calls EXCEPT ![c].phase = "wait", ![c].on = underWay[p][key]]
    <3> DEFINE on == underWay[p][key]
    <3>1. on \in AnyCalls \cup {Cache!NoCall} /\ "wait" \in Phases
      BY <1>2, <1>3 DEF Phases
    <3>2. calls' = [calls EXCEPT ![c].phase = "wait", ![c].on = on]
      BY <2>1
    <3> HIDE DEF on
    <3>3. calls' \in [AnyCalls -> CallRows]
      BY ZenonT(40), <1>3, <3>1, <3>2 DEF CallRows
    <3> QED BY <1>3, <2>1, <3>1, <3>2, <3>3 DEF CallRows, on
  <2>2. CASE /\ calls' = Cache!Step(c, "load")
             /\ underWay' = IF answer.joined
                           THEN [underWay EXCEPT ![p][key] = c] ELSE underWay
    <3>1. "load" \in Phases
      BY DEF Phases
    <3> QED BY <2>2, <3>1, StepGives DEF Unlike, SameRequest
  <2> QED BY <2>1, <2>2 DEF Cache!Join
<1> HIDE DEF p, key
<1>5. Flow
  BY <1>1, <1>4, CallTyped DEF Flow, Refills, HasLoaded
<1>6. Cache!Reading(c)' /\ Cache!Busy(c)' /\ Keyed(c)' /\ ~HasLoaded(c)'
  BY <1>4 DEF Cache!Reading, Cache!Writing, Cache!Busy, Keyed, HasLoaded
<1>7. RequestFits(c)'
  BY <1>1, <1>2, <1>4, <1>6, CallTyped
     DEF RequestFits, Cache!Busy, Cache!Reading, Cache!Writing, Cache!db, p, key
<1>8. Served(c)'
  <2>1. Holds(p, key, calls[c].owed) /\ clock' \in Nat
    BY <1>1, <1>2, CallTyped DEF Served, p, key
  <2>2. PICK q \in CacheProcesses, k \in Cache!Keys, n \in Nat :
              q = p /\ k = key /\ n = calls[c].owed /\ n <= Cache!db
    BY <1>2, CallTyped
  <2>3. Holds(q, k, n)'
    BY <1>5, <2>1, <2>2, HoldsStays
  <2> QED BY <1>4, <2>2, <2>3 DEF Served
<1>9. /\ \A e \in AnyCalls : Loading(e) => /\ calls'[e] = calls[e] /\ e # c
                                           /\ Loading(e)'
  BY <1>2, <1>4 DEF Loading
<1>10. WaitFits(c)'
  <2> SUFFICES ASSUME calls'[c].phase = "wait" PROVE WaitFits(c)'
    BY DEF WaitFits
  <2>1. calls'[c].on = underWay[p][key] /\ underWay[p][key] # Cache!NoCall
    BY <1>4
  <2>2. underWay[p][key] \in AnyCalls
    BY <1>2, <1>3, <2>1
  <2>3. /\ Loading(underWay[p][key]) /\ calls[underWay[p][key]].p = p
        /\ calls[underWay[p][key]].key = key
    BY <1>2, <2>1 DEF CacheInv, PendingFits
  <2> QED BY <1>4, <1>9, <2>1, <2>2, <2>3 DEF WaitFits
<1>11. (\A d \in AnyCalls : WaitFits(d)') /\ CopiesFit'
  BY <1>1, <1>2, <1>4, <1>10, LoadsStay, CopiesStay DEF Loading
<1>12. PendingFits'
  <2>1. ASSUME NEW q \in CacheProcesses, NEW k \in Cache!Keys, NEW e \in AnyCalls,
               underWay'[q][k] = e
        PROVE  /\ answer.joined' /\ Loading(e)' /\ calls'[e].p = q /\ calls'[e].key = k
    <3>1. CASE underWay[q][k] = e
      BY <1>1, <1>9, <3>1, CachesKnown DEF CacheInv, PendingFits
    <3>2. CASE underWay[q][k] # e
      BY <1>1, <1>2, <1>3, <1>4, <2>1, <3>2 DEF Loading
    <3> QED BY <3>1, <3>2
  <2>2. underWay' \in [CacheProcesses -> [Cache!Keys -> AnyCalls \cup {Cache!NoCall}]]
    BY <1>2, <1>3, <1>4
  <2>3. ASSUME NEW q \in CacheProcesses, NEW k \in Cache!Keys,
               underWay'[q][k] # Cache!NoCall
        PROVE  /\ answer.joined' /\ Loading(underWay[q][k])'
               /\ calls'[underWay'[q][k]].p = q
               /\ calls'[underWay'[q][k]].key = k
    BY <2>1, <2>2, <2>3
  <2> QED BY <2>3 DEF PendingFits
<1>13. RowsFit'
  <2>1. underWay' \in [CacheProcesses -> [Cache!Keys -> AnyCalls \cup {Cache!NoCall}]]
    BY <1>2, <1>3, <1>4
  <2> QED BY <1>1, <1>4, <2>1 DEF CacheInv, RowsFit
<1>14. \A q \in CacheProcesses, k \in Cache!Keys : Valid(q, k)' => Valid(q, k)
  BY <1>1, <1>4 DEF Valid, Cache!Lives
<1> QED
  BY <1>1, <1>2, <1>4, <1>5, <1>6, <1>7, <1>8, <1>11, <1>12, <1>13, <1>14, ReadKeeps

(* A request that begins to read: the writers under way are no more alone.  *)
SameBut(row, d) ==
    /\ row \in CallRows /\ row.phase = calls[d].phase /\ row.p = calls[d].p
    /\ row.key = calls[d].key /\ row.value = calls[d].value /\ row.on = calls[d].on
    /\ row.owed = calls[d].owed /\ row.since = calls[d].since
    /\ row.failed = calls[d].failed /\ row.missed = calls[d].missed
    /\ row.expired = calls[d].expired
    /\ row.alone => calls[d].alone /\ ~Cache!Writing(d)

Begun(row, c, p) ==
    /\ row \in CallRows /\ row.phase \in {"version", "ask", "join"}
    /\ row.p = p /\ row.owed = due[p] /\ row.since = clock
    /\ row.key \in 0 .. stamp /\ ~row.missed /\ ~row.expired
    /\ IF row.phase = "version" THEN answer.version # "none" ELSE Valid(p, row.key)
    /\ row.phase = "ask" => answer.redis

LEMMA AskGives ==
    ASSUME CacheInv, NEW c \in AnyCalls, NEW p \in CacheProcesses, Cache!Ask(c, p)
    PROVE  /\ calls' \in [AnyCalls -> CallRows]
           /\ \A d \in AnyCalls \ {c} : SameBut(calls'[d], d)
           /\ calls'[c] = Cache!Idle \/ Begun(calls'[c], c, p)
<1> DEFINE call == [Cache!Idle EXCEPT !.p = p, !.owed = due[p], !.since = clock]
<1>1. calls \in [AnyCalls -> CallRows] /\ due[p] \in Nat /\ clock \in Nat /\ stamp \in Nat
        /\ stamp \in Cache!Keys /\ 0 \in Cache!Keys /\ 0 \in 0 .. stamp
  BY CallTyped DEF CacheInv, RowsFit
<1>2. Cache!Idle \in CallRows
  BY IdleTyped
<1>3. /\ call \in CallRows /\ call.p = p /\ call.owed = due[p] /\ call.since = clock
      /\ ~call.missed /\ ~call.expired /\ call.key = 0
  <2>1. Cache!Idle.key = 0
    BY DEF Cache!Idle
  <2> QED BY <1>1, <1>2, <2>1, IdleTyped DEF CallRows
<1>4. calls' = [d \in AnyCalls |->
                IF d # c THEN IF Cache!Writing(d) THEN [calls[d] EXCEPT !.alone = FALSE]
                              ELSE calls[d]
                ELSE IF answer.version = "none" THEN Cache!Look(call, 0)
                ELSE IF answer.version = "copied" /\ Cache!Lives(copies[p])
                     THEN Cache!Look(call, copies[p].value)
                     ELSE [call EXCEPT !.phase = "version"]]
  BY DEF Cache!Ask
<1>5. ASSUME NEW d \in AnyCalls \ {c} PROVE SameBut(calls'[d], d)
  <2>1. CASE Cache!Writing(d)
    <3>1. calls'[d] = [calls[d] EXCEPT !.alone = FALSE] /\ calls[d] \in CallRows
      BY <1>1, <1>4, <2>1
    <3> QED BY <3>1 DEF SameBut, CallRows
  <2>2. CASE ~Cache!Writing(d)
    <3>1. calls'[d] = calls[d] /\ calls[d] \in CallRows
      BY <1>1, <1>4, <2>2
    <3> QED BY <2>2, <3>1 DEF SameBut
  <2> QED BY <2>1, <2>2
<1>6. [call EXCEPT !.phase = "version"] \in CallRows
  BY <1>3 DEF CallRows, Phases
<1>7. ASSUME NEW key \in Cache!Keys, key \in 0 .. stamp, Valid(p, key)
      PROVE  Cache!Look(call, key) = Cache!Idle \/ Begun(Cache!Look(call, key), c, p)
  <2> HIDE DEF call
  <2>1. Holds(p, key, due[p])
    BY <1>7 DEF CacheInv, DueServed
  <2>2. Cache!Look(call, key) = Cache!Idle \/ LookedAt(Cache!Look(call, key), call, key)
    BY <1>3, <2>1, LookGives
  <2> QED BY <1>3, <1>7, <2>2 DEF LookedAt, Begun
<1>8. calls'[c] = Cache!Idle \/ Begun(calls'[c], c, p)
  <2>1. CASE answer.version = "none"
    <3>1. stamp = 0 /\ calls'[c] = Cache!Look(call, 0)
      BY <1>4, <2>1 DEF CacheInv, StampFits
    <3>2. Valid(p, 0)
      BY <3>1 DEF Valid
    <3> QED BY <1>1, <1>7, <3>1, <3>2
  <2>2. CASE answer.version = "copied" /\ Cache!Lives(copies[p])
    <3>1. calls'[c] = Cache!Look(call, copies[p].value)
      BY <1>4, <2>2
    <3>2. copies[p].value \in 0 .. stamp /\ copies[p].value \in Cache!Keys
      BY <2>2, CachesKnown, <1>1 DEF CacheInv, CopiesFit, Cache!Keys
    <3>3. Valid(p, copies[p].value)
      BY <2>2 DEF Valid
    <3> QED BY <1>7, <3>1, <3>2, <3>3
  <2>3. CASE answer.version # "none" /\ ~(answer.version = "copied"
            /\ Cache!Lives(copies[p]))
    <3>1. calls'[c] = [call EXCEPT !.phase = "version"]
      BY <1>4, <2>3
    <3> QED BY <1>1, <1>3, <1>6, <2>3, <3>1 DEF Begun, CallRows
  <2> QED BY <2>1, <2>2, <2>3
<1>9. calls' \in [AnyCalls -> CallRows]
  <2>1. \A d \in AnyCalls : calls'[d] \in CallRows
    BY <1>2, <1>5, <1>8 DEF SameBut, Begun
  <2> QED BY <1>4, <2>1
<1> QED BY <1>5, <1>8, <1>9

LEMMA AskKeeps ==
    ASSUME CacheInv, NEW c \in AnyCalls, NEW p \in CacheProcesses, Cache!Ask(c, p)
    PROVE  CacheInv'
<1>1. /\ UNCHANGED <<answer, sweep, memory, redis, stamp, copies, underWay, written, due>>
      /\ clock' = clock /\ calls[c].phase = "idle"
  BY DEF Cache!Ask, Cache!Fixed, Cache!Copies, Cache!Busy
<1>2. /\ calls' \in [AnyCalls -> CallRows]
      /\ \A d \in AnyCalls \ {c} : SameBut(calls'[d], d)
      /\ calls'[c] = Cache!Idle \/ Begun(calls'[c], c, p)
  BY AskGives
<1>3. Flow
  BY <1>1, <1>2, CallTyped, IdleTyped DEF Flow, Refills, HasLoaded, SameBut, Begun
<1>4. RowsFit' /\ CopiesFit' /\ PairFits(answer, sweep)' /\ clock' \in Nat
  BY <1>1, <1>2, CopiesStay, CallTyped DEF CacheInv, RowsFit
<1>5. (\A d \in AnyCalls : WaitFits(d)') /\ PendingFits'
  <2>1. WaitFits(c)'
    BY <1>2, IdleTyped DEF WaitFits, Begun
  <2> QED BY <1>1, <1>2, <2>1, LoadsStay DEF Loading, SameBut
<1>6. \A d \in AnyCalls \ {c} : RequestFits(d)'
  <2> SUFFICES ASSUME NEW d \in AnyCalls \ {c} PROVE RequestFits(d)'
    OBVIOUS
  <2>1. RequestFits(d) /\ SameBut(calls'[d], d)
    BY <1>2 DEF CacheInv
  <2> QED BY <1>1, <2>1 DEF RequestFits, Cache!Busy, Cache!Reading, Cache!Writing,
      HasLoaded, Current, Cache!db, SameBut
<1>7. RequestFits(c)' /\ Served(c)'
  <2>1. CASE Begun(calls'[c], c, p)
    <3>1. /\ due[p] <= Cache!db /\ due[p] \in Nat /\ clock \in Nat /\ stamp \in Cache!Keys
          /\ calls'[c].key \in Cache!Keys
      BY <2>1, CallTyped DEF CacheInv, DueServed, RowsFit, Begun, CallRows
    <3>2. RequestFits(c)'
      BY <1>1, <2>1, <3>1
         DEF RequestFits, Cache!Busy, Cache!Reading, Cache!Writing, HasLoaded, Cache!db,
             Begun, CallRows
    <3>3. PICK k \in Cache!Keys, n \in Nat :
            /\ n = due[p] /\ Valid(p, k)
            /\ k = IF calls'[c].phase = "version" THEN stamp ELSE calls'[c].key
      BY <2>1, <3>1 DEF Begun, Valid
    <3>4. Holds(p, k, n)
      BY <3>3 DEF CacheInv, DueServed
    <3>5. Holds(p, k, n)'
      BY <1>3, <1>4, <3>1, <3>3, <3>4, HoldsStays
    <3>6. Served(c)'
      BY <1>1, <2>1, <3>3, <3>5 DEF Served, Keyed, Begun
    <3> QED BY <3>2, <3>6
  <2> QED BY <1>2, <2>1, IdleRequestFits
<1>8. \A d \in AnyCalls \ {c} : Served(d)'
  <2> SUFFICES ASSUME NEW d \in AnyCalls \ {c} PROVE Served(d)'
    OBVIOUS
  <2>1. Served(d) /\ SameBut(calls'[d], d)
    BY <1>2 DEF CacheInv
  <2>2. ASSUME NEW k \in Cache!Keys, NEW n \in Int, n
            <= Cache!db, Cache!Busy(d), Holds(calls[d].p, k, n)
        PROVE  Holds(calls[d].p, k, n)'
    <3>1. PICK q \in CacheProcesses : q = calls[d].p
      BY <2>2, CallTyped
    <3>2. Holds(q, k, n)'
      BY <1>3, <1>4, <2>2, <3>1, HoldsStays
    <3> QED BY <2>1, <3>1, <3>2 DEF SameBut
  <2>3. calls[d].phase = "version" => Holds(calls[d].p, stamp, calls[d].owed)'
    BY <1>1, <2>1, <2>2, CallTyped DEF Served, Cache!Reading, Cache!Writing, Cache!Busy,
       SameBut
  <2>4. calls[d].phase = "versioned" => Holds(calls[d].p, calls[d].value, calls[d].owed)'
    BY <1>1, <2>1, <2>2, CallTyped DEF Served, Cache!Reading, Cache!Writing, Cache!Busy,
       SameBut
  <2>5. Keyed(d) => Holds(calls[d].p, calls[d].key, calls[d].owed)'
    <3>1. Keyed(d) => Cache!Busy(d) /\ Cache!Reading(d)
      BY DEF Keyed, Cache!Reading, Cache!Writing, Cache!Busy
    <3> QED BY <1>1, <2>1, <2>2, <3>1, CallTyped DEF Served, SameBut
  <2>6. calls[d].phase = "drop" /\ ~calls[d].failed =>
          Holds(calls[d].p, stamp, calls[d].value)'
    BY <1>1, <2>1, <2>2, CallTyped DEF Served, Cache!Writing, Cache!Busy, SameBut
  <2> QED BY <2>1, <2>3, <2>4, <2>5, <2>6 DEF Served, SameBut, Keyed
<1>9. \A d \in AnyCalls : ~(Cache!Writing(d)' /\ calls'[d].alone)
  BY <1>1, <1>2, IdleTyped DEF SameBut, Begun, Cache!Writing
<1>10. \A d \in AnyCalls : AloneFits(d)' /\ Cleared(d)'
  BY <1>9 DEF AloneFits, Cleared, Cache!Writing
<1>11. \A q \in CacheProcesses, k \in Cache!Keys : Valid(q, k)' => Valid(q, k)
  BY <1>1, <1>2, IdleTyped DEF Valid, Cache!Lives, SameBut, Begun
<1>12. DueServed'
  <2> SUFFICES ASSUME NEW q \in CacheProcesses
               PROVE  /\ due'[q] <= Cache!db'
                      /\ \A k \in Cache!Keys : Valid(q, k)' => Holds(q, k, due[q])'
    BY DEF DueServed
  <2>1. PICK n \in Nat : n = due[q] /\ n <= Cache!db
    BY DEF CacheInv, DueServed, RowsFit
  <2>2. ASSUME NEW k \in Cache!Keys, Valid(q, k)' PROVE Holds(q, k, n)'
    <3>1. Holds(q, k, n)
      BY <1>11, <2>1, <2>2 DEF CacheInv, DueServed
    <3> QED BY <1>3, <1>4, <2>1, <3>1, HoldsStays
  <2> QED BY <1>1, <2>1, <2>2 DEF Cache!db
<1>13. StampFits'
  <2>1. ToPurge' = ToPurge
    BY <1>1, <1>2, IdleTyped DEF ToPurge, SameBut, Begun
  <2> QED BY <1>1, <2>1 DEF CacheInv, StampFits, Cache!db
<1> QED
  BY <1>4, <1>5, <1>6, <1>7, <1>8, <1>10, <1>12, <1>13 DEF CacheInv

LEMMA TickKeeps ==
    ASSUME CacheInv, Cache!Tick PROVE CacheInv'
<1>1. /\ UNCHANGED <<answer, sweep, memory, redis, stamp, copies, underWay,
                     written, calls, due>>
      /\ clock \in Nat /\ clock' = clock + 1 /\ \A c \in AnyCalls : Cache!Busy(c)
            => calls[c].since = clock
  BY DEF Cache!Tick, Cache!Fixed, Cache!Copies, CacheInv, RowsFit
<1>2. Flow
  BY <1>1, CallTyped DEF Flow, Refills, HasLoaded
<1>3. RowsFit' /\ PairFits(answer, sweep)' /\ StampFits' /\ PendingFits'
  BY <1>1 DEF CacheInv, RowsFit, StampFits, ToPurge, PendingFits, Loading, Cache!db
<1>4. ASSUME NEW d \in AnyCalls
      PROVE  RequestFits(d)' /\ WaitFits(d)' /\ AloneFits(d)' /\ Served(d)' /\ Cleared(d)'
  <2>1. RequestFits(d) /\ WaitFits(d) /\ AloneFits(d) /\ Cleared(d)
    BY DEF CacheInv
  <2>2. RequestFits(d)'
    BY <1>1, <2>1 DEF RequestFits, Cache!Busy, Cache!Reading, Cache!Writing, HasLoaded,
       Current, Cache!db
  <2>3. WaitFits(d)' /\ AloneFits(d)'
    BY <1>1, <2>1 DEF WaitFits, AloneFits, Cache!Reading, Cache!Writing, Cache!Busy, Loading
  <2>4. Cleared(d)'
    <3>1. Cache!Busy(d) => calls[d].p \in CacheProcesses
      BY CallTyped
    <3>2. redis[0] \in CopyRows /\ \A p \in CacheProcesses : memory[p][0] \in CopyRows
      BY CallTyped DEF CacheInv, RowsFit
    <3>3. ~Cache!Lives(redis[0]) => ~Cache!Lives(redis[0])'
      BY <1>1, <3>2 DEF Cache!Lives, CopyRows
    <3>4. \A p \in CacheProcesses : ~Cache!Lives(memory[p][0]) =>
              ~Cache!Lives(memory[p][0])'
      BY <1>1, <3>2 DEF Cache!Lives, CopyRows
    <3>5. Cache!Busy(d) /\ ~Cache!Lives(memory[calls[d].p][0]) =>
              ~Cache!Lives(memory[calls[d].p][0])'
      BY <1>1, <3>1, <3>4
    <3> QED BY <1>1, <2>1, <3>3, <3>5 DEF Cleared, Cache!Busy
  <2>5. Served(d)'
    BY <1>1, <1>2, ServedStays
  <2> QED BY <2>2, <2>3, <2>4, <2>5
<1>5. CopiesFit'
  <2>1. ASSUME NEW copy \in CopyRows, copy.until > clock' PROVE copy.until > clock
    BY <1>1, <2>1 DEF CopyRows
  <2>2. /\ \A p \in CacheProcesses, k \in Cache!Keys : memory[p][k] \in CopyRows
        /\ \A k \in Cache!Keys : redis[k] \in CopyRows
        /\ \A p \in CacheProcesses : copies[p] \in CopyRows
    BY DEF CacheInv, RowsFit
  <2>3. /\ \A p \in CacheProcesses,
            k \in Cache!Keys : Cache!Lives(memory[p][k])' => Cache!Lives(memory[p][k])
        /\ \A k \in Cache!Keys : Cache!Lives(redis[k])' => Cache!Lives(redis[k])
        /\ \A p \in CacheProcesses : Cache!Lives(copies[p])' => Cache!Lives(copies[p])
    BY <1>1, <2>1, <2>2 DEF Cache!Lives
  <2>4. /\ \A p \in CacheProcesses, k \in Cache!Keys : Cache!Lives(memory[p][k])' =>
              memory[p][k].until <= clock' + MemoryLife
        /\ \A k \in Cache!Keys : Cache!Lives(redis[k])'
              => redis[k].until <= clock' + RedisLife
    BY <1>1, <2>2, <2>3, CachesKnown DEF CacheInv, CopiesFit, CopyRows
  <2> QED BY <1>1, <2>3, <2>4 DEF CacheInv, CopiesFit, Current, InRedisFor, Cache!db
<1>6. DueServed'
  <2> SUFFICES ASSUME NEW q \in CacheProcesses
               PROVE  /\ due'[q] <= Cache!db'
                      /\ \A k \in Cache!Keys : Valid(q, k)' => Holds(q, k, due[q])'
    BY DEF DueServed
  <2>1. PICK n \in Nat : n = due[q] /\ n <= Cache!db
    BY DEF CacheInv, DueServed, RowsFit
  <2>2. Cache!Lives(copies[q])' => Cache!Lives(copies[q])
    <3>1. copies[q] \in CopyRows
      BY DEF CacheInv, RowsFit
    <3> QED BY <1>1, <3>1 DEF Cache!Lives, CopyRows
  <2>3. ASSUME NEW k \in Cache!Keys, Valid(q, k)' PROVE Holds(q, k, n)'
    <3>1. Valid(q, k)
      BY <1>1, <2>2, <2>3 DEF Valid
    <3>2. Holds(q, k, n)
      BY <2>1, <3>1 DEF CacheInv, DueServed
    <3> QED BY <1>1, <1>2, <2>1, <3>2, HoldsStays
  <2> QED BY <1>1, <2>1, <2>3 DEF Cache!db
<1> QED BY <1>3, <1>4, <1>5, <1>6 DEF CacheInv

-----------------------------------------------------------------------------
(* A request that writes: copies are lost, the version goes on.             *)

Lost ==
    /\ \A p \in CacheProcesses, k \in Cache!Keys :
          memory'[p][k] = memory[p][k] \/ ~Cache!Lives(memory[p][k])'
    /\ \A k \in Cache!Keys : redis'[k] = redis[k] \/ ~Cache!Lives(redis[k])'
    /\ \A p \in CacheProcesses : copies'[p] = copies[p] \/ ~Cache!Lives(copies[p])'
    /\ \A p \in CacheProcesses, k \in Cache!Keys :
          underWay'[p][k] = underWay[p][k] \/ underWay'[p][k] = Cache!NoCall
    /\ written' = written \/ written' = Append(written, clock)
    /\ answer' = answer /\ sweep' = sweep /\ clock' = clock
    /\ stamp <= stamp'

LEMMA LostFlow ==
    ASSUME CacheInv, Lost, NEW c \in AnyCalls, calls'[c] = Cache!Idle \/ Cache!Writing(c)',
           \A d \in AnyCalls \ {c} : calls'[d] = calls[d]
    PROVE  Flow
<1>1. clock \in Nat /\ Cache!db \in Nat
  BY PairTyped DEF CacheInv, RowsFit
<1>2. \A e \in AnyCalls : HasLoaded(e)' \/ calls'[e].phase = "heard" => e # c
  BY IdleTyped DEF HasLoaded, Cache!Writing
<1>3. \A e \in AnyCalls : HasLoaded(e)' => HasLoaded(e) /\ calls'[e] = calls[e]
  BY <1>2 DEF HasLoaded
<1> QED BY <1>1, <1>2, <1>3 DEF Flow, Refills, Lost

LEMMA LostFits ==
    ASSUME CacheInv, Lost, stamp' \in Nat PROVE CopiesFit'
<1>0. /\ clock \in Nat /\ clock <= clock /\ stamp \in Nat /\ InRedisFor \in Nat
      /\ answer' = answer /\ clock' = clock
  BY PairTyped, CallTyped, CachesKnown DEF CacheInv, RowsFit, Cache!Keys, Lost
<1>1. ASSUME NEW p \in CacheProcesses, NEW k \in Cache!Keys, Cache!Lives(memory[p][k])'
      PROVE  /\ answer.memory /\ k <= stamp'
             /\ memory'[p][k].until <= clock + MemoryLife
             /\ Current(memory[p][k].value,
                   memory[p][k].until - MemoryLife - 1 - InRedisFor)'
  <2>1. memory'[p][k] = memory[p][k] /\ memory[p][k] \in CopyRows
    BY <1>1 DEF Lost, CacheInv, RowsFit
  <2>2. PICK v \in Int, u \in Int : memory[p][k].value = v /\ memory[p][k].until = u
    BY <2>1 DEF CopyRows
  <2>3. PICK t \in Int : t = u - MemoryLife - 1 - InRedisFor
    BY <1>0, <2>2, CachesKnown
  <2>4. /\ answer.memory /\ k <= stamp /\ u <= clock + MemoryLife /\ Current(v, t)
    BY <1>0, <1>1, <2>1, <2>2, <2>3 DEF CacheInv, CopiesFit, Cache!Lives
  <2>5. t <= clock
    BY <1>0, <2>2, <2>3, <2>4, CachesKnown
  <2>6. Current(v, t)'
    BY <2>4, <2>5, CurrentStays DEF CacheInv, Lost
  <2>7. InRedisFor' = InRedisFor
    BY <1>0 DEF InRedisFor
  <2> QED BY <1>0, <2>1, <2>2, <2>3, <2>4, <2>6, <2>7, CachesKnown DEF Lost, Cache!Keys
<1>2. ASSUME NEW k \in Cache!Keys, Cache!Lives(redis[k])'
      PROVE  /\ answer.redis /\ k <= stamp'
             /\ redis'[k].until <= clock + RedisLife
             /\ Current(redis[k].value, redis[k].until - RedisLife - 1)'
  <2>1. redis'[k] = redis[k] /\ redis[k] \in CopyRows
    BY <1>2 DEF Lost, CacheInv, RowsFit
  <2>2. PICK v \in Int, u \in Int : redis[k].value = v /\ redis[k].until = u
    BY <2>1 DEF CopyRows
  <2>3. PICK t \in Int : t = u - RedisLife - 1
    BY <2>2, CachesKnown
  <2>4. /\ answer.redis /\ k <= stamp /\ u <= clock + RedisLife /\ Current(v, t)
    BY <1>0, <1>2, <2>1, <2>2, <2>3 DEF CacheInv, CopiesFit, Cache!Lives
  <2>5. t <= clock
    BY <1>0, <2>2, <2>3, <2>4, CachesKnown
  <2>6. Current(v, t)'
    BY <2>4, <2>5, CurrentStays DEF CacheInv, Lost
  <2> QED BY <1>0, <2>1, <2>2, <2>3, <2>4, <2>6, CachesKnown DEF Lost, Cache!Keys
<1>3. ASSUME NEW p \in CacheProcesses, Cache!Lives(copies[p])'
      PROVE  copies'[p].value \in 0 .. stamp'
  <2>1. copies'[p] = copies[p] /\ Cache!Lives(copies[p])
    BY <1>0, <1>3 DEF Lost, Cache!Lives
  <2>2. copies[p].value \in 0 .. stamp
    BY <2>1 DEF CacheInv, CopiesFit
  <2> QED BY <1>0, <2>1, <2>2 DEF Lost
<1> QED BY <1>0, <1>1, <1>2, <1>3 DEF CopiesFit

LEMMA WriterKeeps ==
    ASSUME CacheInv, Lost, NEW c \in AnyCalls, ~Cache!Reading(c), RowsFit',
           \A d \in AnyCalls \ {c} : calls'[d] = calls[d],
           calls'[c] = Cache!Idle \/ Cache!Writing(c)',
           RequestFits(c)', AloneFits(c)', Served(c)', Cleared(c)', StampFits',
           \A q \in CacheProcesses, k \in Cache!Keys : Valid(q, k)' =>
               Valid(q, k) \/ k > stamp,
           \A q \in CacheProcesses : due'[q] # due[q] =>
              \E n \in Nat : /\ due'[q] = n /\ n <= Cache!db'
                             /\ \A k \in Cache!Keys : Valid(q, k)' => Holds(q, k, n)'
    PROVE  CacheInv'
<1>1. Flow
  BY LostFlow
<1>2. /\ clock' \in Nat /\ clock' = clock /\ stamp \in Nat /\ stamp' \in Nat
          /\ stamp <= stamp'
      /\ stamp' \in Cache!Keys /\ stamp \in Cache!Keys
      /\ Cache!db \in Nat /\ Cache!db' \in Nat /\ Cache!db <= Cache!db' /\ PairFits(answer,
            sweep)'
      /\ answer' = answer /\ sweep' = sweep
  BY CallTyped, CachesKnown DEF CacheInv, RowsFit, Lost, Cache!db, Cache!Keys
<1>3. CopiesFit'
  BY <1>2, LostFits
<1>4. ~Loading(c) /\ ~Loading(c)' /\ calls'[c].phase # "wait" /\ ~Cache!Reading(c)'
  BY IdleTyped DEF Loading, Cache!Reading, Cache!Writing, Cache!Busy
<1>5. \A d \in AnyCalls : WaitFits(d)'
  BY <1>4, LoadsStay DEF WaitFits
<1>6. PendingFits'
  <2>1. ASSUME NEW q \in CacheProcesses, NEW k \in Cache!Keys,
               underWay'[q][k] # Cache!NoCall
        PROVE  /\ answer.joined' /\ Loading(underWay[q][k])'
               /\ calls'[underWay'[q][k]].p = q /\ calls'[underWay'[q][k]].key = k
    <3>1. underWay'[q][k] = underWay[q][k] /\ underWay[q][k] \in AnyCalls
      BY <2>1 DEF Lost, CacheInv, RowsFit
    <3>2. /\ answer.joined /\ Loading(underWay[q][k])
          /\ calls[underWay[q][k]].p = q /\ calls[underWay[q][k]].key = k
      BY <2>1, <3>1 DEF CacheInv, PendingFits
    <3>3. underWay[q][k] # c
      BY <1>4, <3>2
    <3> QED BY <1>2, <3>1, <3>2, <3>3 DEF Loading
  <2> QED BY <2>1 DEF PendingFits
<1>7. ASSUME NEW d \in AnyCalls \ {c}
      PROVE  RequestFits(d)' /\ AloneFits(d)' /\ Served(d)' /\ Cleared(d)'
  <2>1. RequestFits(d) /\ AloneFits(d) /\ Cleared(d) /\ Served(d) /\ calls'[d] = calls[d]
    BY DEF CacheInv
  <2>2. RequestFits(d)'
    <3>1. HasLoaded(d) => Current(calls[d].value, calls[d].since)'
      <4> SUFFICES ASSUME HasLoaded(d) PROVE Current(calls[d].value, calls[d].since)'
        OBVIOUS
      <4>1. PICK v \in Int, t \in Int : v = calls[d].value /\ t = calls[d].since
        BY CallTyped
      <4>2. Current(v, t) /\ t <= clock
        BY <2>1, <4>1, LoadedRecent DEF RequestFits
      <4>3. Current(v, t)'
        BY <4>2, CurrentStays DEF CacheInv, Lost
      <4> QED BY <2>1, <4>1, <4>3
    <3>2. calls[d].phase = "heard" => Current(calls[d].value, calls[d].since - RedisLife)'
      <4> SUFFICES ASSUME calls[d].phase = "heard"
                   PROVE  Current(calls[d].value, calls[d].since - RedisLife)'
        OBVIOUS
      <4>0. calls[d].since <= clock
        BY <2>1 DEF RequestFits, Cache!Busy
      <4>1. PICK v \in Int, t \in Int : v = calls[d].value /\ t = calls[d].since - RedisLife
        <5>1. calls[d].value \in Int /\ calls[d].since \in Nat
          BY CallTyped
        <5>2. calls[d].since - RedisLife \in Int
          BY <5>1, CachesKnown
        <5> QED BY <5>1, <5>2
      <4>2. Current(v, t) /\ t <= clock
        BY <1>2, <2>1, <4>0, <4>1, CallTyped, CachesKnown DEF RequestFits
      <4>3. Current(v, t)'
        BY <4>2, CurrentStays DEF CacheInv, Lost
      <4> QED BY <2>1, <4>1, <4>3
    <3>3. Cache!Reading(d) => calls[d].key <= stamp' /\ calls[d].owed <= Cache!db'
      <4>1. /\ calls[d].key \in Nat /\ calls[d].owed \in Nat
            /\ Cache!Reading(d) => calls[d].key <= stamp /\ calls[d].owed <= Cache!db
        BY CallTyped
      <4> QED BY <1>2, <4>1
    <3>4. calls[d].phase = "versioned" => calls[d].value \in 0 .. stamp'
      BY <1>2, <2>1 DEF RequestFits
    <3>5. Cache!Writing(d) => sweep.early \/ calls[d].value \in 0 .. Cache!db'
      BY <1>2, <2>1 DEF RequestFits
    <3>6. HasLoaded(d)' => HasLoaded(d)
      BY <2>1 DEF HasLoaded
    <3> QED
      BY <1>2, <2>1, <3>1, <3>2, <3>3, <3>4, <3>5, <3>6
         DEF RequestFits, Cache!Busy, Cache!Reading, Cache!Writing
  <2>3. AloneFits(d)'
    BY <1>4, <2>1 DEF AloneFits, Cache!Reading, Cache!Writing, Cache!Busy
  <2>4. Served(d)'
    <3>1. ASSUME NEW k \in Cache!Keys, NEW n \in Int, n
              <= Cache!db, Cache!Busy(d), Holds(calls[d].p, k, n)
          PROVE  Holds(calls[d].p, k, n)'
      <4>1. PICK q \in CacheProcesses : q = calls[d].p
        BY <3>1, CallTyped
      <4>2. Holds(q, k, n)'
        BY <1>1, <1>2, <3>1, <4>1, HoldsStays
      <4> QED BY <2>1, <4>1, <4>2
    <3>2. ASSUME NEW n \in Int, n <= Cache!db, Cache!Busy(d), Holds(calls[d].p, stamp, n)
          PROVE  Holds(calls[d].p, stamp, n)'
      <4>1. PICK k \in Cache!Keys : k = stamp'
        BY <1>2
      <4>2. Holds(calls[d].p, k, n)
        BY <1>2, <3>2, <4>1, CallTyped, NothingAhead
      <4>3. Holds(calls[d].p, k, n)'
        BY <3>1, <3>2, <4>2
      <4> QED BY <4>1, <4>3
    <3>3. calls[d].phase = "version" => Holds(calls[d].p, stamp, calls[d].owed)'
      BY <2>1, <3>2, CallTyped DEF Served, Cache!Reading, Cache!Writing, Cache!Busy
    <3>4. calls[d].phase = "versioned" => Holds(calls[d].p, calls[d].value, calls[d].owed)'
      BY <2>1, <3>1, CallTyped DEF Served, Cache!Reading, Cache!Writing, Cache!Busy
    <3>5. Keyed(d) => Holds(calls[d].p, calls[d].key, calls[d].owed)'
      <4>1. Keyed(d) => Cache!Busy(d) /\ Cache!Reading(d)
        BY DEF Keyed, Cache!Reading, Cache!Writing, Cache!Busy
      <4> QED BY <2>1, <3>1, <4>1, CallTyped DEF Served
    <3>6. calls[d].phase = "drop" /\ ~calls[d].failed =>
            Holds(calls[d].p, stamp, calls[d].value)'
      BY <2>1, <3>2, CallTyped DEF Served, Cache!Writing, Cache!Busy
    <3> QED BY <2>1, <3>3, <3>4, <3>5, <3>6 DEF Served, Keyed
  <2>5. Cleared(d)'
    <3>1. Cache!Busy(d) => calls[d].p \in CacheProcesses
      BY CallTyped
    <3>2. 0 \in Cache!Keys
      BY CallTyped
    <3>3. ~Cache!Lives(redis[0]) => ~Cache!Lives(redis[0])'
      BY <1>2, <3>2 DEF Cache!Lives, Lost
    <3>4. \A p \in CacheProcesses : ~Cache!Lives(memory[p][0]) =>
              ~Cache!Lives(memory[p][0])'
      BY <1>2, <3>2 DEF Cache!Lives, Lost
    <3>5. Cache!Busy(d) /\ ~Cache!Lives(memory[calls[d].p][0]) =>
              ~Cache!Lives(memory[calls[d].p][0])'
      BY <2>1, <3>1, <3>4
    <3> QED BY <1>2, <2>1, <3>3, <3>5 DEF Cleared, Cache!Busy
  <2> QED BY <2>2, <2>3, <2>4, <2>5
<1>8. DueServed'
  <2> SUFFICES ASSUME NEW q \in CacheProcesses
               PROVE  /\ due'[q] <= Cache!db'
                      /\ \A k \in Cache!Keys : Valid(q, k)' => Holds(q, k, due[q])'
    BY DEF DueServed
  <2>1. CASE due'[q] = due[q]
    <3>1. PICK n \in Nat : n = due[q] /\ n <= Cache!db
      BY DEF CacheInv, DueServed, RowsFit
    <3>2. ASSUME NEW k \in Cache!Keys, Valid(q, k)' PROVE Holds(q, k, n)'
      <4>1. Holds(q, k, n)
        <5>1. CASE Valid(q, k)
          BY <3>1, <5>1 DEF CacheInv, DueServed
        <5>2. CASE k > stamp
          BY <5>2, NothingAhead
        <5> QED BY <3>2, <5>1, <5>2
      <4> QED BY <1>1, <1>2, <3>1, <4>1, HoldsStays
    <3> QED BY <1>2, <2>1, <3>1, <3>2
  <2>2. CASE due'[q] # due[q]
    BY <2>2
  <2> QED BY <2>1, <2>2
<1> QED BY <1>2, <1>3, <1>5, <1>6, <1>7, <1>8 DEF CacheInv

(* What a step of a writer does to the requests.                            *)
LEMMA IdleGives ==
    ASSUME CacheInv, NEW c \in AnyCalls, calls' = [calls EXCEPT ![c] = Cache!Idle]
    PROVE  /\ calls' \in [AnyCalls -> CallRows] /\ calls'[c] = Cache!Idle
           /\ \A d \in AnyCalls \ {c} : calls'[d] = calls[d]
BY IdleTyped DEF CacheInv, RowsFit

LEMMA OwingGives ==
    ASSUME CacheInv, NEW c \in AnyCalls, NEW number \in Nat, due' = Cache!Owing(c, number)
    PROVE  /\ due' \in [CacheProcesses -> Nat]
           /\ \A q \in CacheProcesses : due'[q] # due[q] =>
                 /\ due'[q] = number /\ sweep.owes /\ ~calls[c].failed /\ ~Cache!Returns(c)
                 /\ answer.memory => q = calls[c].p
<1>1. due \in [CacheProcesses -> Nat]
  BY DEF CacheInv, RowsFit
<1>2. CASE sweep.owes /\ ~calls[c].failed /\ ~Cache!Returns(c)
  <2> DEFINE reach == IF answer.memory THEN {calls[c].p} ELSE CacheProcesses
  <2>1. due' = [p \in CacheProcesses |->
                  IF p \in reach /\ due[p] < number THEN number ELSE due[p]]
    BY <1>2 DEF Cache!Owing
  <2>2. \A q \in reach : answer.memory => q = calls[c].p
    OBVIOUS
  <2> HIDE DEF reach
  <2> QED BY <1>1, <1>2, <2>1, <2>2
<1>3. CASE ~(sweep.owes /\ ~calls[c].failed /\ ~Cache!Returns(c))
  <2>1. due' = due
    BY <1>3 DEF Cache!Owing
  <2> QED BY <1>1, <2>1
<1> QED BY <1>2, <1>3

LEMMA PurgeCount ==
    ASSUME CacheInv, NEW c \in AnyCalls, \A d \in AnyCalls \ {c} : calls'[d] = calls[d]
    PROVE  /\ Cardinality(ToPurge) \in Nat /\ Cardinality(ToPurge') \in Nat
           /\ Cardinality(ToPurge') <= Cardinality(ToPurge) + 1
           /\ c \in ToPurge \/ c \notin ToPurge'
                 => Cardinality(ToPurge') <= Cardinality(ToPurge)
           /\ c \in ToPurge /\ c \notin ToPurge' =>
                 Cardinality(ToPurge') <= Cardinality(ToPurge) - 1
           /\ c \in ToPurge => Cardinality(ToPurge) >= 1
<1> DEFINE S == ToPurge
           T == ToPurge'
<1>1. S \subseteq AnyCalls /\ T \subseteq AnyCalls /\ S \ {c} = T \ {c}
  BY DEF ToPurge
<1> HIDE DEF S, T
<1>2. IsFiniteSet(S) /\ IsFiniteSet(T) /\ IsFiniteSet(S \ {c})
  BY <1>1, CachesKnown, FS_Subset
<1>3. Cardinality(S) \in Nat /\ Cardinality(T) \in Nat /\ Cardinality(S \ {c}) \in Nat
  BY <1>2, FS_CardinalityType
<1>4. Cardinality(S \ {c}) = IF c \in S THEN Cardinality(S) - 1 ELSE Cardinality(S)
  BY <1>2, FS_RemoveElement
<1>5. Cardinality(T \ {c}) = IF c \in T THEN Cardinality(T) - 1 ELSE Cardinality(T)
  BY <1>2, FS_RemoveElement
<1>6. Cardinality(S \ {c}) = Cardinality(T \ {c})
  BY <1>1
<1>7. /\ Cardinality(T) <= Cardinality(S) + 1
      /\ c \in S \/ c \notin T => Cardinality(T) <= Cardinality(S)
      /\ c \in S /\ c \notin T => Cardinality(T) <= Cardinality(S) - 1
      /\ c \in S => Cardinality(S) >= 1
  BY <1>3, <1>4, <1>5, <1>6
<1> QED BY <1>3, <1>7 DEF S, T

LEMMA PhaseForGives ==
    ASSUME NEW parts
    PROVE  /\ Cache!PhaseFor(parts) \in {"clear", "purge", "end"}
           /\ Cache!PhaseFor(parts) = "purge" =>
                 "redis" \in parts /\ "memory" \notin parts /\ "pending" \notin parts
           /\ Cache!PhaseFor(parts) = "end" =>
                 "redis" \notin parts /\ "memory" \notin parts /\ "pending" \notin parts
BY DEF Cache!PhaseFor

LEMMA WriteKeeps ==
    ASSUME CacheInv, NEW c \in AnyCalls, NEW p \in CacheProcesses, Cache!Write(c, p)
    PROVE  CacheInv'
<1>1. /\ UNCHANGED <<answer, sweep, memory, redis, stamp, copies, underWay, clock, due>>
      /\ calls[c].phase = "idle" /\ ~Cache!Reading(c)
      /\ written' = IF sweep.early THEN written ELSE Append(written, clock)
  BY DEF Cache!Write, Cache!Fixed, Cache!Copies, Cache!Busy, Cache!Reading
<1>2. /\ clock \in Nat /\ Cache!db \in Nat /\ stamp \in Nat /\ Cache!db < MaxWrites
      /\ Cache!db' = IF sweep.early THEN Cache!db ELSE Cache!db + 1
  <2>1. Cardinality({d \in AnyCalls : Cache!Writing(d)}) \in Nat
    BY CachesKnown, FS_Subset, FS_CardinalityType
  <2>2. written \in Seq(Nat) /\ clock \in Nat /\ Cache!db \in Nat /\ stamp \in Nat
    BY CallTyped DEF CacheInv, RowsFit
  <2> QED BY RequestsCounted, <1>1, <2>1, <2>2, CachesKnown DEF Cache!Write, Cache!db
<1>3. /\ calls' \in [AnyCalls -> CallRows] /\ \A d \in AnyCalls \ {c} : calls'[d] = calls[d]
      /\ calls'[c].phase = Cache!PhaseFor(sweep.parts)
      /\ calls'[c].p = p /\ calls'[c].since = clock /\ calls'[c].value = Cache!db + 1
      /\ calls'[c].alone = (\A d \in AnyCalls : ~Cache!Reading(d))
      /\ ~calls'[c].missed /\ ~calls'[c].expired
  <2> DEFINE phase == Cache!PhaseFor(sweep.parts)
             alone == \A d \in AnyCalls : ~Cache!Reading(d)
             number == Cache!db + 1
             row == [Cache!Idle EXCEPT !.phase = phase, !.p = p, !.since = clock,
                                 !.value = number, !.alone = alone]
  <2>1. phase \in Phases /\ number \in Int
    BY <1>2, PhaseForGives DEF Phases
  <2>2. PICK b \in BOOLEAN : alone = b
    OBVIOUS
  <2>3. calls' = [calls EXCEPT ![c] = row] /\ calls \in [AnyCalls -> CallRows]
    BY DEF Cache!Write, CacheInv, RowsFit
  <2> HIDE DEF phase, alone, number
  <2>4. /\ row \in CallRows /\ row.phase = phase /\ row.p = p /\ row.since = clock
        /\ row.value = number /\ row.alone = alone
        /\ ~row.missed /\ ~row.expired
    BY <1>2, <2>1, <2>2, IdleTyped DEF CallRows
  <2> HIDE DEF row
  <2> QED BY <2>3, <2>4 DEF phase, alone, number
<1>4. Lost /\ stamp' \in Nat
  BY <1>1, <1>2 DEF Lost
<1>5. Cache!Writing(c)' /\ ~Cache!Reading(c)' /\ Cache!Busy(c)' /\ ~HasLoaded(c)'
          /\ ~Keyed(c)'
  BY <1>3, PhaseForGives DEF Cache!Writing, Cache!Reading, Cache!Busy, HasLoaded, Keyed
<1>6. RowsFit'
  <2>1. written' \in Seq(Nat)
    BY <1>1, <1>2 DEF CacheInv, RowsFit
  <2> QED BY <1>1, <1>3, <2>1 DEF CacheInv, RowsFit
<1>7. RequestFits(c)'
  BY <1>1, <1>2, <1>3, <1>5, PhaseForGives DEF RequestFits
<1>8. AloneFits(c)'
  BY <1>3, <1>5 DEF AloneFits, Cache!Reading, Cache!Writing, Cache!Busy
<1>9. Served(c)'
  BY <1>3, <1>5, PhaseForGives DEF Served
<1>10. Cleared(c)'
  <2>1. sweep' = sweep /\ answer' = answer /\ PairFits(answer, sweep)
    BY <1>1 DEF CacheInv
  <2>2. ~("memory" \in sweep.parts /\ Cache!PhaseFor(sweep.parts) = "purge")
    BY PhaseForGives
  <2>3. ~(Cache!PhaseFor(sweep.parts) = "end" /\ sweep.owes /\ sweep.early)
    BY <2>1, PhaseForGives DEF PairFits
  <2> QED BY <1>3, <2>1, <2>2, <2>3 DEF Cleared
<1>11. StampFits'
  <2>1. PICK n \in Nat, m \in Nat :
              n = Cardinality(ToPurge) /\ m = Cardinality(ToPurge') /\ m <= n + 1
    BY <1>3, PurgeCount
  <2>2. /\ answer.version = "none" => stamp = 0
        /\ ~sweep.early => stamp + n <= Cache!db /\ Cache!db <= MaxWrites
    BY <2>1 DEF CacheInv, StampFits
  <2>3. ~sweep.early => stamp' + m <= Cache!db' /\ Cache!db' <= MaxWrites
    BY <1>1, <1>2, <2>1, <2>2, CachesKnown
  <2>4. Cardinality(ToPurge)' = m
    BY <2>1
  <2> HIDE DEF Cache!db
  <2> QED BY <1>1, <2>2, <2>3, <2>4 DEF StampFits
<1>12. \A q \in CacheProcesses, k \in Cache!Keys : Valid(q, k)' => Valid(q, k)
  BY <1>1, <1>3, PhaseForGives DEF Valid, Cache!Lives
<1> QED
  BY <1>1, <1>3, <1>4, <1>5, <1>6, <1>7, <1>8, <1>9, <1>10, <1>11, <1>12, WriterKeeps

LEMMA GoOnGives ==
    ASSUME CacheInv, NEW c \in AnyCalls, Cache!Writing(c),
           NEW phase \in {"purge", "drop", "end"}, Cache!GoOn(c, phase)
    PROVE  /\ calls' \in [AnyCalls -> CallRows] /\ due' \in [CacheProcesses -> Nat]
           /\ \A d \in AnyCalls \ {c} : calls'[d] = calls[d]
           /\ \/ /\ calls'[c] = Cache!Idle /\ phase = "end" /\ ~sweep.early
                 /\ due' = Cache!Owing(c, calls[c].value)
                 /\ calls[c].value \in Nat /\ calls[c].value <= Cache!db
              \/ /\ calls'[c].phase = phase /\ calls'[c].value = calls[c].value
                 /\ SameRequest(calls'[c], c) /\ due' = due
                 /\ phase = "end" => sweep.early
<1>1. due \in [CacheProcesses -> Nat] /\ phase \in Phases
  BY DEF CacheInv, RowsFit, Phases
<1>2. CASE phase = "end" /\ ~sweep.early
  <2>1. calls' = [calls EXCEPT ![c] = Cache!Idle] /\ due' = Cache!Owing(c, calls[c].value)
    BY <1>2 DEF Cache!GoOn
  <2>2. calls[c].value \in Nat /\ calls[c].value <= Cache!db
    BY <1>2, CallTyped DEF CacheInv, RequestFits
  <2> QED BY <1>2, <2>1, <2>2, IdleGives, OwingGives
<1>3. CASE ~(phase = "end" /\ ~sweep.early)
  <2>1. calls' = Cache!Step(c, phase) /\ due' = due
    BY <1>3 DEF Cache!GoOn
  <2>2. sweep.early \in BOOLEAN
    BY DEF CacheInv, PairFits
  <2> QED BY <1>1, <1>3, <2>1, <2>2, StepGives DEF Unlike
<1> QED BY <1>2, <1>3

LEMMA WriterFits ==
    ASSUME CacheInv, NEW c \in AnyCalls, Cache!Writing(c),
           UNCHANGED <<answer, sweep, clock, written>>,
           NEW phase \in {"purge", "drop", "end"}, calls'[c].phase = phase,
           calls'[c].value = calls[c].value, calls'[c].p = calls[c].p,
           calls'[c].since = calls[c].since, calls'[c].missed = calls[c].missed,
           calls'[c].expired = calls[c].expired, calls'[c].alone = calls[c].alone,
           \A d \in AnyCalls \ {c} : calls'[d] = calls[d],
           phase = "purge" => "redis" \in sweep.parts,
           phase = "drop" => "copy" \in sweep.parts
    PROVE  RequestFits(c)' /\ AloneFits(c)' /\ Cache!Writing(c)' /\ ~Cache!Reading(c)
<1>1. Cache!Writing(c)' /\ ~Cache!Reading(c)' /\ ~HasLoaded(c)' /\ Cache!Busy(c)'
          /\ Cache!Busy(c) /\ ~Cache!Reading(c)
  BY DEF Cache!Writing, Cache!Reading, HasLoaded, Cache!Busy
<1>2. RequestFits(c) /\ AloneFits(c)
  BY DEF CacheInv
<1>3. RequestFits(c)'
  BY <1>1, <1>2 DEF RequestFits, Cache!db
<1>4. AloneFits(c)'
  BY <1>1, <1>2 DEF AloneFits, Cache!Reading, Cache!Writing, Cache!Busy
<1> QED BY <1>1, <1>3, <1>4

(* What is owed from now on holds where nothing is kept, and no load under  *)
(* way has read too early.                                                  *)
LEMMA RaisedHolds ==
    ASSUME CacheInv, NEW c \in AnyCalls, calls'[c] = Cache!Idle \/ Cache!Writing(c)',
           \A d \in AnyCalls \ {c} : calls'[d] = calls[d], answer' = answer,
           NEW q \in CacheProcesses, NEW k \in Cache!Keys, NEW n \in Nat,
           ~Cache!Lives(memory[q][k])', ~Cache!Lives(redis[k])',
           \A e \in AnyCalls : HasLoaded(e) /\ calls[e].key = k => calls[e].value >= n,
           \A e \in AnyCalls :
              calls[e].phase = "heard" /\ calls[e].p = q /\ calls[e].key = k
                  /\ answer.memory
                 => calls[e].value >= n
    PROVE  Holds(q, k, n)'
<1>1. \A e \in AnyCalls : HasLoaded(e)' \/ calls'[e].phase = "heard" => e # c
  BY IdleTyped DEF HasLoaded, Cache!Writing
<1>2. \A e \in AnyCalls : HasLoaded(e)' => HasLoaded(e) /\ calls'[e] = calls[e]
  BY <1>1 DEF HasLoaded
<1> QED BY <1>1, <1>2 DEF Holds

LEMMA SameStamp ==
    ASSUME CacheInv, stamp' = stamp, UNCHANGED <<answer, sweep, written>>,
           NEW c \in AnyCalls,
           \A d \in AnyCalls \ {c} : calls'[d] = calls[d],
               c \in ToPurge \/ c \notin ToPurge'
    PROVE  StampFits'
<1>1. PICK n \in Nat, m \in Nat :
            n = Cardinality(ToPurge) /\ m = Cardinality(ToPurge') /\ m <= n
  BY PurgeCount
<1>2. stamp \in Nat /\ Cache!db \in Nat
  BY CallTyped
<1>3. /\ answer.version = "none" => stamp = 0
      /\ ~sweep.early => stamp + n <= Cache!db /\ Cache!db <= MaxWrites
  BY <1>1 DEF CacheInv, StampFits
<1>4. ~sweep.early => stamp' + m <= Cache!db /\ Cache!db <= MaxWrites
  BY <1>1, <1>2, <1>3
<1>5. Cardinality(ToPurge)' = m /\ Cache!db' = Cache!db
  BY <1>1 DEF Cache!db
<1> HIDE DEF Cache!db
<1> QED BY <1>3, <1>4, <1>5 DEF StampFits

LEMMA ClearKeeps ==
    ASSUME CacheInv, NEW c \in AnyCalls, Cache!Clear(c) PROVE CacheInv'
<1> DEFINE p == calls[c].p
           phase == Cache!PhaseFor(sweep.parts \ {"pending", "memory"})
           empty == [k \in Cache!Keys |-> Cache!Nothing]
           nobody == [k \in Cache!Keys |-> Cache!NoCall]
<1>1. /\ UNCHANGED <<answer, sweep, redis, stamp, copies, written, clock>>
      /\ calls[c].phase = "clear" /\ Cache!GoOn(c, phase)
  BY DEF Cache!Clear, Cache!Fixed, Cache!Time
<1>2. /\ Cache!Writing(c) /\ ~Cache!Reading(c) /\ Cache!Busy(c) /\ RequestFits(c)
          /\ p \in CacheProcesses
      /\ clock \in Nat /\ stamp \in Nat /\ 0 \in Cache!Keys
  BY <1>1, CallTyped DEF Cache!Writing, Cache!Reading, Cache!Busy, CacheInv
<1>3. phase \in {"purge", "end"} /\ phase \in {"purge", "drop", "end"}
  <2>1. phase # "clear"
    BY DEF Cache!PhaseFor
  <2> QED BY <2>1, PhaseForGives
<1>4. /\ phase = "purge" => "redis" \in sweep.parts
      /\ phase = "end" => "redis" \notin sweep.parts
  BY PhaseForGives
<1>5. /\ memory' \in [CacheProcesses -> [Cache!Keys -> CopyRows]]
      /\ \A q \in CacheProcesses, k \in Cache!Keys :
            memory'[q][k] = memory[q][k] \/ memory'[q][k] = Cache!Nothing
      /\ "memory" \in sweep.parts => \A k \in Cache!Keys : memory'[p][k] = Cache!Nothing
  <2>1. empty \in [Cache!Keys -> CopyRows] /\ \A k \in Cache!Keys : empty[k] = Cache!Nothing
    BY DEF Cache!Nothing, CopyRows
  <2>2. memory' = IF "memory" \in sweep.parts THEN [memory EXCEPT ![p] = empty] ELSE memory
    BY DEF Cache!Clear
  <2>3. memory \in [CacheProcesses -> [Cache!Keys -> CopyRows]]
    BY DEF CacheInv, RowsFit
  <2> HIDE DEF empty, p
  <2> QED BY <1>2, <2>1, <2>2, <2>3
<1>6. /\ underWay' \in [CacheProcesses -> [Cache!Keys -> AnyCalls \cup {Cache!NoCall}]]
      /\ \A q \in CacheProcesses, k \in Cache!Keys :
            underWay'[q][k] = underWay[q][k] \/ underWay'[q][k] = Cache!NoCall
  <2>1. nobody \in [Cache!Keys -> AnyCalls \cup {Cache!NoCall}]
            /\ \A k \in Cache!Keys : nobody[k] = Cache!NoCall
    OBVIOUS
  <2>2. underWay' = IF "pending" \in sweep.parts
                   THEN [underWay EXCEPT ![p] = nobody] ELSE underWay
    BY DEF Cache!Clear
  <2>3. underWay \in [CacheProcesses -> [Cache!Keys -> AnyCalls \cup {Cache!NoCall}]]
    BY DEF CacheInv, RowsFit
  <2> HIDE DEF nobody, p
  <2> QED BY <1>2, <2>1, <2>2, <2>3
<1> HIDE DEF empty, nobody, phase
<1>7. \A q \in CacheProcesses,
          k \in Cache!Keys : memory'[q][k] = Cache!Nothing => ~Cache!Lives(memory[q][k])'
  BY <1>1, <1>2 DEF Cache!Lives, Cache!Nothing
<1>8. Lost
  BY <1>1, <1>2, <1>5, <1>6, <1>7 DEF Lost
<1>9. /\ calls' \in [AnyCalls -> CallRows] /\ due' \in [CacheProcesses -> Nat]
      /\ \A d \in AnyCalls \ {c} : calls'[d] = calls[d]
      /\ \/ /\ calls'[c] = Cache!Idle /\ phase = "end" /\ ~sweep.early
            /\ due' = Cache!Owing(c, calls[c].value)
            /\ calls[c].value \in Nat /\ calls[c].value <= Cache!db
         \/ /\ calls'[c].phase = phase /\ calls'[c].value = calls[c].value
            /\ SameRequest(calls'[c], c) /\ due' = due
            /\ phase = "end" => sweep.early
  BY <1>1, <1>2, <1>3, GoOnGives
<1>10. RowsFit'
  BY <1>1, <1>5, <1>6, <1>9 DEF CacheInv, RowsFit
<1>11. /\ calls'[c] = Cache!Idle \/ Cache!Writing(c)'
       /\ RequestFits(c)' /\ AloneFits(c)'
  BY <1>1, <1>2, <1>3, <1>4, <1>9, IdleRequestFits, WriterFits DEF SameRequest
<1>12. Served(c)'
  BY <1>3, <1>9, IdleRequestFits DEF Served, Keyed
<1>13. Cleared(c)'
  <2>1. CASE /\ calls'[c].phase = phase /\ SameRequest(calls'[c], c)
             /\ phase = "end" => sweep.early
    <3>1. "memory" \in sweep.parts => ~Cache!Lives(memory[calls[c].p][0])'
      BY <1>2, <1>5, <1>7, <2>1 DEF SameRequest, p
    <3>2. PairFits(answer, sweep) /\ answer' = answer /\ sweep' = sweep /\ stamp' = stamp
      BY <1>1 DEF CacheInv
    <3>3. ASSUME phase = "end", sweep.owes
          PROVE  ~Cache!Lives(memory[calls[c].p][0])' /\ ~Cache!Lives(redis[0])'
      <4>1. ~answer.redis /\ sweep.early
        BY <1>4, <2>1, <3>2, <3>3 DEF PairFits
      <4>2. answer.memory /\ "memory" \in sweep.parts
        BY <3>2, <3>3, <4>1 DEF PairFits
      <4>3. ~Cache!Lives(redis[0])'
        BY <1>1, <1>2, <4>1 DEF CacheInv, CopiesFit, Cache!Lives
      <4> QED BY <3>1, <4>2, <4>3
    <3> QED BY <1>3, <2>1, <3>1, <3>2, <3>3 DEF Cleared
  <2> QED BY <1>9, <2>1, IdleRequestFits
<1>14. StampFits'
  <2>1. c \in ToPurge
    BY <1>1 DEF ToPurge
  <2> QED BY <1>1, <1>9, <2>1, SameStamp
<1>15. \A q \in CacheProcesses, k \in Cache!Keys : Valid(q, k)' => Valid(q, k)
  BY <1>1, <1>3, <1>9, IdleTyped DEF Valid, Cache!Lives
<1>16. ASSUME NEW q \in CacheProcesses, due'[q] # due[q]
       PROVE  \E n \in Nat : /\ due'[q] = n /\ n <= Cache!db'
                             /\ \A k \in Cache!Keys : Valid(q, k)' => Holds(q, k, n)'
  <2>1. /\ calls'[c] = Cache!Idle /\ phase = "end" /\ ~sweep.early
        /\ calls[c].value \in Nat /\ calls[c].value <= Cache!db /\ due'[q] = calls[c].value
        /\ sweep.owes /\ ~Cache!Returns(c) /\ (answer.memory => q = p)
    BY <1>9, <1>16, OwingGives DEF p
  <2>2. /\ ~answer.redis /\ answer.memory /\ answer.version = "none"
        /\ "memory" \in sweep.parts
    <3>1. PairFits(answer, sweep)
      BY DEF CacheInv
    <3>2. ~answer.redis /\ sweep.owes
      BY <1>4, <2>1, <3>1 DEF PairFits
    <3>3. answer.memory /\ answer.version = "none"
      BY <3>1, <3>2 DEF PairFits
    <3> QED BY <3>1, <3>2, <3>3 DEF PairFits
  <2>6. ~Cache!Returns(c) /\ ~sweep.early
    BY <2>1
  <2>3. PICK n \in Nat : n = calls[c].value
    BY <2>1
  <2>4. \A e \in AnyCalls : HasLoaded(e) => calls[e].value >= n
    <3>1. \A e \in AnyCalls : HasLoaded(e) => ~(calls[e].value < calls[c].value)
      BY <2>2, <2>6 DEF Cache!Returns, HasLoaded
    <3> QED BY <2>3, <3>1, CallTyped
  <2>5. ASSUME NEW k \in Cache!Keys PROVE Holds(q, k, n)'
    <3>1. ~Cache!Lives(memory[q][k])'
      <4>1. q = p
        BY <2>1, <2>2
      <4>2. memory'[q][k] = Cache!Nothing
        BY <1>5, <2>2, <4>1
      <4> QED BY <1>7, <4>2
    <3>2. ~Cache!Lives(redis[k])'
      BY <1>1, <2>2 DEF CacheInv, CopiesFit, Cache!Lives
    <3>3. \A e \in AnyCalls : calls[e].phase # "heard"
      BY <2>2 DEF CacheInv, RequestFits
    <3> QED BY <1>1, <1>9, <2>1, <2>4, <3>1, <3>2, <3>3, RaisedHolds
  <2> QED BY <1>1, <2>1, <2>3, <2>5 DEF Cache!db
<1> QED
  BY <1>2, <1>8, <1>9, <1>10, <1>11, <1>12, <1>13, <1>14, <1>15, <1>16, WriterKeeps

LEMMA PurgeFailsKeeps ==
    ASSUME CacheInv, NEW c \in AnyCalls, Cache!PurgeFails(c) PROVE CacheInv'
<1> DEFINE phase == IF "copy" \in sweep.parts THEN "drop" ELSE "end"
<1>1. /\ UNCHANGED <<answer, sweep, memory, redis, stamp, copies, underWay,
                     written, clock, due>>
      /\ calls[c].phase = "purge"
  BY DEF Cache!PurgeFails, Cache!Fixed, Cache!Copies, Cache!Time
<1>2. /\ Cache!Writing(c) /\ ~Cache!Reading(c) /\ Cache!Busy(c) /\ RequestFits(c)
          /\ calls \in [AnyCalls -> CallRows]
      /\ stamp \in Nat
  BY <1>1, CallTyped DEF Cache!Writing, Cache!Reading, Cache!Busy, CacheInv, RowsFit
<1>3. phase \in {"drop", "end"} /\ phase \in {"purge", "drop", "end"} /\ phase \in Phases
  BY DEF Phases
<1>4. phase = "drop" => "copy" \in sweep.parts
  OBVIOUS
<1>5. calls' = [calls EXCEPT ![c].phase = phase, ![c].failed = TRUE]
  BY DEF Cache!PurgeFails
<1> HIDE DEF phase
<1>6. /\ calls' \in [AnyCalls -> CallRows] /\ \A d \in AnyCalls \ {c} : calls'[d] = calls[d]
      /\ calls'[c].phase = phase /\ calls'[c].failed
      /\ calls'[c].value = calls[c].value /\ calls'[c].p = calls[c].p
      /\ calls'[c].since = calls[c].since /\ calls'[c].missed = calls[c].missed
      /\ calls'[c].expired = calls[c].expired /\ calls'[c].alone = calls[c].alone
  BY ZenonT(40), <1>2, <1>3, <1>5 DEF CallRows
<1>7. Lost
  BY <1>1, <1>2 DEF Lost
<1>8. RequestFits(c)' /\ AloneFits(c)' /\ Cache!Writing(c)'
  BY <1>1, <1>2, <1>3, <1>4, <1>6, WriterFits
<1>9. Served(c)' /\ Cleared(c)'
  BY <1>3, <1>6 DEF Served, Cleared, Keyed
<1>10. StampFits'
  <2>1. c \in ToPurge
    BY <1>1 DEF ToPurge
  <2> QED BY <1>1, <1>6, <2>1, SameStamp
<1>11. RowsFit'
  BY <1>1, <1>6 DEF CacheInv, RowsFit
<1>12. \A q \in CacheProcesses, k \in Cache!Keys : Valid(q, k)' => Valid(q, k)
  BY <1>1, <1>3, <1>6 DEF Valid, Cache!Lives
<1> QED BY <1>1, <1>2, <1>6, <1>7, <1>8, <1>9, <1>10, <1>11, <1>12, WriterKeeps

LEMMA DropCopyKeeps ==
    ASSUME CacheInv, NEW c \in AnyCalls, Cache!DropCopy(c) PROVE CacheInv'
<1> DEFINE p == calls[c].p
<1>1. /\ UNCHANGED <<answer, sweep, memory, redis, stamp, underWay, written, clock>>
      /\ calls[c].phase = "drop" /\ Cache!GoOn(c, "end")
      /\ copies' = [copies EXCEPT ![p] = Cache!Nothing]
  BY DEF Cache!DropCopy, Cache!Fixed, Cache!Time
<1>2. /\ Cache!Writing(c) /\ ~Cache!Reading(c) /\ Cache!Busy(c) /\ RequestFits(c)
          /\ Served(c) /\ p \in CacheProcesses
      /\ clock \in Nat /\ stamp \in Nat /\ "copy" \in sweep.parts
  BY <1>1, CallTyped DEF Cache!Writing, Cache!Reading, Cache!Busy, CacheInv, RequestFits
<1>3. answer.version = "copied" /\ ~sweep.early /\ answer.memory
  BY <1>2 DEF CacheInv, PairFits
<1>4. /\ calls' \in [AnyCalls -> CallRows] /\ due' \in [CacheProcesses -> Nat]
      /\ \A d \in AnyCalls \ {c} : calls'[d] = calls[d]
      /\ calls'[c] = Cache!Idle /\ due' = Cache!Owing(c, calls[c].value)
      /\ calls[c].value \in Nat /\ calls[c].value <= Cache!db
  BY <1>1, <1>2, <1>3, GoOnGives
<1>5. /\ copies' \in [CacheProcesses -> CopyRows]
      /\ \A q \in CacheProcesses : copies'[q] = copies[q] \/ ~Cache!Lives(copies[q])'
      /\ \A q \in CacheProcesses : q = p => ~Cache!Lives(copies[q])'
  <2>1. Cache!Nothing \in CopyRows /\ Cache!Nothing.until = 0
    BY DEF Cache!Nothing, CopyRows
  <2>2. copies \in [CacheProcesses -> CopyRows]
    BY DEF CacheInv, RowsFit
  <2> HIDE DEF p
  <2>3. /\ copies' \in [CacheProcesses -> CopyRows]
        /\ \A q \in CacheProcesses : copies'[q] = IF q = p THEN Cache!Nothing ELSE copies[q]
    BY <1>1, <1>2, <2>1, <2>2
  <2>4. \A q \in CacheProcesses : copies'[q] = Cache!Nothing => ~Cache!Lives(copies[q])'
    BY <1>1, <1>2, <2>1 DEF Cache!Lives
  <2> QED BY <2>3, <2>4
<1>6. Lost
  BY <1>1, <1>2, <1>5 DEF Lost
<1>7. StampFits'
  <2>1. c \notin ToPurge'
    BY <1>4, IdleTyped DEF ToPurge
  <2> QED BY <1>1, <1>4, <2>1, SameStamp
<1>8. RowsFit'
  BY <1>1, <1>4, <1>5 DEF CacheInv, RowsFit
<1>9. \A q \in CacheProcesses, k \in Cache!Keys : Valid(q, k)' => Valid(q, k)
  BY <1>1, <1>4, <1>5, IdleTyped DEF Valid, Cache!Lives
<1>10. ASSUME NEW q \in CacheProcesses, due'[q] # due[q]
       PROVE  \E n \in Nat : /\ due'[q] = n /\ n <= Cache!db'
                             /\ \A k \in Cache!Keys : Valid(q, k)' => Holds(q, k, n)'
  <2>1. /\ due'[q] = calls[c].value /\ ~calls[c].failed /\ ~Cache!Returns(c) /\ q = p
    BY <1>3, <1>4, <1>10, OwingGives DEF p
  <2>2. PICK n \in Nat : n = calls[c].value /\ n <= Cache!db
    BY <1>4
  <2>3. Holds(q, stamp, n)
    BY <1>1, <1>2, <2>1, <2>2 DEF Served
  <2>4. ASSUME NEW k \in Cache!Keys, Valid(q, k)' PROVE k = stamp
    <3>1. ~Cache!Lives(copies[q])'
      BY <1>5, <2>1
    <3>2. CASE k # stamp
      <4>1. PICK d \in AnyCalls : calls'[d].phase = "versioned" /\ calls'[d].value = k
        BY <1>1, <2>4, <3>1, <3>2 DEF Valid
      <4>2. d # c /\ calls[d].phase = "versioned" /\ calls[d].value = k
        BY <1>4, <4>1, IdleTyped
      <4>3. k \in 0 .. stamp
        BY <4>2 DEF CacheInv, RequestFits
      <4>4. ~(k < stamp)
        BY <1>3, <2>1, <4>2 DEF Cache!Returns
      <4> QED BY <1>2, <4>3, <4>4
    <3> QED BY <3>2
  <2>5. ASSUME NEW k \in Cache!Keys, Valid(q, k)' PROVE Holds(q, k, n)'
    <3>1. Holds(q, k, n)
      BY <2>3, <2>4, <2>5
    <3>2. Flow
      BY <1>4, <1>6, LostFlow
    <3> QED BY <1>1, <1>2, <2>2, <3>1, <3>2, HoldsStays
  <2> QED BY <1>1, <2>1, <2>2, <2>5 DEF Cache!db
<1> QED
  BY <1>2, <1>4, <1>6, <1>7, <1>8, <1>9, <1>10, IdleRequestFits, WriterKeeps

LEMMA PurgeKeeps ==
    ASSUME CacheInv, NEW c \in AnyCalls, Cache!Purge(c) PROVE CacheInv'
<1> DEFINE p == calls[c].p
           phase == IF "copy" \in sweep.parts THEN "drop" ELSE "end"
<1>1. /\ UNCHANGED <<answer, sweep, memory, copies, underWay, written, clock>>
      /\ calls[c].phase = "purge" /\ Cache!GoOn(c, phase)
      /\ redis' = IF answer.version = "none" THEN [redis EXCEPT ![0]
            = Cache!Nothing] ELSE redis
      /\ stamp' = IF answer.version = "none" THEN stamp ELSE stamp + 1
  BY DEF Cache!Purge, Cache!Fixed, Cache!Time
<1>2. /\ Cache!Writing(c) /\ ~Cache!Reading(c) /\ Cache!Busy(c) /\ RequestFits(c)
          /\ AloneFits(c) /\ Cleared(c)
      /\ p \in CacheProcesses /\ clock \in Nat /\ stamp \in Nat /\ stamp \in Cache!Keys
            /\ 0 \in Cache!Keys
      /\ "redis" \in sweep.parts /\ Cache!db \in Nat /\ PairFits(answer, sweep)
  BY <1>1, CallTyped DEF Cache!Writing, Cache!Reading, Cache!Busy, CacheInv, RequestFits
<1>3. phase \in {"drop", "end"} /\ phase \in {"purge", "drop", "end"}
  OBVIOUS
<1>4. /\ phase = "drop" => "copy" \in sweep.parts /\ answer.version = "copied"
      /\ phase = "end" => "copy" \notin sweep.parts
  BY <1>2 DEF PairFits
<1> HIDE DEF phase
<1>5. /\ calls' \in [AnyCalls -> CallRows] /\ due' \in [CacheProcesses -> Nat]
      /\ \A d \in AnyCalls \ {c} : calls'[d] = calls[d]
      /\ \/ /\ calls'[c] = Cache!Idle /\ phase = "end" /\ ~sweep.early
            /\ due' = Cache!Owing(c, calls[c].value)
            /\ calls[c].value \in Nat /\ calls[c].value <= Cache!db
         \/ /\ calls'[c].phase = phase /\ calls'[c].value = calls[c].value
            /\ SameRequest(calls'[c], c) /\ due' = due
            /\ phase = "end" => sweep.early
  BY <1>1, <1>2, <1>3, GoOnGives
<1>6. /\ redis' \in [Cache!Keys -> CopyRows]
      /\ \A k \in Cache!Keys : redis'[k] = redis[k] \/ ~Cache!Lives(redis[k])'
      /\ answer.version = "none" => ~Cache!Lives(redis[0])'
  <2>1. Cache!Nothing \in CopyRows /\ Cache!Nothing.until = 0
    BY DEF Cache!Nothing, CopyRows
  <2>2. redis \in [Cache!Keys -> CopyRows]
    BY DEF CacheInv, RowsFit
  <2>3. /\ redis' \in [Cache!Keys -> CopyRows]
        /\ \A k \in Cache!Keys : redis'[k] = redis[k] \/ redis'[k] = Cache!Nothing
        /\ answer.version = "none" => redis'[0] = Cache!Nothing
    BY <1>1, <1>2, <2>1, <2>2
  <2>4. \A k \in Cache!Keys : redis'[k] = Cache!Nothing => ~Cache!Lives(redis[k])'
    BY <1>1, <1>2, <2>1 DEF Cache!Lives
  <2> QED BY <1>2, <2>3, <2>4
<1>7. c \in ToPurge /\ c \notin ToPurge'
  BY <1>1, <1>3, <1>5, IdleTyped DEF ToPurge
<1>8. stamp' \in Cache!Keys /\ stamp' \in Nat /\ stamp <= stamp' /\ StampFits'
  <2>1. CASE answer.version = "none"
    <3>1. stamp' = stamp
      BY <1>1, <2>1
    <3> QED BY <1>1, <1>2, <1>5, <1>7, <3>1, SameStamp
  <2>2. CASE answer.version # "none"
    <3>1. ~sweep.early /\ stamp' = stamp + 1
      BY <1>1, <1>2, <2>2 DEF PairFits
    <3>2. PICK n \in Nat, m \in Nat :
                n = Cardinality(ToPurge) /\ m = Cardinality(ToPurge') /\ m <= n - 1
      BY <1>5, <1>7, PurgeCount
    <3>3. stamp + n <= Cache!db /\ Cache!db <= MaxWrites
      BY <3>1, <3>2 DEF CacheInv, StampFits
    <3>4. stamp' + m <= Cache!db /\ stamp' \in 0 .. MaxWrites /\ stamp <= stamp'
              /\ stamp' \in Nat
      BY <1>2, <3>1, <3>2, <3>3, CachesKnown
    <3>5. Cardinality(ToPurge)' = m /\ Cache!db' = Cache!db
      BY <1>1, <3>2 DEF Cache!db
    <3> HIDE DEF Cache!db
    <3> QED BY <1>1, <2>2, <3>3, <3>4, <3>5 DEF StampFits, Cache!Keys
  <2> QED BY <2>1, <2>2
<1>9. Lost
  BY <1>1, <1>6, <1>8 DEF Lost
<1>10. RowsFit'
  BY <1>1, <1>5, <1>6, <1>8 DEF CacheInv, RowsFit
<1>11. /\ calls'[c] = Cache!Idle \/ Cache!Writing(c)'
       /\ RequestFits(c)' /\ AloneFits(c)'
  BY <1>1, <1>2, <1>3, <1>4, <1>5, IdleRequestFits, WriterFits DEF SameRequest
<1>12. Flow
  BY <1>5, <1>9, <1>11, LostFlow
<1>13. Served(c)'
  <2>1. CASE phase = "drop" /\ SameRequest(calls'[c], c) /\ calls'[c].phase = phase
                /\ calls'[c].value = calls[c].value
    <3>1. stamp' > stamp /\ ~sweep.early
      BY <1>1, <1>2, <1>4, <2>1 DEF PairFits
    <3>2. PICK q \in CacheProcesses, k \in Cache!Keys, n \in Int :
                q = p /\ k = stamp' /\ n = calls[c].value /\ n <= Cache!db
      BY <1>1, <1>2, <1>8, <3>1, CallTyped DEF RequestFits
    <3>3. Holds(q, k, n)
      BY <3>1, <3>2, NothingAhead
    <3>4. Holds(q, k, n)'
      BY <1>1, <1>2, <1>12, <3>2, <3>3, HoldsStays
    <3> QED BY <2>1, <3>2, <3>4 DEF Served, Keyed, SameRequest, p
  <2>2. CASE phase = "end" /\ calls'[c].phase = phase
    BY <2>2 DEF Served, Keyed
  <2> QED BY <1>3, <1>5, <2>1, <2>2, IdleRequestFits
<1>14. Cleared(c)'
  <2>1. CASE calls'[c].phase = phase /\ SameRequest(calls'[c], c)
    <3>1. ASSUME phase = "end", sweep.early, sweep.owes
          PROVE  ~Cache!Lives(memory[calls[c].p][0])' /\ ~Cache!Lives(redis[0])'
      <4>1. answer.version = "none" /\ answer.redis
        BY <1>2, <3>1 DEF PairFits
      <4>2. ~answer.memory
        BY <1>2, <3>1, <4>1 DEF PairFits
      <4>3. \A q \in CacheProcesses : ~Cache!Lives(memory[q][0])'
        BY <1>1, <1>2, <4>2 DEF CacheInv, CopiesFit, Cache!Lives
      <4>4. calls'[c].p \in CacheProcesses
        BY <1>2, <2>1 DEF SameRequest
      <4> QED BY <1>6, <4>1, <4>3, <4>4
    <3> QED BY <1>1, <1>3, <2>1, <3>1 DEF Cleared
  <2> QED BY <1>5, <2>1, IdleRequestFits
<1>15. \A q \in CacheProcesses, k \in Cache!Keys : Valid(q, k)' => Valid(q, k) \/ k > stamp
  <2>1. stamp' = stamp \/ stamp' > stamp
    BY <1>1, <1>2
  <2>2. \A d \in AnyCalls : calls'[d].phase = "versioned" => d # c
    BY <1>3, <1>5, IdleTyped
  <2> QED BY <1>1, <1>5, <2>1, <2>2 DEF Valid, Cache!Lives
<1>16. ASSUME NEW q \in CacheProcesses, due'[q] # due[q]
       PROVE  \E n \in Nat : /\ due'[q] = n /\ n <= Cache!db'
                             /\ \A k \in Cache!Keys : Valid(q, k)' => Holds(q, k, n)'
  <2>1. /\ calls'[c] = Cache!Idle /\ phase = "end" /\ ~sweep.early
        /\ calls[c].value \in Nat /\ calls[c].value <= Cache!db /\ due'[q] = calls[c].value
        /\ sweep.owes /\ ~Cache!Returns(c) /\ (answer.memory => q = p)
    BY <1>5, <1>16, OwingGives DEF p
  <2>2. PICK n \in Nat : n = calls[c].value /\ n <= Cache!db
    BY <2>1
  <2>3. answer.version # "copied" /\ answer.redis
    BY <1>2, <1>4, <2>1 DEF PairFits
  <2>4. CASE answer.version = "redis"
    <3>1. ASSUME NEW k \in Cache!Keys, Valid(q, k)' PROVE Holds(q, k, n)'
      <4>1. k = stamp' /\ stamp' > stamp
        BY <1>1, <1>2, <2>3, <3>1, <2>4 DEF Valid
      <4>2. Holds(q, k, n)
        BY <4>1, NothingAhead
      <4>3. clock' \in Nat /\ n \in Int /\ n <= Cache!db
        BY <1>1, <1>2, <2>2
      <4> QED BY <1>12, <4>2, <4>3, HoldsStays
    <3> QED BY <1>1, <2>1, <2>2, <3>1 DEF Cache!db
  <2>5. CASE answer.version = "none"
    <3>1. stamp' = 0
      BY <1>1, <2>5 DEF CacheInv, StampFits
    <3>2. ~Cache!Lives(redis[0])'
      BY <1>6, <2>5
    <3>3. /\ ~Cache!Lives(memory[q][0])'
          /\ \A e \in AnyCalls : HasLoaded(e) => calls[e].value >= n
          /\ \A e \in AnyCalls : calls[e].phase = "heard" /\ answer.memory
                => calls[e].value >= n
      <4>1. CASE answer.memory
        <5>1. calls[c].alone /\ "memory" \in sweep.parts
          BY <1>2, <2>1, <2>3, <2>5, <4>1 DEF Cache!Returns, PairFits
        <5>2. ~Cache!Lives(memory[p][0]) /\ q = p
          BY <1>1, <1>2, <2>1, <4>1, <5>1 DEF Cleared
        <5>3. ~Cache!Lives(memory[q][0])'
          BY <1>1, <5>2 DEF Cache!Lives
        <5>4. \A e \in AnyCalls : ~Cache!Reading(e)
          BY <1>2, <5>1 DEF AloneFits
        <5>5. \A e \in AnyCalls : ~HasLoaded(e) /\ calls[e].phase # "heard"
          BY <5>4 DEF HasLoaded, Cache!Reading, Cache!Writing, Cache!Busy
        <5> QED BY <5>3, <5>5
      <4>2. CASE ~answer.memory
        <5>1. ~Cache!Lives(memory[q][0])'
          BY <1>1, <1>2, <4>2 DEF CacheInv, CopiesFit, Cache!Lives
        <5>2. ~Cache!Returns(c) /\ ~sweep.early
          BY <2>1
        <5>3. \A e \in AnyCalls : HasLoaded(e) => ~(calls[e].value < calls[c].value)
          BY <2>5, <4>2, <5>2 DEF Cache!Returns, HasLoaded
        <5>4. \A e \in AnyCalls : HasLoaded(e) => calls[e].value >= n
          BY <2>2, <5>3, CallTyped
        <5> QED BY <4>2, <5>1, <5>4
      <4> QED BY <4>1, <4>2
    <3>4. PICK k \in Cache!Keys : k = 0
      BY <1>2
    <3>5. ~Cache!Lives(redis[k])' /\ ~Cache!Lives(memory[q][k])'
      BY <3>2, <3>3, <3>4
    <3>6. Holds(q, k, n)'
      BY <1>1, <1>5, <2>1, <3>3, <3>5, RaisedHolds
    <3>7. \A j \in Cache!Keys : Valid(q, j)' => j = k
      BY <1>1, <2>5, <3>1, <3>4 DEF Valid
    <3>8. \A j \in Cache!Keys : Valid(q, j)' => Holds(q, j, n)'
      BY <3>6, <3>7
    <3> QED BY <1>1, <2>1, <2>2, <3>8 DEF Cache!db
  <2> QED BY <1>2, <2>3, <2>4, <2>5 DEF PairFits
<1> QED
  BY <1>2, <1>5, <1>9, <1>10, <1>11, <1>13, <1>14, <1>8, <1>15, <1>16, WriterKeeps

LEMMA EndWriteKeeps ==
    ASSUME CacheInv, NEW c \in AnyCalls, Cache!End(c) PROVE CacheInv'
<1>1. /\ UNCHANGED <<answer, sweep, memory, redis, stamp, copies, underWay, clock>>
      /\ calls[c].phase = "end" /\ calls' = [calls EXCEPT ![c] = Cache!Idle]
      /\ IF sweep.early THEN written' = Append(written, clock) /\ due' = Cache!Owing(c,
            Cache!db + 1)
         ELSE written' = written /\ due' = due
  BY DEF Cache!End, Cache!Fixed, Cache!Copies, Cache!Time
<1>2. /\ Cache!Writing(c) /\ ~Cache!Reading(c) /\ Cache!Busy(c) /\ AloneFits(c)
          /\ Cleared(c)
      /\ calls[c].p \in CacheProcesses /\ clock \in Nat /\ stamp \in Nat /\ 0 \in Cache!Keys
      /\ Cache!db \in Nat /\ Cache!db + 1 \in Nat /\ PairFits(answer,
            sweep) /\ written \in Seq(Nat)
  BY <1>1, CallTyped DEF Cache!Writing, Cache!Reading, Cache!Busy, CacheInv, RowsFit
<1>3. /\ calls' \in [AnyCalls -> CallRows] /\ calls'[c] = Cache!Idle
      /\ \A d \in AnyCalls \ {c} : calls'[d] = calls[d]
  BY <1>1, IdleGives
<1>4. Lost
  BY <1>1, <1>2 DEF Lost
<1>5. RowsFit'
  <2>1. written' \in Seq(Nat)
    BY <1>1, <1>2
  <2>2. due' \in [CacheProcesses -> Nat]
    BY <1>1, <1>2, OwingGives DEF CacheInv, RowsFit
  <2> QED BY <1>1, <1>3, <2>1, <2>2 DEF CacheInv, RowsFit
<1>6. StampFits'
  <2>1. CASE sweep.early
    BY <1>1, <2>1 DEF CacheInv, StampFits
  <2>2. CASE ~sweep.early
    <3>1. c \notin ToPurge'
      BY <1>3, IdleTyped DEF ToPurge
    <3> QED BY <1>1, <1>3, <2>2, <3>1, SameStamp
  <2> QED BY <2>1, <2>2
<1>7. \A q \in CacheProcesses, k \in Cache!Keys : Valid(q, k)' => Valid(q, k)
  BY <1>1, <1>3, IdleTyped DEF Valid, Cache!Lives
<1>8. ASSUME NEW q \in CacheProcesses, due'[q] # due[q]
      PROVE  \E n \in Nat : /\ due'[q] = n /\ n <= Cache!db'
                            /\ \A k \in Cache!Keys : Valid(q, k)' => Holds(q, k, n)'
  <2>1. /\ sweep.early /\ due'[q] = Cache!db + 1 /\ sweep.owes /\ ~calls[c].failed
        /\ ~Cache!Returns(c) /\ (answer.memory => q = calls[c].p)
    BY <1>1, <1>2, <1>8, OwingGives
  <2>2. PICK n \in Nat : n = Cache!db + 1
    BY <1>2
  <2>3. Cache!db' = n
    BY <1>1, <1>2, <2>1, <2>2 DEF Cache!db
  <2>4. answer.version = "none" /\ stamp = 0
    BY <1>2, <2>1 DEF PairFits, CacheInv, StampFits
  <2>5. calls[c].alone
    BY <2>1, <2>4 DEF Cache!Returns
  <2>6. \A e \in AnyCalls : ~HasLoaded(e) /\ calls[e].phase # "heard"
    <3>1. \A e \in AnyCalls : ~Cache!Reading(e)
      BY <1>2, <2>5 DEF AloneFits
    <3> QED BY <3>1 DEF HasLoaded, Cache!Reading, Cache!Writing, Cache!Busy
  <2>7. ~Cache!Lives(redis[0])' /\ ~Cache!Lives(memory[q][0])'
    <3>1. ~Cache!Lives(memory[calls[c].p][0]) /\ ~Cache!Lives(redis[0])
      BY <1>1, <1>2, <2>1, <2>5 DEF Cleared
    <3>2. CASE answer.memory
      BY <1>1, <2>1, <3>1, <3>2 DEF Cache!Lives
    <3>3. CASE ~answer.memory
      BY <1>1, <1>2, <3>1, <3>3 DEF CacheInv, CopiesFit, Cache!Lives
    <3> QED BY <3>2, <3>3
  <2>8. PICK k \in Cache!Keys : k = 0
    BY <1>2
  <2>9. ~Cache!Lives(redis[k])' /\ ~Cache!Lives(memory[q][k])'
    BY <2>7, <2>8
  <2>10. Holds(q, k, n)'
    BY <1>1, <1>3, <2>6, <2>9, RaisedHolds
  <2>11. \A j \in Cache!Keys : Valid(q, j)' => j = k
    BY <1>1, <2>4, <2>8 DEF Valid
  <2>12. \A j \in Cache!Keys : Valid(q, j)' => Holds(q, j, n)'
    BY <2>10, <2>11
  <2> QED BY <2>1, <2>2, <2>3, <2>12
<1> QED
  BY <1>2, <1>3, <1>4, <1>5, <1>6, <1>7, <1>8, IdleRequestFits, WriterKeeps

-----------------------------------------------------------------------------
(* The whole behaviour.                                                     *)

LEMMA CacheBegins ==
    ASSUME Cache!Init PROVE CacheInv
<1>1. PICK pair \in Cache!Pairs : answer = pair.kept /\ sweep = pair.sweep
  BY DEF Cache!Init
<1>2. PairFits(answer, sweep)
  BY <1>1, PairsFit
<1>3. /\ \A p \in CacheProcesses : memory[p] = [k \in Cache!Keys |-> Cache!Nothing]
      /\ \A p \in CacheProcesses,
            k \in Cache!Keys : memory[p][k] = Cache!Nothing /\ underWay[p][k] = Cache!NoCall
      /\ \A k \in Cache!Keys : redis[k] = Cache!Nothing
      /\ \A p \in CacheProcesses : copies[p] = Cache!Nothing /\ due[p] = 0
      /\ \A c \in AnyCalls : calls[c] = Cache!Idle
      /\ clock = 0 /\ stamp = 0 /\ written = << >> /\ Cache!db = 0 /\ 0 \in Cache!Keys
  BY CachesKnown DEF Cache!Init, Cache!db, Cache!Keys
<1>4. ~Cache!Lives(Cache!Nothing) /\ Cache!Nothing \in CopyRows
  BY <1>3 DEF Cache!Lives, Cache!Nothing, CopyRows
<1>5. RowsFit
  <2>1. /\ memory \in [CacheProcesses -> [Cache!Keys -> CopyRows]]
        /\ redis \in [Cache!Keys -> CopyRows] /\ copies \in [CacheProcesses -> CopyRows]
        /\ underWay \in [CacheProcesses -> [Cache!Keys -> AnyCalls \cup {Cache!NoCall}]]
    BY <1>4 DEF Cache!Init
  <2>2. calls \in [AnyCalls -> CallRows]
    BY IdleTyped DEF Cache!Init
  <2>3. written \in Seq(Nat) /\ clock \in Nat /\ stamp \in Cache!Keys
            /\ due \in [CacheProcesses -> Nat]
    BY <1>3 DEF Cache!Init
  <2> QED BY <2>1, <2>2, <2>3 DEF RowsFit
<1>6. \A d \in AnyCalls : ~Cache!Busy(d) /\ ~Cache!Reading(d) /\ ~Cache!Writing(d)
          /\ ~HasLoaded(d) /\ ~Keyed(d)
  BY <1>3, IdleTyped DEF Cache!Busy, Cache!Reading, Cache!Writing, HasLoaded, Keyed
<1>7. \A d \in AnyCalls : RequestFits(d) /\ WaitFits(d) /\ AloneFits(d) /\ Served(d)
          /\ Cleared(d)
  BY <1>3, <1>6, IdleTyped DEF RequestFits, WaitFits, AloneFits, Served, Cleared
<1>8. PendingFits /\ CopiesFit
  BY <1>3, <1>4 DEF PendingFits, CopiesFit
<1>9. DueServed
  BY <1>3, <1>4, <1>6, IdleTyped DEF DueServed, Holds
<1>10. StampFits
  <2>1. ToPurge = {}
    BY <1>3, IdleTyped DEF ToPurge
  <2>2. Cardinality(ToPurge) = 0
    BY <2>1, FS_EmptySet
  <2> QED BY <1>3, <2>2, CachesKnown DEF StampFits
<1> QED BY <1>2, <1>5, <1>7, <1>8, <1>9, <1>10 DEF CacheInv

LEMMA CacheUnchanged ==
    ASSUME CacheInv, UNCHANGED Cache!vars PROVE CacheInv'
<1>1. UNCHANGED <<answer, sweep, memory, redis, stamp, copies, underWay,
                  written, calls, due, clock>>
  BY DEF Cache!vars
<1>2. /\ RowsFit' /\ PairFits(answer, sweep)' /\ StampFits' /\ PendingFits' /\ CopiesFit'
  BY <1>1, CopiesStay DEF CacheInv, RowsFit, StampFits, ToPurge, PendingFits, Loading,
     Cache!db
<1>3. \A d \in AnyCalls : RequestFits(d)' /\ WaitFits(d)' /\ AloneFits(d)' /\ Cleared(d)'
  BY <1>1 DEF CacheInv, RequestFits, WaitFits, AloneFits, Cleared, Cache!Busy,
     Cache!Reading, Cache!Writing, HasLoaded, Loading, Current, Cache!Lives,
     Cache!db
<1>4. Flow /\ clock' \in Nat
  BY <1>1, CallTyped DEF Flow, Refills, HasLoaded, CacheInv, RowsFit
<1>5. \A d \in AnyCalls : Served(d)'
  BY <1>1, <1>4, ServedStays
<1>6. DueServed'
  <2> SUFFICES ASSUME NEW q \in CacheProcesses
               PROVE  /\ due'[q] <= Cache!db'
                      /\ \A k \in Cache!Keys : Valid(q, k)' => Holds(q, k, due[q])'
    BY DEF DueServed
  <2>1. PICK n \in Nat : n = due[q] /\ n <= Cache!db
    BY DEF CacheInv, DueServed, RowsFit
  <2>2. ASSUME NEW k \in Cache!Keys, Valid(q, k)' PROVE Holds(q, k, n)'
    <3>1. Valid(q, k)
      BY <1>1, <2>2 DEF Valid, Cache!Lives
    <3>2. Holds(q, k, n)
      BY <2>1, <3>1 DEF CacheInv, DueServed
    <3> QED BY <1>4, <2>1, <3>2, HoldsStays
  <2> QED BY <1>1, <2>1, <2>2 DEF Cache!db
<1> QED BY <1>2, <1>3, <1>5, <1>6 DEF CacheInv

LEMMA CacheStepKeeps ==
    ASSUME CacheInv, [Cache!Next]_Cache!vars PROVE CacheInv'
<1>1. CASE Cache!Tick
  BY <1>1, TickKeeps
<1>2. ASSUME NEW c \in AnyCalls, Cache!ReadStep(c) PROVE CacheInv'
  <2>1. ASSUME NEW p \in CacheProcesses, Cache!Ask(c, p) PROVE CacheInv'
    BY <2>1, AskKeeps
  <2>2. CASE Cache!HearVersion(c)
    BY <2>2, HearVersionKeeps
  <2>3. CASE Cache!TakeVersion(c)
    BY <2>3, TakeVersionKeeps
  <2>4. CASE Cache!HearRedis(c)
    BY <2>4, HearRedisKeeps
  <2>5. CASE Cache!Refill(c)
    BY <2>5, RefillKeeps
  <2>6. CASE Cache!Join(c)
    BY <2>6, JoinKeeps
  <2>7. CASE Cache!ReadDatabase(c)
    BY <2>7, ReadDatabaseKeeps
  <2>8. CASE Cache!Loaded(c)
    BY <2>8, LoadedKeeps
  <2>9. CASE Cache!StoreInRedis(c)
    BY <2>9, StoreInRedisKeeps
  <2>10. CASE Cache!Stored(c)
    BY <2>10, StoredKeeps
  <2> QED
    BY <1>2, <2>1, <2>2, <2>3, <2>4, <2>5, <2>6, <2>7, <2>8, <2>9, <2>10 DEF Cache!ReadStep
<1>3. ASSUME NEW c \in AnyCalls, Cache!WriteStep(c) PROVE CacheInv'
  <2>1. ASSUME NEW p \in CacheProcesses, Cache!Write(c, p) PROVE CacheInv'
    BY <2>1, WriteKeeps
  <2>2. CASE Cache!Clear(c)
    BY <2>2, ClearKeeps
  <2>3. CASE Cache!Purge(c)
    BY <2>3, PurgeKeeps
  <2>4. CASE Cache!PurgeFails(c)
    BY <2>4, PurgeFailsKeeps
  <2>5. CASE Cache!DropCopy(c)
    BY <2>5, DropCopyKeeps
  <2>6. CASE Cache!End(c)
    BY <2>6, EndWriteKeeps
  <2> QED BY <1>3, <2>1, <2>2, <2>3, <2>4, <2>5, <2>6 DEF Cache!WriteStep
<1>4. CASE UNCHANGED Cache!vars
  BY <1>4, CacheUnchanged
<1> QED BY <1>1, <1>2, <1>3, <1>4 DEF Cache!Next

LEMMA CachesHoldFollows ==
    ASSUME CacheInv PROVE Cache!CachesHold
BY DEF CacheInv, RequestFits, Cache!CachesHold, Cache!WritesSeen, Cache!CopiesFade

LEMMA CacheSteps ==
    ASSUME focus = "cache", [Next]_<<focus, everything>>
    PROVE  [Cache!Next]_Cache!vars
<1>1. CASE UNCHANGED <<focus, everything>>
  BY <1>1 DEF everything, Cache!vars
<1>2. CASE Next
  BY <1>2 DEF Next
<1> QED BY <1>1, <1>2

LEMMA CacheKept == Spec => [](focus = "cache" => CacheInv)
<1>1. Init => (focus = "cache" => CacheInv)
  BY CacheBegins DEF Init
<1>2. (focus = "cache" => CacheInv) /\ [Next]_<<focus, everything>>
        => (focus = "cache" => CacheInv)'
  <2> SUFFICES ASSUME focus = "cache" => CacheInv, [Next]_<<focus, everything>>,
                      focus' = "cache"
               PROVE  CacheInv'
    OBVIOUS
  <2>1. focus = "cache" /\ CacheInv
    BY DEF Next
  <2>2. [Cache!Next]_Cache!vars
    BY <2>1, CacheSteps
  <2> QED BY <2>1, <2>2, CacheStepKeeps
<1> QED BY <1>1, <1>2, PTL DEF Spec

-----------------------------------------------------------------------------
(* A request is answered with the writes its process had finished, and with  *)
(* those of every process where copies are in Redis alone, unless a load     *)
(* that overlapped the write or a failure of Redis comes between; and nobody *)
(* is answered with what was overwritten longer ago than the copies live.    *)
THEOREM AnswersAreFresh == Spec => []CachesHold
<1>1. (focus = "cache" => CacheInv) => CachesHold
  BY CachesHoldFollows DEF CachesHold
<1> QED BY <1>1, CacheKept, PTL

-----------------------------------------------------------------------------
(* The rows of one event from two sources, for any listings and venues.      *)

row == v2
feed == v3
run == v4
geo == v5
making == v7
meetup == v8
today == v9
agreed == v11
forced == v12
swept == v13
judged == v14
placed == v15
USE DEF row, feed, run, geo, making, meetup, today, agreed, forced, swept,
        judged, placed

LEMMA ListingsKnown ==
    /\ ListingGrace \in Nat
    /\ ListedItems[Affiche!Ticketland] \cup ListedItems[Affiche!KudaGo]
          \subseteq [price : Affiche!Prices, link : BOOLEAN, at : BOOLEAN,
                     venue : ListedVenues \cup {"none"}]
BY ListingsFit DEF Affiche!Ticketland, Affiche!KudaGo, Affiche!Prices

(* What a source says of the event, its row, and an import of the source.    *)
Listings == [price : Affiche!Prices, link : BOOLEAN, at : BOOLEAN,
             venue : ListedVenues \cup {"none"}]
Rows == [known : BOOLEAN, item : Listings, status : {"published", "hidden", "stale"},
         verdict : {"pending", "approved", "rejected"}, seen : Int]
Imports == [phase : {"idle", "enrich", "load", "merge", "write", "sweep"},
            item : Listings, seen : Int, twin : Rows, alone : BOOLEAN, hidden : BOOLEAN]

ListingRowsFit ==
    /\ row \in [Affiche!Sources -> Rows]
    /\ feed \in [Affiche!Sources -> [listed : BOOLEAN, item : Listings]]
    /\ run \in [Affiche!Sources -> Imports]
    /\ geo \in {"idle", "publish", "save", "events"}
    /\ making \in {"no", "with", "without"} /\ meetup \in {"none", "with", "without"}
    /\ today \in Nat /\ agreed \in BOOLEAN
    /\ forced \in [Affiche!Sources -> BOOLEAN] /\ swept \in [Affiche!Sources -> Int]
    /\ placed \in BOOLEAN

(* The two sources are listed apart: what they say does not match, or KudaGo *)
(* is not shown.                                                             *)
Unmatched ==
    ~Affiche!EventDuplicateMatch(row[Affiche!Ticketland].item, row[Affiche!KudaGo].item)
Apart ==
    /\ row[Affiche!Ticketland].known /\ row[Affiche!KudaGo].known
    /\ Unmatched \/ row[Affiche!KudaGo].status # "published"

(* An import that nothing has disturbed runs alone, and has found by its end *)
(* what is to be listed.                                                     *)
AloneRunFits(s) ==
    run[s].alone =>
        /\ run[s].phase # "idle" /\ run[Affiche!Other(s)].phase = "idle"
        /\ run[s].phase = "sweep"
             /\ row[Affiche!Ticketland].known /\ row[Affiche!KudaGo].known => Apart

(* What such an import writes was compared with the row as it stands.        *)
TicketlandFits ==
    run[Affiche!Ticketland].alone /\ run[Affiche!Ticketland].phase = "write" =>
        \/ ~Affiche!Published(Affiche!KudaGo)
        \/ ~Affiche!EventDuplicateMatch(run[Affiche!Ticketland].item,
                                        row[Affiche!KudaGo].item)

KudaGoFits ==
    run[Affiche!KudaGo].alone =>
        /\ run[Affiche!KudaGo].phase = "merge" =>
               run[Affiche!KudaGo].twin.item.venue = row[Affiche!Ticketland].item.venue
        /\ run[Affiche!KudaGo].phase = "write" =>
               \/ run[Affiche!KudaGo].hidden \/ ~row[Affiche!Ticketland].known
               \/ ~Affiche!EventDuplicateMatch(row[Affiche!Ticketland].item,
                                               run[Affiche!KudaGo].item)

(* Since the last import that ran alone nobody has disturbed what it found.  *)
AgreedFits ==
    agreed => Apart /\ \A s \in Affiche!Sources : run[s].phase # "idle" => run[s].alone

(* What is shown, if not by decision, was listed when its source was last    *)
(* swept; an import on its way sees no less.                                 *)
SeenFits(s) ==
    /\ swept[s] <= today
    /\ run[s].phase \in {"enrich", "load", "merge", "write"} => run[s].seen >= swept[s]
    /\ Affiche!Published(s) /\ ~forced[s] => row[s].seen >= swept[s] - ListingGrace

(* A located event stays located, and so does a meetup made of it.           *)
PlacedFits ==
    placed => row[Affiche!Ticketland].item.at /\ making # "without" /\ meetup # "without"

Verdicts == judged = [s \in Affiche!Sources |-> row[s].verdict]

ShownFits == Verdicts /\ Affiche!CoordinatesNeeded /\ PlacedFits
AloneFit ==
    /\ AloneRunFits(Affiche!Ticketland) /\ AloneRunFits(Affiche!KudaGo)
    /\ TicketlandFits /\ KudaGoFits /\ AgreedFits
SeenFit == SeenFits(Affiche!Ticketland) /\ SeenFits(Affiche!KudaGo)

AfficheInv == ListingRowsFit /\ ShownFits /\ AloneFit /\ SeenFit

-----------------------------------------------------------------------------
(* Steps keep rows and imports what they are.                                *)

LEMMA ListingRowsKnown ==
    /\ Affiche!Blank \in Listings /\ Affiche!NoRow \in Rows /\ Affiche!Idle \in Imports
    /\ \A a, b \in Listings : Affiche!Completed(a, b) \in Listings
    /\ Affiche!Sources = {Affiche!Ticketland, Affiche!KudaGo}
    /\ Affiche!Ticketland # Affiche!KudaGo
<1>1. Affiche!Blank \in Listings BY DEF Affiche!Blank, Listings, Affiche!Prices
<1>2. Affiche!NoRow \in Rows BY <1>1 DEF Affiche!NoRow, Rows
<1>3. Affiche!Idle \in Imports BY <1>1, <1>2 DEF Affiche!Idle, Imports
<1>4. ASSUME NEW a \in Listings, NEW b \in Listings
      PROVE  Affiche!Completed(a, b) \in Listings
  <2>1. PICK at \in BOOLEAN : at = (a.at \/ b.at) BY Zenon
  <2>2. PICK venue \in ListedVenues \cup {"none"} :
          venue = IF a.venue = "none" THEN b.venue ELSE a.venue
    BY DEF Listings
  <2>3. Affiche!Completed(a, b) = [a EXCEPT !.at = at, !.venue = venue]
    BY <2>1, <2>2 DEF Affiche!Completed, Listings
  <2> QED BY <2>3 DEF Listings
<1> QED BY <1>1, <1>2, <1>3, <1>4 DEF Affiche!Sources, Affiche!Ticketland,
    Affiche!KudaGo

LEMMA FetchItemsFits ==
  ASSUME ListingRowsFit, NEW s \in Affiche!Sources, Affiche!FetchItems(s)
  PROVE  ListingRowsFit'
<1>1. feed[s] \in [listed : BOOLEAN, item : Listings] BY DEF ListingRowsFit
<1>2. feed[s].listed \in BOOLEAN /\ feed[s].item \in Listings BY <1>1
<1>3. PICK alone \in BOOLEAN, first \in {"enrich", "sweep"}, seen \in Int :
        /\ run' = [r \in Affiche!Sources |->
             IF r = s THEN [Affiche!Idle EXCEPT !.phase = first, !.seen = seen,
                                        !.item = feed[s].item, !.alone = alone]
             ELSE [run[r] EXCEPT !.alone = FALSE]]
  <2>1. PICK seen \in Int : seen = IF feed[s].listed THEN today ELSE -1
    BY DEF ListingRowsFit
  <2>2. PICK alone \in BOOLEAN : alone = (run[Affiche!Other(s)].phase = "idle"
            /\ (feed[s].listed \/ agreed))
    BY Zenon
  <2> QED BY <2>1, <2>2 DEF Affiche!FetchItems
<1>4. [Affiche!Idle EXCEPT !.phase = first, !.seen = seen,
                           !.item = feed[s].item, !.alone = alone] \in Imports
  BY <1>2, ListingRowsKnown DEF Imports
<1>5. \A r \in Affiche!Sources : [run[r] EXCEPT !.alone = FALSE] \in Imports
  BY DEF ListingRowsFit, Imports
<1>6. run' \in [Affiche!Sources -> Imports] BY <1>3, <1>4, <1>5
<1>7. agreed' \in BOOLEAN BY DEF Affiche!FetchItems
<1> QED BY <1>6, <1>7 DEF ListingRowsFit, Affiche!FetchItems, Affiche!Outside

LEMMA LoadFits ==
  ASSUME ListingRowsFit, NEW s \in Affiche!Sources, Affiche!LoadEventDuplicateCandidates(s)
  PROVE  ListingRowsFit'
<1>1. row[Affiche!Other(s)] \in Rows /\ run[s] \in Imports
  BY ListingRowsKnown DEF ListingRowsFit, Affiche!Other
<1>2. PICK twin \in Rows, next \in {"merge", "write"} :
        run' = [run EXCEPT ![s].phase = next, ![s].twin = twin]
  BY <1>1, ListingRowsKnown DEF Affiche!LoadEventDuplicateCandidates
<1>3. [run[s] EXCEPT !.phase = next, !.twin = twin] \in Imports
  BY <1>1 DEF Imports
<1> QED BY <1>2, <1>3 DEF ListingRowsFit, Affiche!LoadEventDuplicateCandidates,
    Affiche!Outside

LEMMA UpsertItemFits ==
  ASSUME ListingRowsFit, NEW s \in Affiche!Sources, Affiche!UpsertItem(s)
  PROVE  ListingRowsFit'
<1>1. run[s] \in Imports /\ row[s] \in Rows BY DEF ListingRowsFit
<1>2. Affiche!Written(s) \in Rows
  BY <1>1 DEF Rows, Imports, Affiche!Written, Affiche!PublicStatusFor
<1>3. [Affiche!Idle EXCEPT !.phase = "sweep", !.alone = run[s].alone] \in Imports
  BY <1>1, ListingRowsKnown DEF Imports
<1>4. run[s].item.at \in BOOLEAN BY <1>1 DEF Imports, Listings
<1>5. placed' \in BOOLEAN BY DEF Affiche!UpsertItem
<1> QED BY <1>2, <1>3, <1>5 DEF ListingRowsFit, Affiche!UpsertItem, Affiche!Outside

LEMMA HideFits ==
  ASSUME ListingRowsFit, Affiche!HideDuplicateItem
  PROVE  ListingRowsFit'
<1>1. row[Affiche!KudaGo] \in Rows /\ run[Affiche!Ticketland] \in Imports
  BY ListingRowsKnown DEF ListingRowsFit
<1>2. [row[Affiche!KudaGo] EXCEPT !.status = "hidden"] \in Rows BY <1>1 DEF Rows
<1>3. Affiche!Completed(run[Affiche!Ticketland].item, run[Affiche!Ticketland].twin.item)
        \in Listings
  BY <1>1, ListingRowsKnown DEF Imports, Rows
<1>4. [run[Affiche!Ticketland] EXCEPT !.phase = "write", !.twin = Affiche!NoRow,
         !.item = Affiche!Completed(run[Affiche!Ticketland].item,
                                    run[Affiche!Ticketland].twin.item)] \in Imports
  BY <1>1, <1>3, ListingRowsKnown DEF Imports
<1>5. row' \in [Affiche!Sources -> Rows]
  BY <1>2, ListingRowsKnown DEF ListingRowsFit, Affiche!HideDuplicateItem
<1>6. run' \in [Affiche!Sources -> Imports]
  BY <1>4, ListingRowsKnown DEF ListingRowsFit, Affiche!HideDuplicateItem
<1> QED BY <1>5, <1>6, ListingRowsKnown DEF ListingRowsFit, Affiche!HideDuplicateItem,
    Affiche!Outside

LEMMA EnrichedFits ==
  ASSUME ListingRowsFit, Affiche!EnrichExistingAffiliateItem
  PROVE  \E full \in Listings, status \in {"published", "hidden", "stale"} :
           /\ row' = [row EXCEPT ![Affiche!Ticketland].item.at = full.at,
                                 ![Affiche!Ticketland].item.venue = full.venue,
                                 ![Affiche!Ticketland].status = status]
           /\ placed' = (placed /\ full.at)
           /\ full.venue = IF run[Affiche!KudaGo].twin.item.venue = "none"
                           THEN run[Affiche!KudaGo].item.venue
                           ELSE run[Affiche!KudaGo].twin.item.venue
<1>1. run[Affiche!KudaGo].item \in Listings /\ run[Affiche!KudaGo].twin \in Rows
  BY ListingRowsKnown DEF ListingRowsFit, Imports
<1>2. run[Affiche!KudaGo].twin.item \in Listings
          /\ run[Affiche!KudaGo].twin.status \in {"published", "hidden", "stale"}
  BY <1>1 DEF Rows
<1>3. PICK full \in Listings :
        full = Affiche!Completed(run[Affiche!KudaGo].twin.item, run[Affiche!KudaGo].item)
  BY <1>1, <1>2, ListingRowsKnown
<1>4. full.venue = IF run[Affiche!KudaGo].twin.item.venue = "none"
                   THEN run[Affiche!KudaGo].item.venue
                   ELSE run[Affiche!KudaGo].twin.item.venue
  BY <1>2, <1>3 DEF Affiche!Completed, Listings
<1>5. PICK status \in {"published", "hidden", "stale"} :
        status = IF Affiche!Sellable(run[Affiche!KudaGo].twin.item) THEN "published"
                 ELSE run[Affiche!KudaGo].twin.status
  BY <1>2
<1> QED BY <1>3, <1>4, <1>5 DEF Affiche!EnrichExistingAffiliateItem

LEMMA EnrichFits ==
  ASSUME ListingRowsFit, Affiche!EnrichExistingAffiliateItem
  PROVE  ListingRowsFit'
<1>1. row[Affiche!Ticketland] \in Rows /\ run[Affiche!KudaGo] \in Imports
  BY ListingRowsKnown DEF ListingRowsFit
<1>2. PICK full \in Listings, status \in {"published", "hidden", "stale"} :
        /\ row' = [row EXCEPT ![Affiche!Ticketland].item.at = full.at,
                              ![Affiche!Ticketland].item.venue = full.venue,
                              ![Affiche!Ticketland].status = status]
        /\ placed' = (placed /\ full.at)
  BY EnrichedFits
<1>3. full.at \in BOOLEAN /\ full.venue \in ListedVenues \cup {"none"}
  BY <1>2 DEF Listings
<1>4. [row[Affiche!Ticketland] EXCEPT !.item.at = full.at, !.item.venue = full.venue,
                                      !.status = status] \in Rows
  BY <1>1, <1>2, <1>3 DEF Rows, Listings
<1>5. [run[Affiche!KudaGo] EXCEPT !.phase = "write", !.hidden = TRUE,
                                  !.twin = Affiche!NoRow] \in Imports
  BY <1>1, ListingRowsKnown DEF Imports
<1>6. row' \in [Affiche!Sources -> Rows]
  BY <1>2, <1>4, ListingRowsKnown DEF ListingRowsFit
<1>7. run' \in [Affiche!Sources -> Imports]
  BY <1>5, ListingRowsKnown DEF ListingRowsFit, Affiche!EnrichExistingAffiliateItem
<1> QED BY <1>2, <1>6, <1>7, ListingRowsKnown DEF ListingRowsFit,
    Affiche!EnrichExistingAffiliateItem, Affiche!Outside

LEMMA EditedFits == ASSUME NEW r \in Rows PROVE Affiche!Edited(r) \subseteq Rows
<1>1. r.item \in Listings BY DEF Rows
<1>2. \A v \in ListedVenues \cup {"none"} : [r EXCEPT !.item.venue = v] \in Rows
  BY <1>1 DEF Rows, Listings
<1>3. \A b \in BOOLEAN : [r EXCEPT !.item.link = b] \in Rows
  BY <1>1 DEF Rows, Listings
<1>4. \A b \in BOOLEAN : [r EXCEPT !.item.at = b] \in Rows
  BY <1>1 DEF Rows, Listings
<1>5. \A t \in {"published", "hidden"} : [r EXCEPT !.status = t] \in Rows
  BY <1>1 DEF Rows, Listings
<1>6. \A v \in {"approved", "rejected"} : [r EXCEPT !.verdict = v] \in Rows
  BY <1>1 DEF Rows, Listings
<1> QED BY <1>2, <1>3, <1>4, <1>5, <1>6 DEF Affiche!Edited

LEMMA UpdateFits ==
  ASSUME ListingRowsFit, NEW s \in Affiche!Sources, Affiche!UpdateContentItem(s)
  PROVE  ListingRowsFit'
<1>1. PICK r \in Affiche!Edited(row[s]) : row' = [row EXCEPT ![s] = r]
  BY DEF Affiche!UpdateContentItem
<1>2. row' \in [Affiche!Sources -> Rows] BY <1>1, EditedFits DEF ListingRowsFit
<1>3. placed' \in BOOLEAN BY DEF Affiche!UpdateContentItem
<1>4. \A q \in Affiche!Sources : [run[q] EXCEPT !.alone = FALSE] \in Imports
  BY DEF ListingRowsFit, Imports
<1>5. run' \in [Affiche!Sources -> Imports]
  BY <1>4 DEF Affiche!UpdateContentItem, Affiche!Disturbed
<1> QED BY <1>2, <1>3, <1>5 DEF ListingRowsFit, Affiche!UpdateContentItem,
    Affiche!Outside

LEMMA FeedsFit ==
  ASSUME NEW s \in Affiche!Sources
  PROVE  Affiche!Feeds(s) \subseteq [listed : BOOLEAN, item : Listings]
<1>1. Affiche!Gone \in [listed : BOOLEAN, item : Listings]
  BY ListingRowsKnown DEF Affiche!Gone
<1>2. ListedItems[s] \subseteq Listings
  <2>1. ListedItems[Affiche!Ticketland] \cup ListedItems[Affiche!KudaGo]
            \subseteq Listings
    BY ListingsKnown, Zenon DEF Listings
  <2>2. s = Affiche!Ticketland \/ s = Affiche!KudaGo BY ListingRowsKnown
  <2> QED BY <2>1, <2>2
<1>3. \A i \in Listings :
        [listed |-> TRUE, item |-> i] \in [listed : BOOLEAN, item : Listings]
  OBVIOUS
<1> QED BY <1>1, <1>2, <1>3 DEF Affiche!Feeds

LEMMA BackfillFits ==
  ASSUME ListingRowsFit, Affiche!BackfillTicketlandCoordinates
  PROVE  ListingRowsFit'
<1>1. row[Affiche!Ticketland] \in Rows BY ListingRowsKnown DEF ListingRowsFit
<1>2. [row[Affiche!Ticketland] EXCEPT !.item.at = TRUE, !.status = "published"] \in Rows
  BY <1>1 DEF Rows, Listings
<1>3. row' \in [Affiche!Sources -> Rows]
  BY <1>2, ListingRowsKnown DEF ListingRowsFit, Affiche!BackfillTicketlandCoordinates
<1>4. forced' \in [Affiche!Sources -> BOOLEAN]
  BY ListingRowsKnown DEF ListingRowsFit, Affiche!BackfillTicketlandCoordinates
<1> QED BY <1>3, <1>4 DEF ListingRowsFit, Affiche!BackfillTicketlandCoordinates

LEMMA SaveFits ==
  ASSUME ListingRowsFit, Affiche!SaveClientGeo
  PROVE  ListingRowsFit'
<1>1. row[Affiche!Ticketland] \in Rows BY ListingRowsKnown DEF ListingRowsFit
<1>2. PICK status \in {"published", "hidden", "stale"} :
        row' = [row EXCEPT ![Affiche!Ticketland].item.at = TRUE,
                           ![Affiche!Ticketland].status = status]
  <2>1. PICK status \in {"published", "hidden", "stale"} :
          status = IF geo = "publish" THEN "published" ELSE row[Affiche!Ticketland].status
    BY <1>1 DEF Rows
  <2> QED BY <2>1, ListingRowsKnown DEF Affiche!SaveClientGeo, ListingRowsFit
<1>3. [row[Affiche!Ticketland] EXCEPT !.item.at = TRUE, !.status = status] \in Rows
  BY <1>1 DEF Rows, Listings
<1>4. forced' \in [Affiche!Sources -> BOOLEAN]
  <2>1. CASE geo = "publish"
    BY <2>1, ListingRowsKnown DEF ListingRowsFit, Affiche!SaveClientGeo
  <2>2. CASE geo # "publish"
    <3>1. forced' = forced
      BY <2>2, ListingRowsKnown, Zenon DEF ListingRowsFit, Affiche!SaveClientGeo
    <3> QED BY <3>1 DEF ListingRowsFit
  <2> QED BY <2>1, <2>2
<1>5. row' \in [Affiche!Sources -> Rows]
  BY <1>2, <1>3, ListingRowsKnown DEF ListingRowsFit
<1> QED BY <1>4, <1>5 DEF ListingRowsFit, Affiche!SaveClientGeo

-----------------------------------------------------------------------------
(* The steps of an import keep the invariant.                                *)

LEMMA FetchItemsKeeps ==
  ASSUME AfficheInv, NEW s \in Affiche!Sources, Affiche!FetchItems(s)
  PROVE AfficheInv'
<1>1. ListingRowsFit' BY FetchItemsFits DEF AfficheInv
<1>2. ShownFits'
  BY ListingRowsKnown DEF AfficheInv, ListingRowsFit, Rows, Imports, Listings,
     Affiche!FetchItems, Affiche!Idle, Affiche!Use, ShownFits, Verdicts,
     Affiche!CoordinatesNeeded, PlacedFits, Affiche!Published, Affiche!Outside
<1>3. AloneFit'
  BY ListingRowsKnown DEF AfficheInv, ListingRowsFit, Rows, Imports, Listings,
     Affiche!FetchItems, Affiche!Idle, Affiche!Use, AloneFit, AloneRunFits,
     TicketlandFits, KudaGoFits, AgreedFits, Apart, Unmatched,
     Affiche!EventDuplicateMatch, Affiche!Published, Affiche!Other, Affiche!Outside
<1>4. SeenFit'
  BY ListingRowsKnown, ListingsKnown DEF AfficheInv, ListingRowsFit, Rows, Imports,
     Listings, Affiche!FetchItems, Affiche!Idle, Affiche!Use, SeenFit, SeenFits,
     Affiche!Published, Affiche!Outside
<1> QED BY <1>1, <1>2, <1>3, <1>4 DEF AfficheInv

LEMMA LoadEventDuplicateCandidatesKeeps ==
  ASSUME AfficheInv, NEW s \in Affiche!Sources, Affiche!LoadEventDuplicateCandidates(s)
  PROVE AfficheInv'
<1>1. ListingRowsFit' BY LoadFits DEF AfficheInv
<1>2. ShownFits'
  BY DEF AfficheInv, Affiche!LoadEventDuplicateCandidates, ShownFits, Verdicts,
     Affiche!CoordinatesNeeded, PlacedFits, Affiche!Published, Affiche!Outside
<1>3. PICK twin \in Rows, next \in {"merge", "write"} :
        /\ run' = [run EXCEPT ![s].phase = next, ![s].twin = twin]
        /\ IF row[Affiche!Other(s)].known
              /\ Affiche!EventDuplicateMatch(run[s].item, row[Affiche!Other(s)].item)
           THEN next = "merge" /\ twin = row[Affiche!Other(s)] ELSE next = "write"
  <2>1. CASE row[Affiche!Other(s)].known
            /\ Affiche!EventDuplicateMatch(run[s].item, row[Affiche!Other(s)].item)
    <3>1. run' = [run EXCEPT ![s].phase = "merge", ![s].twin = row[Affiche!Other(s)]]
      BY <2>1, ListingRowsKnown DEF AfficheInv, ListingRowsFit,
         Affiche!LoadEventDuplicateCandidates
    <3>2. row[Affiche!Other(s)] \in Rows
      BY ListingRowsKnown DEF AfficheInv, ListingRowsFit, Affiche!Other
    <3> QED BY <2>1, <3>1, <3>2
  <2>2. CASE ~(row[Affiche!Other(s)].known
            /\ Affiche!EventDuplicateMatch(run[s].item, row[Affiche!Other(s)].item))
    <3>1. run' = [run EXCEPT ![s].phase = "write", ![s].twin = Affiche!NoRow]
      BY <2>2, ListingRowsKnown DEF AfficheInv, ListingRowsFit,
         Affiche!LoadEventDuplicateCandidates
    <3> QED BY <2>2, <3>1, ListingRowsKnown
  <2> QED BY <2>1, <2>2
<1>4. /\ run[s].phase = "load" /\ run'[s].phase = next /\ run'[s].twin = twin
      /\ run'[s].item = run[s].item /\ run'[s].alone = run[s].alone
      /\ run'[s].hidden = run[s].hidden /\ run'[s].seen = run[s].seen
      /\ run'[Affiche!Other(s)] = run[Affiche!Other(s)] /\ row' = row /\ agreed' = agreed
      /\ UNCHANGED <<today, swept, forced>>
  BY <1>3, ListingRowsKnown DEF AfficheInv, ListingRowsFit, Imports,
     Affiche!LoadEventDuplicateCandidates, Affiche!Other, Affiche!Outside
<1>5. AloneFit'
  <2>1. CASE s = Affiche!Ticketland
    BY <1>3, <1>4, <2>1, ListingRowsKnown DEF AfficheInv, AloneFit, AloneRunFits,
       TicketlandFits, KudaGoFits, AgreedFits, Apart, Unmatched, Affiche!Other,
       Affiche!Published, Affiche!EventDuplicateMatch
  <2>2. CASE s = Affiche!KudaGo
    BY <1>3, <1>4, <2>2, ListingRowsKnown DEF AfficheInv, AloneFit, AloneRunFits,
       TicketlandFits, KudaGoFits, AgreedFits, Apart, Unmatched, Affiche!Other,
       Affiche!Published, Affiche!EventDuplicateMatch
  <2> QED BY <2>1, <2>2, ListingRowsKnown
<1>6. SeenFit'
  BY <1>3, <1>4, ListingRowsKnown DEF AfficheInv, SeenFit, SeenFits,
     Affiche!Published, Affiche!Other
<1> QED BY <1>1, <1>2, <1>5, <1>6 DEF AfficheInv

LEMMA UpsertItemKeeps ==
  ASSUME AfficheInv, NEW s \in Affiche!Sources, Affiche!UpsertItem(s)
  PROVE AfficheInv'
<1>1. ListingRowsFit' BY UpsertItemFits DEF AfficheInv
<1>2. ShownFits'
  BY ListingRowsKnown DEF AfficheInv, ListingRowsFit, Rows, Imports, Listings,
     Affiche!UpsertItem, Affiche!Written, Affiche!PublicStatusFor, Affiche!Idle,
     ShownFits, Verdicts, Affiche!CoordinatesNeeded, PlacedFits, Affiche!Published,
     Affiche!Outside
<1>3. AloneFit'
  BY ListingRowsKnown DEF AfficheInv, ListingRowsFit, Rows, Imports, Listings,
     Affiche!UpsertItem, Affiche!Written, Affiche!PublicStatusFor, Affiche!Idle,
     AloneFit, AloneRunFits, TicketlandFits, KudaGoFits, AgreedFits, Apart, Unmatched,
     Affiche!EventDuplicateMatch, Affiche!Published, Affiche!Other, Affiche!Outside
<1>4. SeenFit'
  BY ListingRowsKnown, ListingsKnown DEF AfficheInv, ListingRowsFit, Rows, Imports,
     Listings, Affiche!UpsertItem, Affiche!Written, Affiche!PublicStatusFor,
     Affiche!Idle, SeenFit, SeenFits, Affiche!Published, Affiche!Outside
<1> QED BY <1>1, <1>2, <1>3, <1>4 DEF AfficheInv

LEMMA MarkStaleItemsKeeps ==
  ASSUME AfficheInv, NEW s \in Affiche!Sources, Affiche!MarkStaleItems(s)
  PROVE AfficheInv'
<1>1. ListingRowsFit'
  BY ListingRowsKnown DEF AfficheInv, ListingRowsFit, Affiche!MarkStaleItems,
     Affiche!Outside, Imports, Listings, Rows, Affiche!Published, Affiche!Idle
<1>2. ShownFits'
  BY ListingRowsKnown DEF AfficheInv, ListingRowsFit, Rows, Imports, Listings,
     Affiche!MarkStaleItems, Affiche!Idle, ShownFits, Verdicts,
     Affiche!CoordinatesNeeded, PlacedFits, Affiche!Published, Affiche!Outside
<1>3. AloneFit'
  BY ListingRowsKnown DEF AfficheInv, ListingRowsFit, Rows, Imports, Listings,
     Affiche!MarkStaleItems, Affiche!Idle, AloneFit, AloneRunFits, TicketlandFits,
     KudaGoFits, AgreedFits, Apart, Unmatched, Affiche!EventDuplicateMatch,
     Affiche!Published, Affiche!Other, Affiche!Outside
<1>4. SeenFit'
  BY ListingRowsKnown, ListingsKnown DEF AfficheInv, ListingRowsFit, Rows, Imports,
     Listings, Affiche!MarkStaleItems, Affiche!Idle, SeenFit, SeenFits,
     Affiche!Published, Affiche!Outside
<1> QED BY <1>1, <1>2, <1>3, <1>4 DEF AfficheInv

LEMMA HideDuplicateItemKeeps ==
  ASSUME AfficheInv, Affiche!HideDuplicateItem
  PROVE AfficheInv'
<1>1. ListingRowsFit' BY HideFits DEF AfficheInv
<1>2. /\ row'[Affiche!Ticketland] = row[Affiche!Ticketland]
      /\ row'[Affiche!KudaGo] = [row[Affiche!KudaGo] EXCEPT !.status = "hidden"]
      /\ run'[Affiche!KudaGo] = run[Affiche!KudaGo]
      /\ run'[Affiche!Ticketland].phase = "write"
            /\ run'[Affiche!Ticketland].alone = run[Affiche!Ticketland].alone
      /\ run'[Affiche!Ticketland].seen = run[Affiche!Ticketland].seen
  BY ListingRowsKnown DEF AfficheInv, ListingRowsFit, Imports,
     Affiche!HideDuplicateItem
<1>3. /\ row'[Affiche!KudaGo].known = row[Affiche!KudaGo].known
          /\ row'[Affiche!KudaGo].item = row[Affiche!KudaGo].item
      /\ row'[Affiche!KudaGo].status = "hidden"
            /\ row'[Affiche!KudaGo].verdict = row[Affiche!KudaGo].verdict
      /\ row'[Affiche!KudaGo].seen = row[Affiche!KudaGo].seen
  BY <1>2, ListingRowsKnown DEF AfficheInv, ListingRowsFit, Rows
<1>4. ShownFits'
  BY <1>2, <1>3, ListingRowsKnown DEF AfficheInv, Affiche!HideDuplicateItem,
     ShownFits, Verdicts, Affiche!CoordinatesNeeded, PlacedFits, Affiche!Published,
     Affiche!Outside
<1>5. AloneFit'
  BY <1>2, <1>3, ListingRowsKnown DEF AfficheInv, Affiche!HideDuplicateItem, AloneFit,
     AloneRunFits, TicketlandFits, KudaGoFits, AgreedFits, Apart, Unmatched,
     Affiche!Other, Affiche!Published, Affiche!EventDuplicateMatch
<1>6. SeenFit'
  BY <1>2, <1>3, ListingRowsKnown DEF AfficheInv, ListingRowsFit,
     Affiche!HideDuplicateItem, SeenFit, SeenFits, Affiche!Published, Affiche!Outside
<1> QED BY <1>1, <1>4, <1>5, <1>6 DEF AfficheInv

LEMMA EnrichExistingAffiliateItemKeeps ==
  ASSUME AfficheInv, Affiche!EnrichExistingAffiliateItem
  PROVE AfficheInv'
<1>1. ListingRowsFit' BY EnrichFits DEF AfficheInv
<1>2. PICK full \in Listings, status \in {"published", "hidden", "stale"} :
        /\ row' = [row EXCEPT ![Affiche!Ticketland].item.at = full.at,
                              ![Affiche!Ticketland].item.venue = full.venue,
                              ![Affiche!Ticketland].status = status]
        /\ placed' = (placed /\ full.at)
        /\ full.venue = IF run[Affiche!KudaGo].twin.item.venue = "none"
                        THEN run[Affiche!KudaGo].item.venue
                        ELSE run[Affiche!KudaGo].twin.item.venue
  BY EnrichedFits DEF AfficheInv
<1>3. /\ row'[Affiche!KudaGo] = row[Affiche!KudaGo]
      /\ row'[Affiche!Ticketland].known = row[Affiche!Ticketland].known
      /\ row'[Affiche!Ticketland].item.venue = full.venue
      /\ row'[Affiche!Ticketland].item.at = full.at
      /\ row'[Affiche!Ticketland].verdict = row[Affiche!Ticketland].verdict
  BY <1>2, ListingRowsKnown DEF AfficheInv, ListingRowsFit, Rows, Listings
<1>4. /\ run'[Affiche!Ticketland] = run[Affiche!Ticketland]
      /\ run[Affiche!KudaGo].phase = "merge" /\ run'[Affiche!KudaGo].phase = "write"
      /\ run'[Affiche!KudaGo].alone = run[Affiche!KudaGo].alone
      /\ run'[Affiche!KudaGo].hidden
      /\ run'[Affiche!KudaGo].seen = run[Affiche!KudaGo].seen
  BY ListingRowsKnown DEF AfficheInv, ListingRowsFit, Imports,
     Affiche!EnrichExistingAffiliateItem
<1>5. ShownFits'
  <2>1. placed' => placed /\ full.at BY <1>2
  <2>2. Verdicts'
    BY <1>3, ListingRowsKnown DEF AfficheInv, ShownFits,
       Affiche!EnrichExistingAffiliateItem, Verdicts
  <2>3. Affiche!CoordinatesNeeded' /\ PlacedFits'
    BY <1>3, <2>1, ListingRowsKnown DEF AfficheInv, ListingRowsFit, ShownFits,
       Affiche!EnrichExistingAffiliateItem, Affiche!CoordinatesNeeded, PlacedFits,
       Affiche!Published, Affiche!Outside
  <2> QED BY <2>2, <2>3 DEF ShownFits
<1>6. AloneFit'
  <2>1. full.venue = IF run[Affiche!KudaGo].twin.item.venue
            = "none" THEN run[Affiche!KudaGo].item.venue
                     ELSE run[Affiche!KudaGo].twin.item.venue
    BY <1>2
  <2>2. agreed' = agreed BY DEF Affiche!EnrichExistingAffiliateItem
  <2> QED BY <1>3, <1>4, <2>1, <2>2, ListingRowsKnown DEF AfficheInv, AloneFit,
      AloneRunFits, TicketlandFits, KudaGoFits, AgreedFits, Apart, Unmatched,
      Affiche!Other, Affiche!Published, Affiche!EventDuplicateMatch
<1>7. SeenFit'
  BY <1>3, <1>4, ListingRowsKnown DEF AfficheInv, ListingRowsFit,
     Affiche!EnrichExistingAffiliateItem, SeenFit, SeenFits, Affiche!Published,
     Affiche!Outside
<1> QED BY <1>1, <1>5, <1>6, <1>7 DEF AfficheInv

-----------------------------------------------------------------------------
(* So do the administrator, the geocoder, the phone and meetups.             *)

LEMMA ActedFits ==
  ASSUME NEW r \in Rows, NEW action
  PROVE  /\ Affiche!ContentActionData(r, action) \in Rows
         /\ Affiche!ContentActionData(r, action).known = r.known
         /\ Affiche!ContentActionData(r, action).item.at = r.item.at
<1>1. r.item \in Listings BY DEF Rows
<1>2. CASE action \in {"publish", "hide", "reject", "stale"}
  BY <1>2 DEF Affiche!ContentActionData, Rows
<1>3. CASE action \notin {"publish", "hide", "reject", "stale"}
  BY <1>1, <1>3 DEF Affiche!ContentActionData, Rows, Listings, Affiche!Prices
<1> QED BY <1>2, <1>3

LEMMA ContentItemActionKeeps ==
  ASSUME AfficheInv, NEW s \in Affiche!Sources, NEW action,
         Affiche!ContentItemAction(s, action)
  PROVE  AfficheInv'
<1>1. row[s] \in Rows BY DEF AfficheInv, ListingRowsFit
<1>2. PICK r \in Rows :
        /\ r = Affiche!ContentActionData(row[s], action) /\ row' = [row EXCEPT ![s] = r]
        /\ r.known = row[s].known /\ r.item.at = row[s].item.at
  BY <1>1, ActedFits DEF Affiche!ContentItemAction
<1>3. ListingRowsFit'
  <2>1. \A q \in Affiche!Sources : [run[q] EXCEPT !.alone = FALSE] \in Imports
    BY DEF AfficheInv, ListingRowsFit, Imports
  <2>2. run' \in [Affiche!Sources -> Imports]
    BY <2>1 DEF Affiche!ContentItemAction, Affiche!Disturbed
  <2>3. row' \in [Affiche!Sources -> Rows]
    BY <1>2 DEF AfficheInv, ListingRowsFit
  <2> QED BY <2>2, <2>3 DEF AfficheInv, ListingRowsFit, Affiche!ContentItemAction,
      Affiche!Outside
<1>4. ShownFits'
  BY <1>2, ListingRowsKnown DEF AfficheInv, ListingRowsFit, Affiche!ContentItemAction,
     ShownFits, Verdicts, Affiche!CoordinatesNeeded, PlacedFits, Affiche!Published,
     Affiche!Outside
<1>5. AloneFit'
  BY ListingRowsKnown DEF AfficheInv, ListingRowsFit, Imports,
     Affiche!ContentItemAction, AloneFit, AloneRunFits, TicketlandFits, KudaGoFits,
     AgreedFits, Affiche!Disturbed, Affiche!Outside
<1>6. SeenFit'
  BY <1>2, ListingRowsKnown DEF AfficheInv, ListingRowsFit, Imports,
     Affiche!ContentItemAction, SeenFit, SeenFits, Affiche!Published,
     Affiche!Disturbed, Affiche!Outside
<1> QED BY <1>3, <1>4, <1>5, <1>6 DEF AfficheInv

LEMMA UpdateContentItemKeeps ==
  ASSUME AfficheInv, NEW s \in Affiche!Sources, Affiche!UpdateContentItem(s)
  PROVE AfficheInv'
<1>1. ListingRowsFit' BY UpdateFits DEF AfficheInv
<1>2. ShownFits'
  BY ListingRowsKnown DEF AfficheInv, ListingRowsFit, Rows, Imports, Listings,
     Affiche!UpdateContentItem, Affiche!Disturbed, Affiche!Edited, Affiche!Use,
     ShownFits, Verdicts, Affiche!CoordinatesNeeded, PlacedFits, Affiche!Published,
     Affiche!Outside
<1>3. AloneFit'
  BY ListingRowsKnown DEF AfficheInv, ListingRowsFit, Rows, Imports, Listings,
     Affiche!UpdateContentItem, Affiche!Disturbed, Affiche!Edited, Affiche!Use,
     AloneFit, AloneRunFits, TicketlandFits, KudaGoFits, AgreedFits, Apart, Unmatched,
     Affiche!EventDuplicateMatch, Affiche!Published, Affiche!Other, Affiche!Outside
<1>4. SeenFit'
  BY ListingRowsKnown, ListingsKnown DEF AfficheInv, ListingRowsFit, Rows, Imports,
     Listings, Affiche!UpdateContentItem, Affiche!Disturbed, Affiche!Edited,
     Affiche!Use, SeenFit, SeenFits, Affiche!Published, Affiche!Outside
<1> QED BY <1>1, <1>2, <1>3, <1>4 DEF AfficheInv

LEMMA BackfillTicketlandCoordinatesKeeps ==
  ASSUME AfficheInv, Affiche!BackfillTicketlandCoordinates
  PROVE AfficheInv'
<1>1. ListingRowsFit' BY BackfillFits DEF AfficheInv
<1>2. ShownFits'
  BY ListingRowsKnown DEF AfficheInv, ListingRowsFit, Rows, Imports, Listings,
     Affiche!BackfillTicketlandCoordinates, ShownFits, Verdicts,
     Affiche!CoordinatesNeeded, PlacedFits, Affiche!Published, Affiche!Outside
<1>3. AloneFit'
  BY ListingRowsKnown DEF AfficheInv, ListingRowsFit, Rows, Imports, Listings,
     Affiche!BackfillTicketlandCoordinates, AloneFit, AloneRunFits, TicketlandFits,
     KudaGoFits, AgreedFits, Apart, Unmatched, Affiche!EventDuplicateMatch,
     Affiche!Published, Affiche!Other, Affiche!Outside
<1>4. SeenFit'
  BY ListingRowsKnown, ListingsKnown DEF AfficheInv, ListingRowsFit, Rows, Imports,
     Listings, Affiche!BackfillTicketlandCoordinates, SeenFit, SeenFits,
     Affiche!Published, Affiche!Outside
<1> QED BY <1>1, <1>2, <1>3, <1>4 DEF AfficheInv

LEMMA SaveClientGeoKeeps ==
  ASSUME AfficheInv, Affiche!SaveClientGeo
  PROVE AfficheInv'
<1>1. ListingRowsFit' BY SaveFits DEF AfficheInv
<1>2. ShownFits'
  BY ListingRowsKnown DEF AfficheInv, ListingRowsFit, Rows, Imports, Listings,
     Affiche!SaveClientGeo, ShownFits, Verdicts, Affiche!CoordinatesNeeded,
     PlacedFits, Affiche!Published, Affiche!Outside
<1>3. AloneFit'
  BY ListingRowsKnown DEF AfficheInv, ListingRowsFit, Rows, Imports, Listings,
     Affiche!SaveClientGeo, AloneFit, AloneRunFits, TicketlandFits, KudaGoFits,
     AgreedFits, Apart, Unmatched, Affiche!EventDuplicateMatch, Affiche!Published,
     Affiche!Other, Affiche!Outside
<1>4. SeenFit'
  BY ListingRowsKnown, ListingsKnown DEF AfficheInv, ListingRowsFit, Rows, Imports,
     Listings, Affiche!SaveClientGeo, SeenFit, SeenFits, Affiche!Published,
     Affiche!Outside
<1> QED BY <1>1, <1>2, <1>3, <1>4 DEF AfficheInv

LEMMA PassiveKeeps ==
  ASSUME AfficheInv, ListingRowsFit', PlacedFits', today' >= today,
         UNCHANGED <<row, run, agreed, forced, swept, judged>>
  PROVE  AfficheInv'
<1>1. ShownFits' /\ AloneFit'
  BY DEF AfficheInv, ShownFits, Verdicts, Affiche!CoordinatesNeeded, AloneFit,
     AloneRunFits, TicketlandFits, KudaGoFits, AgreedFits, Apart, Unmatched,
     Affiche!Published
<1>2. SeenFit'
  BY ListingRowsKnown DEF AfficheInv, ListingRowsFit, SeenFit, SeenFits,
     Affiche!Published
<1> QED BY <1>1, <1>2 DEF AfficheInv

LEMMA OthersKeep ==
  ASSUME AfficheInv,
         \/ \E s \in Affiche!Sources : Affiche!Change(s)
         \/ Affiche!ReadBackfill \/ Affiche!ReadClientGeo
         \/ Affiche!UpdateEvents \/ Affiche!BreakClientGeo
         \/ Affiche!ReadAfficheEvent \/ Affiche!CreateEvent
         \/ Affiche!Tick \/ UNCHANGED Affiche!vars
  PROVE  AfficheInv'
<1>1. UNCHANGED <<row, run, agreed, forced, swept, judged>> /\ today' \in Nat
          /\ today' >= today
  BY DEF AfficheInv, ListingRowsFit, Affiche!Change, Affiche!ReadBackfill,
     Affiche!ReadClientGeo, Affiche!UpdateEvents, Affiche!BreakClientGeo,
     Affiche!ReadAfficheEvent, Affiche!CreateEvent, Affiche!Tick, Affiche!vars
<1>2. feed' \in [Affiche!Sources -> [listed : BOOLEAN, item : Listings]]
  BY FeedsFit DEF AfficheInv, ListingRowsFit, Affiche!Change, Affiche!ReadBackfill,
     Affiche!ReadClientGeo, Affiche!UpdateEvents, Affiche!BreakClientGeo,
     Affiche!ReadAfficheEvent, Affiche!CreateEvent, Affiche!Tick, Affiche!vars
<1>3. /\ geo' \in {"idle", "publish", "save", "events"}
      /\ making' \in {"no", "with", "without"} /\ meetup' \in {"none", "with", "without"}
      /\ placed' \in BOOLEAN
  BY DEF AfficheInv, ListingRowsFit, Affiche!Change, Affiche!ReadBackfill,
     Affiche!ReadClientGeo, Affiche!UpdateEvents, Affiche!BreakClientGeo,
     Affiche!ReadAfficheEvent, Affiche!CreateEvent, Affiche!Tick, Affiche!vars
<1>4. ListingRowsFit' BY <1>1, <1>2, <1>3 DEF AfficheInv, ListingRowsFit
<1>5. PlacedFits'
  BY <1>1 DEF AfficheInv, ListingRowsFit, ShownFits, PlacedFits, Affiche!Change,
     Affiche!ReadBackfill, Affiche!ReadClientGeo, Affiche!UpdateEvents,
     Affiche!BreakClientGeo, Affiche!ReadAfficheEvent, Affiche!CreateEvent,
     Affiche!Tick, Affiche!vars
<1> QED BY <1>1, <1>4, <1>5, PassiveKeeps

LEMMA FailRunKeeps ==
  ASSUME AfficheInv, NEW s \in Affiche!Sources, Affiche!FailRun(s)
  PROVE  AfficheInv'
<1>1. ListingRowsFit'
  BY ListingRowsKnown DEF AfficheInv, ListingRowsFit, Affiche!FailRun, Affiche!Outside
<1>2. ShownFits'
  BY DEF AfficheInv, Affiche!FailRun, ShownFits, Verdicts, Affiche!CoordinatesNeeded,
     PlacedFits, Affiche!Published, Affiche!Outside
<1>3. AloneFit'
  BY ListingRowsKnown DEF AfficheInv, ListingRowsFit, Affiche!FailRun, AloneFit,
     AloneRunFits, TicketlandFits, KudaGoFits, AgreedFits, Apart, Unmatched,
     Affiche!Other, Affiche!Published, Affiche!Idle
<1>4. SeenFit'
  BY ListingRowsKnown DEF AfficheInv, ListingRowsFit, Affiche!FailRun, SeenFit,
     SeenFits, Affiche!Published, Affiche!Idle, Affiche!Outside
<1> QED BY <1>1, <1>2, <1>3, <1>4 DEF AfficheInv

LEMMA EnrichEventKeeps ==
  ASSUME AfficheInv, NEW s \in Affiche!Sources, Affiche!EnrichEventFromStableVenueData(s)
  PROVE  AfficheInv'
<1>1. PICK found \in BOOLEAN :
        run' = [run EXCEPT ![s].phase = "load", ![s].item.at = @ \/ found]
  BY DEF Affiche!EnrichEventFromStableVenueData
<1>2. PICK at \in BOOLEAN : run' = [run EXCEPT ![s].phase = "load", ![s].item.at = at]
  BY <1>1
<1>3. run[s] \in Imports /\ run[s].item \in Listings
  BY DEF AfficheInv, ListingRowsFit, Imports
<1>4. [run[s] EXCEPT !.phase = "load", !.item.at = at] \in Imports
  BY <1>3 DEF Imports, Listings
<1>5. /\ run' \in [Affiche!Sources -> Imports]
      /\ run'[s].phase = "load"
      /\ run'[s].alone = run[s].alone /\ run'[s].seen = run[s].seen
      /\ run'[Affiche!Other(s)] = run[Affiche!Other(s)]
  BY <1>2, <1>3, <1>4, ListingRowsKnown DEF AfficheInv, ListingRowsFit, Imports,
     Affiche!Other
<1>6. run[s].phase = "enrich"
          /\ UNCHANGED <<Affiche!Outside, row, agreed, forced, swept, judged, placed>>
  BY DEF Affiche!EnrichEventFromStableVenueData
<1>7. ListingRowsFit'
  BY <1>5, <1>6 DEF AfficheInv, ListingRowsFit, Affiche!Outside
<1>8. ShownFits'
  BY <1>6 DEF AfficheInv, ShownFits, Verdicts, Affiche!CoordinatesNeeded, PlacedFits,
     Affiche!Published, Affiche!Outside
<1>9. AloneFit'
  BY <1>5, <1>6, ListingRowsKnown DEF AfficheInv, AloneFit, AloneRunFits,
     TicketlandFits, KudaGoFits, AgreedFits, Apart, Unmatched, Affiche!Other,
     Affiche!Published
<1>10. SeenFit'
  BY <1>5, <1>6, ListingRowsKnown DEF AfficheInv, SeenFit, SeenFits,
     Affiche!Published, Affiche!Other, Affiche!Outside
<1> QED BY <1>7, <1>8, <1>9, <1>10 DEF AfficheInv

LEMMA AfficheStepKeeps ==
  ASSUME AfficheInv, [Affiche!Next]_Affiche!vars
  PROVE  AfficheInv'
<1>1. ASSUME NEW s \in Affiche!Sources, Affiche!Import(s) PROVE AfficheInv'
  BY <1>1, FetchItemsKeeps, EnrichEventKeeps, LoadEventDuplicateCandidatesKeeps,
     UpsertItemKeeps, MarkStaleItemsKeeps, FailRunKeeps DEF Affiche!Import
<1>2. ASSUME NEW s \in Affiche!Sources, NEW action, Affiche!ContentItemAction(s, action)
      PROVE  AfficheInv'
  BY <1>2, ContentItemActionKeeps
<1>3. ASSUME NEW s \in Affiche!Sources, Affiche!UpdateContentItem(s) \/ Affiche!Change(s)
      PROVE  AfficheInv'
  BY <1>3, UpdateContentItemKeeps, OthersKeep
<1>4. CASE \/ Affiche!HideDuplicateItem \/ Affiche!EnrichExistingAffiliateItem
           \/ Affiche!BackfillTicketlandCoordinates \/ Affiche!SaveClientGeo
  BY <1>4, HideDuplicateItemKeeps, EnrichExistingAffiliateItemKeeps,
     BackfillTicketlandCoordinatesKeeps, SaveClientGeoKeeps
<1> QED BY <1>1, <1>2, <1>3, <1>4, OthersKeep DEF Affiche!Next

LEMMA AfficheBegins == Affiche!Init => AfficheInv
<1> SUFFICES ASSUME Affiche!Init PROVE AfficheInv OBVIOUS
<1>1. ListingRowsFit
  <2>1. Affiche!Feeds(Affiche!Ticketland) \cup Affiche!Feeds(Affiche!KudaGo)
            \subseteq [listed : BOOLEAN, item : Listings]
    <3>1. Affiche!Feeds(Affiche!Ticketland) \subseteq [listed : BOOLEAN, item : Listings]
      BY FeedsFit, ListingRowsKnown
    <3>2. Affiche!Feeds(Affiche!KudaGo) \subseteq [listed : BOOLEAN, item : Listings]
      BY FeedsFit, ListingRowsKnown
    <3> QED BY <3>1, <3>2
  <2>2. {f \in Affiche!Feeds(Affiche!Ticketland) \cup Affiche!Feeds(Affiche!KudaGo) :
             f.listed}
          \subseteq Affiche!Feeds(Affiche!Ticketland) \cup Affiche!Feeds(Affiche!KudaGo)
    BY Zenon
  <2>3. feed \in [Affiche!Sources ->
                    Affiche!Feeds(Affiche!Ticketland) \cup Affiche!Feeds(Affiche!KudaGo)]
    BY <2>2 DEF Affiche!Init
  <2>4. feed \in [Affiche!Sources -> [listed : BOOLEAN, item : Listings]]
    BY <2>1, <2>3
  <2>5. row \in [Affiche!Sources -> Rows] /\ run \in [Affiche!Sources -> Imports]
    BY ListingRowsKnown DEF Affiche!Init
  <2>6. forced \in [Affiche!Sources -> BOOLEAN] /\ swept \in [Affiche!Sources -> Int]
    BY DEF Affiche!Init
  <2> QED BY <2>4, <2>5, <2>6 DEF Affiche!Init, ListingRowsFit
<1> QED BY <1>1, ListingRowsKnown, ListingsKnown DEF Affiche!Init, AfficheInv,
    ShownFits, Verdicts, Affiche!CoordinatesNeeded, PlacedFits, AloneRunFits,
    AloneFit, TicketlandFits, KudaGoFits, AgreedFits, SeenFit, SeenFits,
    Affiche!Published, Affiche!Idle, Affiche!NoRow, Affiche!Blank

LEMMA AfficheHoldsFollows == AfficheInv => Affiche!AfficheHolds
BY ListingRowsKnown DEF AfficheInv, ListingRowsFit, Rows, ShownFits, Verdicts,
   Affiche!CoordinatesNeeded, PlacedFits, AloneFit, AgreedFits, SeenFit, SeenFits,
   Apart, Unmatched, Affiche!AfficheHolds, Affiche!OneListing, Affiche!GoneIsStale,
   Affiche!RejectedStays, Affiche!MeetupLocated, Affiche!Shown, Affiche!Published

LEMMA AfficheSteps ==
    ASSUME focus = "affiche", [Next]_<<focus, everything>>
    PROVE  [Affiche!Next]_Affiche!vars
<1>1. CASE UNCHANGED <<focus, everything>>
  BY <1>1 DEF everything, Affiche!vars
<1>2. CASE Next
  BY <1>2 DEF Next
<1> QED BY <1>1, <1>2

LEMMA AfficheKept == Spec => [](focus = "affiche" => AfficheInv)
<1>1. Init => (focus = "affiche" => AfficheInv)
  BY AfficheBegins DEF Init
<1>2. (focus = "affiche" => AfficheInv) /\ [Next]_<<focus, everything>>
        => (focus = "affiche" => AfficheInv)'
  <2> SUFFICES ASSUME focus = "affiche" => AfficheInv, [Next]_<<focus, everything>>,
                      focus' = "affiche"
               PROVE  AfficheInv'
    OBVIOUS
  <2>1. focus = "affiche" /\ AfficheInv
    BY DEF Next
  <2>2. [Affiche!Next]_Affiche!vars
    BY <2>1, AfficheSteps
  <2> QED BY <2>1, <2>2, AfficheStepKeeps
<1> QED BY <1>1, <1>2, PTL DEF Spec

-----------------------------------------------------------------------------
(* What a user is told, for any occasions, workers, processes and calls.     *)

phase == v1
joined == v2
notice == v3
queued == v4
scan == v5
count == v6
counting == v7
list == v8
listing == v9
call == v11
cut == v13
uncleared == v14
created == v15
USE DEF phase, joined, notice, queued, scan, count, counting, list, listing,
        call, cut, uncleared, created

LEMMA OccasionsCounted == \A S : Notice!Cardinality(S) = Cardinality(S)
BY DEF Notice!Cardinality, Cardinality

(* A scan under way, a cached count, a cached list.                          *)
Scans == [at : {"meetups", "subscriptions"}, rows : Seq(Notice!Occasions),
          make : BOOLEAN, seen : SUBSET Notice!Occasions]
Counts == [value : Nat, old : BOOLEAN]
Answers == [value : SUBSET Notice!Occasions, old : BOOLEAN]

NoticeRowsFit ==
    /\ phase \in [Notice!Occasions -> {"before", "inside", "past"}]
    /\ joined \subseteq Notice!Occasions
    /\ notice \in [Notice!Occasions -> {"none", "unread", "read"}]
    /\ queued \in [Notice!Occasions -> Nat] /\ created \in [Notice!Occasions -> Nat]
    /\ scan \in [NoticeWorkers -> {Notice!Idle} \cup Scans]
    /\ count \in {Notice!None} \cup Counts
    /\ counting \in [NoticeProcesses -> {Notice!None} \cup Counts]
    /\ list \in [NoticeProcesses -> {Notice!None} \cup Answers]
    /\ listing \in [NoticeProcesses -> SUBSET ({Notice!None} \cup Answers)]
    /\ call \in [AnyCalls -> {Notice!Idle}
                   \cup [at : {"count", "list"}, process : NoticeProcesses]]
    /\ cut \subseteq Notice!Occasions /\ uncleared \in BOOLEAN

(* A notice is made and its rows for the outbox are not: a worker is about   *)
(* to queue them, or its scan ended there.                                   *)
Pending(w) == scan[w] # Notice!Idle /\ ~scan[w].make
Owed(o) == o \in cut \/ \E w \in NoticeWorkers : Pending(w) /\ Head(scan[w].rows) = o

(* One notice for an occasion, which goes again only when its window is past *)
(* and no scan holds the occasion any more.                                  *)
CreatedFits ==
    \A o \in Notice!Occasions :
        /\ created[o] <= 1
        /\ notice[o] # "none" => created[o] = 1
        /\ created[o] = 1 /\ notice[o] = "none" =>
              /\ phase[o] = "past"
              /\ \A w \in NoticeWorkers : scan[w] # Notice!Idle
                    => o \notin Notice!Elements(scan[w].rows)

QueuedFits ==
    \A o \in Notice!Occasions : created[o] = queued[o] + IF Owed(o) THEN 1 ELSE 0

(* No two workers owe the rows of one notice.                                *)
NoticePendingFits ==
    \A w \in NoticeWorkers : Pending(w) =>
        /\ scan[w].rows # <<>>
        /\ Head(scan[w].rows) \notin cut
        /\ \A v \in NoticeWorkers \ {w} : Pending(v)
              => Head(scan[v].rows) # Head(scan[w].rows)

(* What a scan has read it has still to handle, or it has a notice.          *)
NoticeSeenFits ==
    \A w \in NoticeWorkers : scan[w] # Notice!Idle =>
        scan[w].seen \subseteq
            Notice!Elements(scan[w].rows) \cup {o \in Notice!Occasions : created[o] = 1}

(* Unless a mark is on its way to it, what is cached or loaded, if not old,  *)
(* does not exceed what is unread.                                           *)
Covers(load, unread) ==
    load # Notice!None /\ ~load.old => load.value <= Cardinality(unread)
CountFits ==
    ~uncleared /\ (\A k \in AnyCalls : call[k].at # "count") =>
        /\ Covers(count, Notice!Unread)
        /\ \A p \in NoticeProcesses : Covers(counting[p], Notice!Unread)

Shows(load, unread) == load # Notice!None /\ ~load.old => load.value \subseteq unread
ListFits ==
    \A p \in NoticeProcesses :
        (\A k \in AnyCalls : call[k] # Notice!Idle => call[k].process # p) =>
            /\ Shows(list[p], Notice!Unread)
            /\ \A l \in listing[p] : Shows(l, Notice!Unread)

NoticeInv ==
    /\ NoticeRowsFit /\ CreatedFits /\ QueuedFits /\ NoticePendingFits /\ NoticeSeenFits
    /\ CountFits /\ ListFits

-----------------------------------------------------------------------------
(* Rows that a scan handles one by one; the sizes of sets of occasions.      *)

LEMMA RowsSplit ==
  ASSUME NEW rows \in Seq(Notice!Occasions), rows # <<>>
  PROVE  /\ Head(rows) \in Notice!Occasions /\ Tail(rows) \in Seq(Notice!Occasions)
         /\ Head(rows) \in Notice!Elements(rows)
         /\ Notice!Elements(Tail(rows)) \subseteq Notice!Elements(rows)
         /\ Notice!Elements(rows) \subseteq {Head(rows)} \cup Notice!Elements(Tail(rows))
<1>1. Len(rows) > 0 /\ Head(rows) = rows[1] /\ 1 \in DOMAIN rows OBVIOUS
<1>2. /\ Len(Tail(rows)) = Len(rows) - 1
      /\ \A i \in 1 .. Len(rows) - 1 : Tail(rows)[i] = rows[i + 1]
  OBVIOUS
<1>3. DOMAIN rows = 1 .. Len(rows) /\ DOMAIN Tail(rows) = 1 .. Len(rows) - 1
  BY <1>1, <1>2
<1>4. Notice!Elements(Tail(rows)) \subseteq Notice!Elements(rows)
  BY <1>2, <1>3 DEF Notice!Elements
<1>5. ASSUME NEW i \in 1 .. Len(rows)
      PROVE  rows[i] \in {Head(rows)} \cup Notice!Elements(Tail(rows))
  <2>1. CASE i = 1 BY <1>1, <2>1
  <2>2. CASE i > 1
    <3>1. i - 1 \in 1 .. Len(rows) - 1 /\ Tail(rows)[i - 1] = rows[i]
      BY <1>2, <2>2
    <3> QED BY <1>3, <3>1 DEF Notice!Elements
  <2> QED BY <2>1, <2>2
<1> QED BY <1>1, <1>3, <1>4, <1>5 DEF Notice!Elements

LEMMA Counted ==
  /\ \A S \in SUBSET Notice!Occasions :
        /\ IsFiniteSet(S) /\ Cardinality(S) \in Nat
        /\ \A R \in SUBSET S : Cardinality(R) <= Cardinality(S)
  /\ Notice!Unread \in SUBSET Notice!Occasions
  /\ Notice!Unread' \in SUBSET Notice!Occasions
<1>1. IsFiniteSet(Notice!Occasions)
  BY OccasionsFit, FS_Union DEF Notice!Occasions
<1>2. \A S \in SUBSET Notice!Occasions : IsFiniteSet(S) BY <1>1, FS_Subset
<1>3. \A S \in SUBSET Notice!Occasions : Cardinality(S) \in Nat
  BY <1>2, FS_CardinalityType
<1>4. \A S \in SUBSET Notice!Occasions :
        \A R \in SUBSET S : Cardinality(R) <= Cardinality(S)
  BY <1>2, FS_Subset
<1>5. Notice!Unread \in SUBSET Notice!Occasions
          /\ Notice!Unread' \in SUBSET Notice!Occasions
  BY DEF Notice!Unread, Notice!Occasions
<1> QED BY <1>2, <1>3, <1>4, <1>5

-----------------------------------------------------------------------------
(* Steps that leave to the caches what is unread, or to the scans what is    *)
(* announced.                                                                *)

LEMMA ShownKept ==
  ASSUME NoticeInv, Notice!Unread \subseteq Notice!Unread', UNCHANGED Notice!caches
  PROVE  CountFits' /\ ListFits'
<1>1. Cardinality(Notice!Unread) <= Cardinality(Notice!Unread') BY Counted
<1>2. Cardinality(Notice!Unread) \in Nat /\ Cardinality(Notice!Unread') \in Nat
  BY Counted
<1>3. \A load \in {Notice!None} \cup Counts : Covers(load, Notice!Unread) =>
          Covers(load, Notice!Unread')
  BY <1>1, <1>2 DEF Covers, Counts
<1>4. CountFits'
  BY <1>3 DEF NoticeInv, NoticeRowsFit, CountFits, Notice!caches
<1>5. \A load : Shows(load, Notice!Unread) => Shows(load, Notice!Unread')
  BY DEF Shows
<1>6. ListFits' BY <1>5 DEF NoticeInv, ListFits, Notice!caches
<1> QED BY <1>4, <1>6

LEMMA ScansKept ==
  ASSUME NoticeInv, UNCHANGED <<Notice!world, Notice!scans>>,
         \A o \in Notice!Occasions : notice[o] = "none" <=> notice'[o] = "none"
  PROVE  CreatedFits' /\ QueuedFits' /\ NoticePendingFits' /\ NoticeSeenFits'
BY DEF NoticeInv, CreatedFits, QueuedFits, NoticePendingFits, NoticeSeenFits, Pending,
   Owed, Notice!world, Notice!scans

LEMMA TurnKeeps ==
  ASSUME NoticeInv, NEW o \in Notice!Occasions, Notice!Turn(o)
  PROVE  NoticeInv'
<1>1. NoticeRowsFit'
  BY DEF NoticeInv, NoticeRowsFit, Notice!Turn, Notice!scans, Notice!caches
<1>2. CountFits' /\ ListFits' BY ShownKept DEF Notice!Turn, Notice!Unread
<1>3. CreatedFits'
  BY DEF NoticeInv, NoticeRowsFit, CreatedFits, Notice!Turn, Notice!scans
<1>4. QueuedFits' /\ NoticePendingFits' /\ NoticeSeenFits'
  BY DEF NoticeInv, QueuedFits, NoticePendingFits, NoticeSeenFits, Pending, Owed,
     Notice!Turn, Notice!scans
<1> QED BY <1>1, <1>2, <1>3, <1>4 DEF NoticeInv

LEMMA RetireKeeps ==
  ASSUME NoticeInv, NEW o \in Notice!Occasions, Notice!Retire(o)
  PROVE  NoticeInv'
<1>1. NoticeRowsFit'
  BY DEF NoticeInv, NoticeRowsFit, Notice!Retire, Notice!world, Notice!scans,
     Notice!caches
<1>2. Notice!Unread \subseteq Notice!Unread'
  BY DEF Notice!Unread, Notice!Retire, NoticeInv, NoticeRowsFit
<1>3. CountFits' /\ ListFits' BY <1>2, ShownKept DEF Notice!Retire
<1>4. CreatedFits'
  BY DEF NoticeInv, NoticeRowsFit, CreatedFits, Notice!Retire, Notice!world,
     Notice!scans
<1>5. QueuedFits' /\ NoticePendingFits' /\ NoticeSeenFits'
  BY DEF NoticeInv, QueuedFits, NoticePendingFits, NoticeSeenFits, Pending, Owed,
     Notice!Retire, Notice!scans
<1> QED BY <1>1, <1>3, <1>4, <1>5 DEF NoticeInv

-----------------------------------------------------------------------------
(* The steps of a scan.                                                      *)

LEMMA ReadFits ==
  ASSUME NoticeInv, NEW w \in NoticeWorkers, NEW at \in {"meetups", "subscriptions"},
         NEW kind, Notice!Read(w, at, kind), ~Pending(w),
         at = "subscriptions" => scan[w] # Notice!Idle /\ scan[w].rows = <<>>,
         UNCHANGED <<Notice!world, notice, queued, Notice!caches, cut, created>>
  PROVE  NoticeInv'
<1>1. /\ Notice!Due(kind) \subseteq Notice!Occasions
      /\ \A o \in Notice!Due(kind) : phase[o] = "inside" /\ notice[o] = "none"
  BY DEF Notice!Due, NoticeInv, NoticeRowsFit
<1>2. PICK n \in Nat :
        n = IF Cardinality(Notice!Due(kind)) < NoticeBatch
            THEN Cardinality(Notice!Due(kind)) ELSE NoticeBatch
  BY <1>1, Counted, OccasionsFit
<1>3. PICK rows \in [1 .. n -> Notice!Due(kind)] :
        scan' = [scan EXCEPT ![w] = [at |-> at, rows |-> rows, make |-> TRUE,
                   seen |-> Notice!Elements(rows)
                              \union IF at = "meetups" THEN {} ELSE scan[w].seen]]
  BY OccasionsCounted, <1>2 DEF Notice!Read, Notice!Orders
<1>4. rows \in Seq(Notice!Due(kind)) /\ Notice!Elements(rows) \subseteq Notice!Due(kind)
  BY DEF Notice!Elements
<1>5. rows \in Seq(Notice!Occasions) BY <1>1, <1>4
<1>6. PICK seen \in SUBSET Notice!Occasions :
        /\ seen = Notice!Elements(rows) \union IF at = "meetups" THEN {} ELSE scan[w].seen
        /\ seen \subseteq
             Notice!Elements(rows) \cup {o \in Notice!Occasions : created[o] = 1}
  <2>1. CASE at = "meetups" BY <1>1, <1>4, <2>1
  <2>2. CASE at = "subscriptions"
    <3>1. Notice!Elements(<<>>) = {} BY DEF Notice!Elements
    <3>2. scan[w].seen \subseteq {o \in Notice!Occasions : created[o] = 1}
      BY <2>2, <3>1 DEF NoticeInv, NoticeSeenFits
    <3> QED BY <1>1, <1>4, <2>2, <3>2
  <2> QED BY <2>1, <2>2
<1>7. scan' = [scan EXCEPT ![w] =
                 [at |-> at, rows |-> rows, make |-> TRUE, seen |-> seen]]
  BY <1>3, <1>6
<1>8. [at |-> at, rows |-> rows, make |-> TRUE, seen |-> seen] \in Scans
  BY <1>5 DEF Scans
<1>9. /\ scan' \in [NoticeWorkers -> {Notice!Idle} \cup Scans]
      /\ scan'[w] # Notice!Idle
      /\ scan'[w].rows = rows /\ scan'[w].make /\ scan'[w].seen = seen
      /\ \A v \in NoticeWorkers \ {w} : scan'[v] = scan[v]
  BY <1>7, <1>8 DEF NoticeInv, NoticeRowsFit, Notice!Idle
<1>10. NoticeRowsFit'
  BY <1>9 DEF NoticeInv, NoticeRowsFit, Notice!world, Notice!caches
<1>11. CountFits' /\ ListFits' BY ShownKept DEF Notice!Unread
<1>12. \A v \in NoticeWorkers : Pending(v)' <=> Pending(v) BY <1>9 DEF Pending
<1>13. CreatedFits' BY <1>1, <1>4, <1>9 DEF NoticeInv, CreatedFits, Notice!world
<1>14. \A v \in NoticeWorkers : Pending(v) => scan'[v] = scan[v] BY <1>9
<1>15. QueuedFits' /\ NoticePendingFits'
  BY <1>12, <1>14 DEF NoticeInv, QueuedFits, NoticePendingFits, Owed
<1>16. NoticeSeenFits' BY <1>6, <1>9 DEF NoticeInv, NoticeSeenFits
<1> QED BY <1>10, <1>11, <1>13, <1>15, <1>16 DEF NoticeInv

LEMMA BeginScanKeeps ==
  ASSUME NoticeInv, NEW w \in NoticeWorkers, Notice!BeginScan(w)
  PROVE  NoticeInv'
BY ReadFits DEF Notice!BeginScan, Pending

LEMMA ReadSubscriptionsKeeps ==
  ASSUME NoticeInv, NEW w \in NoticeWorkers, Notice!ReadSubscriptions(w)
  PROVE  NoticeInv'
<1>1. scan[w] # Notice!Idle BY DEF Notice!ReadSubscriptions, Notice!Idle
<1>2. ~Pending(w) BY DEF NoticeInv, NoticePendingFits, Notice!ReadSubscriptions
<1> QED BY <1>1, <1>2, ReadFits DEF Notice!ReadSubscriptions

LEMMA HandledFits ==
  ASSUME NoticeInv, NEW o \in Notice!Occasions, created'[o] = 1,
         \A p \in Notice!Occasions \ {o} : created'[p] = created[p]
             /\ notice'[p] = notice[p],
         notice'[o] = "none" => notice[o] = "none" /\ created[o] = 1,
         UNCHANGED Notice!world,
         \A v \in NoticeWorkers : scan'[v] # Notice!Idle =>
             /\ scan[v] # Notice!Idle /\ scan'[v].seen = scan[v].seen
             /\ Notice!Elements(scan'[v].rows) \subseteq Notice!Elements(scan[v].rows)
             /\ Notice!Elements(scan[v].rows)
                  \subseteq {o} \cup Notice!Elements(scan'[v].rows)
  PROVE  CreatedFits' /\ NoticeSeenFits'
<1>1. CreatedFits'
  <2> SUFFICES ASSUME NEW p \in Notice!Occasions
               PROVE  /\ created'[p] <= 1
                      /\ notice'[p] # "none" => created'[p] = 1
                      /\ created'[p] = 1 /\ notice'[p] = "none" =>
                            /\ phase'[p] = "past"
                            /\ \A w \in NoticeWorkers : scan'[w] # Notice!Idle
                                  => p \notin Notice!Elements(scan'[w].rows)
    BY DEF CreatedFits
  <2>1. /\ created[p] <= 1 /\ (notice[p] # "none" => created[p] = 1)
        /\ created[p] = 1 /\ notice[p] = "none" =>
              /\ phase[p] = "past"
              /\ \A w \in NoticeWorkers : scan[w] # Notice!Idle
                    => p \notin Notice!Elements(scan[w].rows)
    BY DEF NoticeInv, CreatedFits
  <2>2. phase' = phase BY DEF Notice!world
  <2> QED BY <2>1, <2>2
<1>2. NoticeSeenFits'
  <2> SUFFICES ASSUME NEW v \in NoticeWorkers, scan'[v] # Notice!Idle
               PROVE  scan'[v].seen \subseteq Notice!Elements(scan'[v].rows)
                        \cup {p \in Notice!Occasions : created'[p] = 1}
    BY DEF NoticeSeenFits
  <2>1. scan[v].seen \subseteq Notice!Elements(scan[v].rows)
          \cup {p \in Notice!Occasions : created[p] = 1}
    BY DEF NoticeInv, NoticeSeenFits
  <2> QED BY <2>1
<1> QED BY <1>1, <1>2

LEMMA CreateKeeps ==
  ASSUME NoticeInv, NEW w \in NoticeWorkers, Notice!Create(w)
  PROVE  NoticeInv'
<1> DEFINE o == Head(scan[w].rows)
<1>1. scan[w] \in Scans /\ scan[w] # Notice!Idle /\ scan[w].rows # <<>> /\ scan[w].make
  BY DEF NoticeInv, NoticeRowsFit, Notice!Create
<1>2. scan[w].rows \in Seq(Notice!Occasions) BY <1>1 DEF Scans
<1>3. /\ o \in Notice!Occasions /\ Tail(scan[w].rows) \in Seq(Notice!Occasions)
      /\ o \in Notice!Elements(scan[w].rows)
      /\ Notice!Elements(Tail(scan[w].rows)) \subseteq Notice!Elements(scan[w].rows)
      /\ Notice!Elements(scan[w].rows)
           \subseteq {o} \cup Notice!Elements(Tail(scan[w].rows))
  BY <1>1, <1>2, RowsSplit
<1>4. UNCHANGED <<Notice!world, queued, Notice!caches, cut>>
  BY DEF Notice!Create
<1> HIDE DEF o
<1>5. CASE notice[o] = "none"
  <2>1. /\ notice' = [notice EXCEPT ![o] = "unread"]
        /\ created' = [created EXCEPT ![o] = @ + 1]
        /\ scan' = [scan EXCEPT ![w].make = FALSE]
    BY <1>5 DEF Notice!Create, o
  <2>2. created[o] = 0
    BY <1>1, <1>3, <1>5 DEF NoticeInv, NoticeRowsFit, CreatedFits
  <2>3. created'[o] = 1 /\ \A p \in Notice!Occasions \ {o} : created'[p] = created[p]
    BY <1>3, <2>1, <2>2 DEF NoticeInv, NoticeRowsFit
  <2>4. queued[o] = 0 /\ ~Owed(o)
    BY <1>3, <2>2 DEF NoticeInv, NoticeRowsFit, QueuedFits
  <2>5. [scan[w] EXCEPT !.make = FALSE] \in Scans BY <1>1 DEF Scans
  <2>6. /\ scan' \in [NoticeWorkers -> {Notice!Idle} \cup Scans]
        /\ scan'[w] # Notice!Idle /\ scan'[w].rows = scan[w].rows /\ ~scan'[w].make
        /\ scan'[w].seen = scan[w].seen
        /\ \A v \in NoticeWorkers \ {w} : scan'[v] = scan[v]
    BY <1>1, <2>1, <2>5 DEF NoticeInv, NoticeRowsFit, Notice!Idle, Scans
  <2>7. NoticeRowsFit'
    BY <1>3, <1>4, <2>1, <2>6 DEF NoticeInv, NoticeRowsFit, Notice!world,
       Notice!caches
  <2>8. CountFits' /\ ListFits'
    <3>1. Notice!Unread \subseteq Notice!Unread'
      BY <1>3, <2>1 DEF Notice!Unread, NoticeInv, NoticeRowsFit
    <3> QED BY <1>4, <3>1, ShownKept
  <2>9. CreatedFits' /\ NoticeSeenFits'
    <3>1. \A p \in Notice!Occasions \ {o} : notice'[p] = notice[p]
      BY <2>1 DEF NoticeInv, NoticeRowsFit
    <3>2. notice'[o] = "unread" BY <1>3, <2>1 DEF NoticeInv, NoticeRowsFit
    <3> QED BY <1>1, <1>3, <1>4, <2>3, <2>6, <3>1, <3>2, HandledFits
  <2>10. \A v \in NoticeWorkers : Pending(v)' <=> Pending(v) \/ v = w
    BY <1>1, <2>6 DEF Pending
  <2>11. \A p \in Notice!Occasions : Owed(p)' <=> Owed(p) \/ p = o
    BY <1>4, <2>6, <2>10 DEF Owed, o
  <2>12. QueuedFits'
    BY <1>3, <1>4, <2>3, <2>2, <2>4, <2>11 DEF NoticeInv, QueuedFits
  <2>13. NoticePendingFits'
    BY <1>1, <1>4, <2>4, <2>6, <2>10 DEF NoticeInv, NoticePendingFits, Owed, o
  <2> QED BY <2>7, <2>8, <2>9, <2>12, <2>13 DEF NoticeInv
<1>6. CASE notice[o] # "none"
  <2>1. scan' = [scan EXCEPT ![w].rows = Tail(scan[w].rows)]
            /\ UNCHANGED <<notice, created>>
    BY <1>6 DEF Notice!Create, o
  <2>2. created[o] = 1 BY <1>3, <1>6 DEF NoticeInv, CreatedFits
  <2>3. /\ scan' \in [NoticeWorkers -> {Notice!Idle} \cup Scans]
        /\ scan'[w] # Notice!Idle /\ scan'[w].rows = Tail(scan[w].rows) /\ scan'[w].make
        /\ scan'[w].seen = scan[w].seen
        /\ \A v \in NoticeWorkers \ {w} : scan'[v] = scan[v]
    BY <1>1, <1>3, <2>1 DEF NoticeInv, NoticeRowsFit, Notice!Idle, Scans
  <2>4. NoticeRowsFit'
    BY <1>4, <2>1, <2>3 DEF NoticeInv, NoticeRowsFit, Notice!world, Notice!caches
  <2>5. CountFits' /\ ListFits' BY <1>4, <2>1, ShownKept DEF Notice!Unread
  <2>6. CreatedFits' /\ NoticeSeenFits'
    BY <1>1, <1>3, <1>4, <1>6, <2>1, <2>2, <2>3, HandledFits
  <2>7. \A v \in NoticeWorkers : Pending(v)' <=> Pending(v)
    BY <1>1, <2>3 DEF Pending
  <2>8. \A v \in NoticeWorkers : Pending(v) => scan'[v] = scan[v]
    BY <1>1, <2>3 DEF Pending
  <2>9. \A p \in Notice!Occasions : Owed(p)' <=> Owed(p)
    BY <1>4, <2>7, <2>8 DEF Owed
  <2>10. QueuedFits' BY <1>4, <2>1, <2>9 DEF NoticeInv, QueuedFits
  <2>11. NoticePendingFits' BY <1>4, <2>7, <2>8 DEF NoticeInv, NoticePendingFits
  <2> QED BY <2>4, <2>5, <2>6, <2>10, <2>11 DEF NoticeInv
<1> QED BY <1>5, <1>6

LEMMA EnqueueKeeps ==
  ASSUME NoticeInv, NEW w \in NoticeWorkers, Notice!Enqueue(w)
  PROVE  NoticeInv'
<1> DEFINE o == Head(scan[w].rows)
<1>1. scan[w] \in Scans /\ scan[w] # Notice!Idle /\ scan[w].rows # <<>> /\ Pending(w)
  BY DEF NoticeInv, NoticeRowsFit, Notice!Enqueue, Pending
<1>2. scan[w].rows \in Seq(Notice!Occasions) BY <1>1 DEF Scans
<1>3. /\ o \in Notice!Occasions /\ Tail(scan[w].rows) \in Seq(Notice!Occasions)
      /\ Notice!Elements(Tail(scan[w].rows)) \subseteq Notice!Elements(scan[w].rows)
      /\ Notice!Elements(scan[w].rows)
           \subseteq {o} \cup Notice!Elements(Tail(scan[w].rows))
  BY <1>1, <1>2, RowsSplit
<1>4. UNCHANGED <<Notice!world, notice, Notice!caches, cut, created>>
  BY DEF Notice!Enqueue
<1>5. queued' = [queued EXCEPT ![o] = @ + 1] BY DEF Notice!Enqueue
<1>6. scan' = [scan EXCEPT ![w].rows = Tail(scan[w].rows), ![w].make = TRUE]
  BY DEF Notice!Enqueue
<1>7. Owed(o) BY <1>1 DEF Owed
<1>8. created[o] = 1 /\ queued[o] = 0
  BY <1>3, <1>7 DEF NoticeInv, NoticeRowsFit, CreatedFits, QueuedFits
<1>9. /\ scan' \in [NoticeWorkers -> {Notice!Idle} \cup Scans]
      /\ scan'[w] # Notice!Idle /\ scan'[w].rows = Tail(scan[w].rows) /\ scan'[w].make
      /\ scan'[w].seen = scan[w].seen
      /\ \A v \in NoticeWorkers \ {w} : scan'[v] = scan[v]
  BY <1>1, <1>3, <1>6 DEF NoticeInv, NoticeRowsFit, Notice!Idle, Scans
<1>10. \A v \in NoticeWorkers : Pending(v)' <=> Pending(v) /\ v # w
  BY <1>9 DEF Pending
<1>11. \A p \in Notice!Occasions : Owed(p)' <=> Owed(p) /\ p # o
  BY <1>1, <1>4, <1>9, <1>10 DEF NoticeInv, NoticePendingFits, Owed
<1> HIDE DEF o
<1>12. NoticeRowsFit'
  BY <1>3, <1>4, <1>5, <1>9 DEF NoticeInv, NoticeRowsFit, Notice!world, Notice!caches
<1>13. CountFits' /\ ListFits' BY <1>4, ShownKept DEF Notice!Unread
<1>14. CreatedFits' /\ NoticeSeenFits'
  BY <1>1, <1>3, <1>4, <1>8, <1>9, HandledFits
<1>15. QueuedFits'
  <2>1. queued'[o] = 1 /\ \A p \in Notice!Occasions \ {o} : queued'[p] = queued[p]
    BY <1>3, <1>5, <1>8 DEF NoticeInv, NoticeRowsFit
  <2> QED BY <1>3, <1>4, <1>8, <1>11, <2>1 DEF NoticeInv, QueuedFits
<1>16. NoticePendingFits' BY <1>4, <1>9, <1>10 DEF NoticeInv, NoticePendingFits
<1> QED BY <1>12, <1>13, <1>14, <1>15, <1>16 DEF NoticeInv

LEMMA StopKeeps ==
  ASSUME NoticeInv, NEW w \in NoticeWorkers, scan[w] # Notice!Idle,
         scan' = [scan EXCEPT ![w] = Notice!Idle],
         UNCHANGED <<Notice!world, notice, queued, Notice!caches, created>>,
         cut' = IF Pending(w) THEN cut \cup {Head(scan[w].rows)} ELSE cut
  PROVE  NoticeInv'
<1>1. scan'[w] = Notice!Idle /\ \A v \in NoticeWorkers \ {w} : scan'[v] = scan[v]
  BY DEF NoticeInv, NoticeRowsFit
<1>2. Pending(w) => Head(scan[w].rows) \in Notice!Occasions
  BY RowsSplit DEF NoticeInv, NoticeRowsFit, NoticePendingFits, Pending, Scans
<1>3. NoticeRowsFit'
  <2>1. cut' \subseteq Notice!Occasions BY <1>2 DEF NoticeInv, NoticeRowsFit
  <2>2. scan' \in [NoticeWorkers -> {Notice!Idle} \cup Scans]
    BY DEF NoticeInv, NoticeRowsFit
  <2> QED BY <2>1, <2>2 DEF NoticeInv, NoticeRowsFit, Notice!world, Notice!caches
<1>4. CountFits' /\ ListFits' BY ShownKept DEF Notice!Unread
<1>5. CreatedFits' /\ NoticeSeenFits'
  BY <1>1 DEF NoticeInv, CreatedFits, NoticeSeenFits, Notice!world
<1>6. \A v \in NoticeWorkers : Pending(v)' <=> Pending(v) /\ v # w
  BY <1>1 DEF Pending
<1>7. \A p \in Notice!Occasions : Owed(p)' <=> Owed(p)
  BY <1>1, <1>6 DEF Owed
<1>8. QueuedFits' BY <1>7 DEF NoticeInv, QueuedFits
<1>9. NoticePendingFits' BY <1>1, <1>6 DEF NoticeInv, NoticePendingFits
<1> QED BY <1>3, <1>4, <1>5, <1>8, <1>9 DEF NoticeInv

LEMMA EndScanKeeps ==
  ASSUME NoticeInv, NEW w \in NoticeWorkers, Notice!EndScan(w)
  PROVE  NoticeInv'
<1>1. scan[w] # Notice!Idle BY DEF Notice!EndScan, Notice!Idle
<1>2. ~Pending(w) BY DEF NoticeInv, NoticePendingFits, Notice!EndScan
<1> QED BY <1>1, <1>2, StopKeeps DEF Notice!EndScan

LEMMA FailScanKeeps ==
  ASSUME NoticeInv, NEW w \in NoticeWorkers, Notice!FailScan(w)
  PROVE  NoticeInv'
BY StopKeeps DEF Notice!FailScan, Pending

-----------------------------------------------------------------------------
(* Marks and what they clear.                                                *)

LEMMA AgedFits ==
  /\ \A load \in {Notice!None} \cup Counts :
        Notice!Aged(load) \in {Notice!None} \cup Counts
            /\ (Notice!Aged(load) = Notice!None \/ Notice!Aged(load).old)
  /\ \A load \in {Notice!None} \cup Answers :
        Notice!Aged(load) \in {Notice!None} \cup Answers
            /\ (Notice!Aged(load) = Notice!None \/ Notice!Aged(load).old)
<1>1. \A load \in Counts : [load EXCEPT !.old = TRUE] \in Counts
          /\ [load EXCEPT !.old = TRUE].old
  BY DEF Counts
<1>2. \A load \in Answers : [load EXCEPT !.old = TRUE] \in Answers
          /\ [load EXCEPT !.old = TRUE].old
  BY DEF Answers
<1>3. Notice!Aged(Notice!None) = Notice!None BY DEF Notice!Aged
<1>4. \A load : load # Notice!None => Notice!Aged(load) = [load EXCEPT !.old = TRUE]
  BY DEF Notice!Aged
<1> QED BY <1>1, <1>2, <1>3, <1>4

LEMMA MarkKeeps ==
  ASSUME NoticeInv, NEW k \in AnyCalls, NEW p \in NoticeProcesses,
         NEW S \in SUBSET Notice!Occasions, Notice!Mark(k, p, S)
  PROVE  NoticeInv'
<1>1. UNCHANGED <<Notice!world, Notice!scans, count, counting, uncleared>>
  BY DEF Notice!Mark
<1>2. notice' = [o \in Notice!Occasions |->
                   IF o \in S \cap Notice!Unread THEN "read" ELSE notice[o]]
  BY DEF Notice!Mark
<1>3. /\ call[k] = Notice!Idle
      /\ IF S \cap Notice!Unread = {} /\ S # Notice!Occasions THEN call' = call
         ELSE call' = [call EXCEPT ![k] = [at |-> "count", process |-> p]]
  BY DEF Notice!Mark
<1>4. /\ list' = [q \in NoticeProcesses |->
                    IF q = p THEN list[q] ELSE Notice!Aged(list[q])]
      /\ listing' = [q \in NoticeProcesses |->
                       IF q = p THEN listing[q] ELSE {Notice!Aged(l) : l \in listing[q]}]
  BY DEF Notice!Mark
<1>5. NoticeRowsFit'
  <2>1. notice' \in [Notice!Occasions -> {"none", "unread", "read"}]
    BY <1>2 DEF NoticeInv, NoticeRowsFit
  <2>2. call' \in [AnyCalls -> {Notice!Idle}
                     \cup [at : {"count", "list"}, process : NoticeProcesses]]
    BY <1>3 DEF NoticeInv, NoticeRowsFit
  <2>3. list' \in [NoticeProcesses -> {Notice!None} \cup Answers]
    BY <1>4, AgedFits DEF NoticeInv, NoticeRowsFit
  <2>4. \A q \in NoticeProcesses :
          {Notice!Aged(l) : l \in listing[q]} \in SUBSET ({Notice!None} \cup Answers)
    BY AgedFits DEF NoticeInv, NoticeRowsFit
  <2>5. listing' \in [NoticeProcesses -> SUBSET ({Notice!None} \cup Answers)]
    BY <1>4, <2>4 DEF NoticeInv, NoticeRowsFit
  <2> QED BY <1>1, <2>1, <2>2, <2>3, <2>5 DEF NoticeInv, NoticeRowsFit, Notice!world,
      Notice!scans
<1>6. CreatedFits' /\ QueuedFits' /\ NoticePendingFits' /\ NoticeSeenFits'
  <2>1. \A o \in Notice!Occasions : notice[o] = "none" <=> notice'[o] = "none"
    BY <1>2 DEF Notice!Unread
  <2> QED BY <1>1, <2>1, ScansKept
<1>7. CASE S \cap Notice!Unread = {} /\ S # Notice!Occasions
  <2>1. call' = call BY <1>3, <1>7
  <2>2. notice' = notice BY <1>2, <1>7 DEF NoticeInv, NoticeRowsFit
  <2>3. Notice!Unread' = Notice!Unread BY <2>2 DEF Notice!Unread
  <2>4. CountFits' BY <1>1, <2>1, <2>3 DEF NoticeInv, CountFits, Covers
  <2>5. \A q \in NoticeProcesses \ {p} :
          /\ list'[q] = Notice!None \/ list'[q].old
          /\ \A l \in listing'[q] : l = Notice!None \/ l.old
    BY <1>4, AgedFits DEF NoticeInv, NoticeRowsFit
  <2>6. list'[p] = list[p] /\ listing'[p] = listing[p] BY <1>4
  <2>7. ListFits'
    BY <2>1, <2>3, <2>5, <2>6 DEF NoticeInv, ListFits, Shows
  <2> QED BY <1>5, <1>6, <2>4, <2>7 DEF NoticeInv
<1>8. CASE ~(S \cap Notice!Unread = {} /\ S # Notice!Occasions)
  <2>1. call' = [call EXCEPT ![k] = [at |-> "count", process |-> p]]
    BY <1>3, <1>8
  <2>2. call'[k].at = "count" /\ call'[k] # Notice!Idle /\ call'[k].process = p
    BY <2>1 DEF NoticeInv, NoticeRowsFit, Notice!Idle
  <2>3. CountFits' BY <2>2 DEF CountFits
  <2>4. \A q \in NoticeProcesses \ {p} :
          /\ list'[q] = Notice!None \/ list'[q].old
          /\ \A l \in listing'[q] : l = Notice!None \/ l.old
    BY <1>4, AgedFits DEF NoticeInv, NoticeRowsFit
  <2>5. ListFits' BY <2>2, <2>4 DEF ListFits, Shows
  <2> QED BY <1>5, <1>6, <2>3, <2>5 DEF NoticeInv
<1> QED BY <1>7, <1>8

LEMMA ClearCountKeeps ==
  ASSUME NoticeInv, NEW k \in AnyCalls, Notice!ClearCount(k)
  PROVE  NoticeInv'
<1>1. UNCHANGED <<Notice!world, notice, Notice!scans, list, listing>>
  BY DEF Notice!ClearCount
<1>2. call[k] \in [at : {"count", "list"}, process : NoticeProcesses]
  BY DEF NoticeInv, NoticeRowsFit, Notice!ClearCount, Notice!Idle
<1>3. [call[k] EXCEPT !.at = "list"]
        \in [at : {"count", "list"}, process : NoticeProcesses]
  BY <1>2
<1>4. /\ call' \in [AnyCalls -> {Notice!Idle}
                      \cup [at : {"count", "list"}, process : NoticeProcesses]]
      /\ call'[k] # Notice!Idle /\ call'[k].process = call[k].process
      /\ \A c \in AnyCalls \ {k} : call'[c] = call[c]
  BY <1>2, <1>3 DEF NoticeInv, NoticeRowsFit, Notice!ClearCount, Notice!Idle
<1>5. /\ counting' \in [NoticeProcesses -> {Notice!None} \cup Counts]
      /\ \A p \in NoticeProcesses : counting'[p] = Notice!None \/ counting'[p].old
  BY AgedFits DEF NoticeInv, NoticeRowsFit, Notice!ClearCount
<1>6. count' = Notice!None \/ (uncleared' /\ count' = count)
  BY DEF Notice!ClearCount
<1>7. uncleared' \in BOOLEAN BY DEF NoticeInv, NoticeRowsFit, Notice!ClearCount
<1>8. NoticeRowsFit'
  BY <1>1, <1>4, <1>5, <1>6, <1>7 DEF NoticeInv, NoticeRowsFit, Notice!world,
     Notice!scans
<1>9. CreatedFits' /\ QueuedFits' /\ NoticePendingFits' /\ NoticeSeenFits'
  BY <1>1, ScansKept
<1>10. CountFits' BY <1>5, <1>6 DEF CountFits, Covers
<1>11. Notice!Unread' = Notice!Unread BY <1>1 DEF Notice!Unread
<1>12. call[k] # Notice!Idle BY <1>2 DEF Notice!Idle
<1>13. ListFits' BY <1>1, <1>4, <1>11, <1>12 DEF NoticeInv, ListFits
<1> QED BY <1>8, <1>9, <1>10, <1>13 DEF NoticeInv

LEMMA ClearListKeeps ==
  ASSUME NoticeInv, NEW k \in AnyCalls, Notice!ClearList(k)
  PROVE  NoticeInv'
<1>1. UNCHANGED <<Notice!world, notice, Notice!scans, count, counting, uncleared>>
  BY DEF Notice!ClearList
<1>2. /\ call[k] \in [at : {"count", "list"}, process : NoticeProcesses]
      /\ call[k].at = "list"
  BY DEF NoticeInv, NoticeRowsFit, Notice!ClearList, Notice!Idle
<1>3. PICK p \in NoticeProcesses : p = call[k].process BY <1>2
<1>4. /\ list' = [list EXCEPT ![p] = Notice!None]
      /\ listing' = [listing EXCEPT ![p] = {Notice!Aged(l) : l \in listing[p]}]
      /\ call' = [call EXCEPT ![k] = Notice!Idle]
  BY <1>3 DEF Notice!ClearList
<1>5. /\ {Notice!Aged(l) : l \in listing[p]} \in SUBSET ({Notice!None} \cup Answers)
      /\ \A l \in {Notice!Aged(m) : m \in listing[p]} : l = Notice!None \/ l.old
  BY AgedFits DEF NoticeInv, NoticeRowsFit
<1>6. /\ list' \in [NoticeProcesses -> {Notice!None} \cup Answers]
      /\ listing' \in [NoticeProcesses -> SUBSET ({Notice!None} \cup Answers)]
      /\ call' \in [AnyCalls -> {Notice!Idle}
                      \cup [at : {"count", "list"}, process : NoticeProcesses]]
  BY <1>4, <1>5 DEF NoticeInv, NoticeRowsFit
<1>7. NoticeRowsFit'
  BY <1>1, <1>6 DEF NoticeInv, NoticeRowsFit, Notice!world, Notice!scans
<1>8. CreatedFits' /\ QueuedFits' /\ NoticePendingFits' /\ NoticeSeenFits'
  BY <1>1, ScansKept
<1>9. \A c \in AnyCalls : call'[c] = IF c = k THEN Notice!Idle ELSE call[c]
  BY <1>4 DEF NoticeInv, NoticeRowsFit
<1>10. CountFits'
  <2>1. Notice!Unread' = Notice!Unread BY <1>1 DEF Notice!Unread
  <2>2. (\A c \in AnyCalls : call'[c].at # "count") =>
            \A c \in AnyCalls : call[c].at # "count"
    BY <1>2, <1>9
  <2> QED BY <1>1, <2>1, <2>2 DEF NoticeInv, CountFits
<1>11. ListFits'
  <2>1. Notice!Unread' = Notice!Unread BY <1>1 DEF Notice!Unread
  <2>2. list'[p] = Notice!None /\ \A l \in listing'[p] : l = Notice!None \/ l.old
    BY <1>4, <1>5 DEF NoticeInv, NoticeRowsFit
  <2>3. \A q \in NoticeProcesses \ {p} : list'[q] = list[q] /\ listing'[q] = listing[q]
    BY <1>4 DEF NoticeInv, NoticeRowsFit
  <2>4. \A q \in NoticeProcesses \ {p} :
          (\A c \in AnyCalls : call'[c] # Notice!Idle => call'[c].process # q)
              => \A c \in AnyCalls : call[c] # Notice!Idle => call[c].process # q
    BY <1>3, <1>9
  <2> QED BY <2>1, <2>2, <2>3, <2>4 DEF NoticeInv, ListFits, Shows
<1> QED BY <1>7, <1>8, <1>10, <1>11 DEF NoticeInv

-----------------------------------------------------------------------------
(* Loads, what they store, and what expires.                                 *)

LEMMA LoadsKeep ==
  ASSUME NoticeInv, UNCHANGED <<Notice!world, notice, Notice!scans, call, uncleared>>,
         count' \in {Notice!None, count} \cup {counting[p] : p \in NoticeProcesses},
         counting' \in [NoticeProcesses -> {Notice!None} \cup Counts],
         \A p \in NoticeProcesses :
             \/ counting'[p] \in {Notice!None, counting[p]}
             \/ counting'[p].value = Cardinality(Notice!Unread),
         list' \in [NoticeProcesses -> {Notice!None} \cup Answers],
         \A p \in NoticeProcesses : list'[p] \in {Notice!None, list[p]} \cup listing[p],
         listing' \in [NoticeProcesses -> SUBSET ({Notice!None} \cup Answers)],
         \A p \in NoticeProcesses, l \in {Notice!None} \cup Answers :
             l \in listing'[p] => l \in listing[p] \/ l.value = Notice!Unread
  PROVE  NoticeInv'
<1>1. count' \in {Notice!None} \cup Counts BY DEF NoticeInv, NoticeRowsFit
<1>2. NoticeRowsFit'
  BY <1>1 DEF NoticeInv, NoticeRowsFit, Notice!world, Notice!scans
<1>3. CreatedFits' /\ QueuedFits' /\ NoticePendingFits' /\ NoticeSeenFits'
  BY ScansKept
<1>4. Notice!Unread' = Notice!Unread BY DEF Notice!Unread
<1>5. CountFits'
  <2>1. Cardinality(Notice!Unread) \in Nat BY Counted
  <2>2. \A load \in {Notice!None} \cup Counts :
          load = Notice!None \/ load.value = Cardinality(Notice!Unread) =>
              Covers(load, Notice!Unread)
    BY <2>1 DEF Covers
  <2>3. (\A p \in NoticeProcesses : Covers(counting[p], Notice!Unread)) =>
          \A p \in NoticeProcesses : Covers(counting'[p], Notice!Unread)
    BY <2>2
  <2>4. Covers(count, Notice!Unread)
            /\ (\A p \in NoticeProcesses : Covers(counting[p], Notice!Unread))
          => Covers(count', Notice!Unread)
    BY <2>2
  <2> QED BY <1>4, <2>3, <2>4 DEF NoticeInv, CountFits
<1>6. ListFits'
  <2>1. \A load \in {Notice!None} \cup Answers :
          load = Notice!None \/ load.value = Notice!Unread => Shows(load, Notice!Unread)
    BY DEF Shows
  <2>2. \A p \in NoticeProcesses :
          Shows(list[p], Notice!Unread)
              /\ (\A l \in listing[p] : Shows(l, Notice!Unread))
            => Shows(list'[p], Notice!Unread)
                /\ \A l \in listing'[p] : Shows(l, Notice!Unread)
    BY <2>1
  <2> QED BY <1>4, <2>2 DEF NoticeInv, ListFits
<1> QED BY <1>2, <1>3, <1>5, <1>6 DEF NoticeInv

LEMMA LoadCountKeeps ==
  ASSUME NoticeInv, NEW p \in NoticeProcesses, Notice!LoadCount(p)
  PROVE  NoticeInv'
<1>1. [value |-> Cardinality(Notice!Unread), old |-> FALSE] \in Counts
  BY Counted DEF Counts
<1>2. /\ counting' \in [NoticeProcesses -> {Notice!None} \cup Counts]
      /\ \A q \in NoticeProcesses :
           \/ counting'[q] \in {Notice!None, counting[q]}
           \/ counting'[q].value = Cardinality(Notice!Unread)
  BY OccasionsCounted, <1>1 DEF NoticeInv, NoticeRowsFit, Notice!LoadCount
<1> QED BY OccasionsCounted, <1>2, LoadsKeep DEF NoticeInv, NoticeRowsFit,
    Notice!LoadCount

LEMMA StoreCountKeeps ==
  ASSUME NoticeInv, NEW p \in NoticeProcesses, Notice!StoreCount(p)
  PROVE  NoticeInv'
<1>1. /\ counting' \in [NoticeProcesses -> {Notice!None} \cup Counts]
      /\ \A q \in NoticeProcesses : counting'[q] \in {Notice!None, counting[q]}
  BY DEF NoticeInv, NoticeRowsFit, Notice!StoreCount
<1> QED BY <1>1, LoadsKeep DEF NoticeInv, NoticeRowsFit, Notice!StoreCount

LEMMA LoadListKeeps ==
  ASSUME NoticeInv, NEW p \in NoticeProcesses, Notice!LoadList(p)
  PROVE  NoticeInv'
<1>1. [value |-> Notice!Unread, old |-> FALSE] \in Answers
  BY Counted DEF Answers
<1>2. listing' = [listing EXCEPT ![p] = @ \cup {[value |-> Notice!Unread, old |-> FALSE]}]
  BY DEF Notice!LoadList
<1>3. listing' \in [NoticeProcesses -> SUBSET ({Notice!None} \cup Answers)]
  BY <1>1, <1>2 DEF NoticeInv, NoticeRowsFit
<1>4. \A q \in NoticeProcesses, l \in {Notice!None} \cup Answers :
        l \in listing'[q] => l \in listing[q] \/ l.value = Notice!Unread
  BY <1>2 DEF NoticeInv, NoticeRowsFit
<1> QED BY <1>3, <1>4, LoadsKeep DEF NoticeInv, NoticeRowsFit, Notice!LoadList

LEMMA StoreListKeeps ==
  ASSUME NoticeInv, NEW p \in NoticeProcesses, Notice!StoreList(p)
  PROVE  NoticeInv'
<1>1. PICK l \in listing[p] : /\ list' = [list EXCEPT ![p] = l]
                              /\ listing' = [listing EXCEPT ![p] = @ \ {l}]
  BY DEF Notice!StoreList
<1>2. /\ list' \in [NoticeProcesses -> {Notice!None} \cup Answers]
      /\ listing' \in [NoticeProcesses -> SUBSET ({Notice!None} \cup Answers)]
      /\ \A q \in NoticeProcesses : list'[q] \in {Notice!None, list[q]} \cup listing[q]
      /\ \A q \in NoticeProcesses : listing'[q] \subseteq listing[q]
  BY <1>1 DEF NoticeInv, NoticeRowsFit
<1> QED BY <1>2, LoadsKeep DEF NoticeInv, NoticeRowsFit, Notice!StoreList

LEMMA ExpireKeeps ==
  ASSUME NoticeInv, Notice!Expire
  PROVE  NoticeInv'
<1>1. /\ count' \in {Notice!None, count}
      /\ list' \in [NoticeProcesses -> {Notice!None} \cup Answers]
      /\ \A q \in NoticeProcesses : list'[q] \in {Notice!None, list[q]}
  BY DEF NoticeInv, NoticeRowsFit, Notice!Expire
<1> QED BY <1>1, LoadsKeep DEF NoticeInv, NoticeRowsFit, Notice!Expire

LEMMA NoticeStepKeeps ==
  ASSUME NoticeInv, [Notice!Next]_Notice!vars
  PROVE  NoticeInv'
<1>1. CASE UNCHANGED Notice!vars
  <2>1. UNCHANGED <<Notice!world, notice, Notice!scans, Notice!caches>>
    BY <1>1 DEF Notice!vars, Notice!world, Notice!scans, Notice!caches
  <2>2. NoticeRowsFit'
    BY <2>1 DEF NoticeInv, NoticeRowsFit, Notice!world, Notice!scans, Notice!caches
  <2>3. CountFits' /\ ListFits' BY <2>1, ShownKept DEF Notice!Unread
  <2>4. CreatedFits' /\ QueuedFits' /\ NoticePendingFits' /\ NoticeSeenFits'
    BY <2>1, ScansKept
  <2> QED BY <2>2, <2>3, <2>4 DEF NoticeInv
<1>2. ASSUME NEW o \in Notice!Occasions, Notice!Turn(o) \/ Notice!Retire(o)
      PROVE  NoticeInv'
  BY <1>2, TurnKeeps, RetireKeeps
<1>3. ASSUME NEW w \in NoticeWorkers,
             \/ Notice!BeginScan(w) \/ Notice!Create(w) \/ Notice!Enqueue(w)
             \/ Notice!ReadSubscriptions(w) \/ Notice!EndScan(w) \/ Notice!FailScan(w)
      PROVE  NoticeInv'
  BY <1>3, BeginScanKeeps, CreateKeeps, EnqueueKeeps, ReadSubscriptionsKeeps,
     EndScanKeeps, FailScanKeeps
<1>4. ASSUME NEW k \in AnyCalls, NEW p \in NoticeProcesses,
             NEW S \in {Notice!Occasions} \union {{o} : o \in Notice!Occasions},
             Notice!Mark(k, p, S)
      PROVE  NoticeInv'
  BY <1>4, MarkKeeps
<1>5. ASSUME NEW k \in AnyCalls, Notice!ClearCount(k) \/ Notice!ClearList(k)
      PROVE  NoticeInv'
  BY <1>5, ClearCountKeeps, ClearListKeeps
<1>6. ASSUME NEW p \in NoticeProcesses,
             Notice!LoadCount(p) \/ Notice!StoreCount(p) \/ Notice!LoadList(p)
                 \/ Notice!StoreList(p)
      PROVE  NoticeInv'
  BY <1>6, LoadCountKeeps, StoreCountKeeps, LoadListKeeps, StoreListKeeps
<1> QED BY <1>1, <1>2, <1>3, <1>4, <1>5, <1>6, ExpireKeeps DEF Notice!Next

LEMMA NoticeBegins == Notice!Init => NoticeInv
<1> SUFFICES ASSUME Notice!Init PROVE NoticeInv OBVIOUS
<1>1. NoticeRowsFit BY DEF Notice!Init, NoticeRowsFit
<1>2. \A w \in NoticeWorkers : ~Pending(w) BY DEF Notice!Init, Pending
<1>3. CreatedFits /\ QueuedFits /\ NoticePendingFits /\ NoticeSeenFits
  BY <1>2 DEF Notice!Init, CreatedFits, QueuedFits, NoticePendingFits, NoticeSeenFits,
     Owed
<1>4. CountFits /\ ListFits
  BY DEF Notice!Init, CountFits, ListFits, Covers, Shows
<1> QED BY <1>1, <1>3, <1>4 DEF NoticeInv

LEMMA NoticesHoldFollows == NoticeInv => Notice!NoticesHold
<1> SUFFICES ASSUME NoticeInv PROVE Notice!NoticesHold OBVIOUS
<1>1. Notice!AnnouncedOnce
  <2>1. (\A w \in NoticeWorkers : scan[w] = Notice!Idle) =>
            \A o \in Notice!Occasions : Owed(o) <=> o \in cut
    BY DEF Owed, Pending
  <2> QED BY <2>1 DEF NoticeInv, NoticeRowsFit, CreatedFits, QueuedFits,
      Notice!AnnouncedOnce
<1>2. Notice!NoneMissed
  <2>1. Notice!Elements(<<>>) = {} BY DEF Notice!Elements
  <2>2. \A w \in NoticeWorkers : scan[w].at = "subscriptions" => scan[w] # Notice!Idle
    BY DEF Notice!Idle
  <2> QED BY <2>1, <2>2 DEF NoticeInv, NoticeSeenFits, Notice!NoneMissed
<1>3. Notice!CountFollows
  BY OccasionsCounted DEF NoticeInv, CountFits, Notice!CountFollows, Covers
<1>4. Notice!ListFollows BY DEF NoticeInv, ListFits, Notice!ListFollows, Shows
<1> QED BY <1>1, <1>2, <1>3, <1>4 DEF Notice!NoticesHold

LEMMA NoticeSteps ==
    ASSUME focus = "notice", [Next]_<<focus, everything>>
    PROVE  [Notice!Next]_Notice!vars
<1>1. CASE UNCHANGED <<focus, everything>>
  BY <1>1 DEF everything, Notice!vars
<1>2. CASE Next
  BY <1>2 DEF Next
<1> QED BY <1>1, <1>2

LEMMA NoticeKept == Spec => [](focus = "notice" => NoticeInv)
<1>1. Init => (focus = "notice" => NoticeInv)
  BY NoticeBegins DEF Init
<1>2. (focus = "notice" => NoticeInv) /\ [Next]_<<focus, everything>>
        => (focus = "notice" => NoticeInv)'
  <2> SUFFICES ASSUME focus = "notice" => NoticeInv, [Next]_<<focus, everything>>,
                      focus' = "notice"
               PROVE  NoticeInv'
    OBVIOUS
  <2>1. focus = "notice" /\ NoticeInv
    BY DEF Next
  <2>2. [Notice!Next]_Notice!vars
    BY <2>1, NoticeSteps
  <2> QED BY <2>1, <2>2, NoticeStepKeeps
<1> QED BY <1>1, <1>2, PTL DEF Spec

-----------------------------------------------------------------------------
(* An event of two sources is listed once when their imports run one after   *)
(* the other, what no source lists any more leaves the affiche, a rejected   *)
(* event stays out of it, and a meetup of a located event has its place; an  *)
(* occasion is announced once by however many workers, none that a scan read *)
(* is left out, and count and list do not fall behind what the user marked.  *)
THEOREM NewsAreRight == Spec => []NewsHolds
<1>1. (focus = "affiche" => AfficheInv) => AfficheHolds
  BY AfficheHoldsFollows DEF AfficheHolds
<1>2. (focus = "notice" => NoticeInv) => NoticesHold
  BY NoticesHoldFollows DEF NoticesHold
<1>3. NoticesHold /\ AfficheHolds => NewsHolds
  BY DEF NewsHolds
<1> QED BY <1>1, <1>2, <1>3, AfficheKept, NoticeKept, PTL
=============================================================================
