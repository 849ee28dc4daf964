---------------------------- MODULE PeopleProofs ----------------------------
(* What is proved, for all constants, of the services around a user's        *)
(* account: an invariant of each, which its steps keep, and that a step of   *)
(* the run is one of its steps, a stutter, or a step of another service.     *)
EXTENDS MCPeople, FiniteSetTheorems, SequenceTheorems, WellFoundedInduction, TLAPS

-----------------------------------------------------------------------------
(* Dating, for any users, quotas and prices: two likes have their chat and   *)
(* their notifications whatever order the calls take, quotas hold but for    *)
(* counts that overlapped, and tokens match what was charged.                *)

swiped == v1
recent == v2
used == v3
balance == v4
told == v5
chat == v6
blocked == v7
swiping == v8
cut == v11
stale == v12
hurried == v13
met == v14
USE DEF swiped, recent, used, balance, told, chat, blocked, swiping, cut,
        stale, hurried, met

-----------------------------------------------------------------------------
(* The inductive invariant.                                                 *)

Busy(k) == swiping[k].step \in {"notify", "look", "chat"}
Asks(k, u, v) == swiping[k].user = u /\ swiping[k].target = v

(* Nobody swipes himself. What a call is about to write was allowed by what *)
(* it has counted.                                                          *)
Allowed(c) ==
    /\ c.step = "write" =>
          /\ Swipe!Changed(c) => c.counts["swipe"] < SwipeLimit
          /\ \/ c.quota = Swipe!Nothing
             \/ c.quota = [kind |-> "super_paid", cost |-> SuperCost]
             \/ /\ c.quota = [kind |-> "super_free", cost |-> 0]
                /\ c.counts["super_free"] < FreeSupers
    /\ c.step = "delete" =>
          \/ c.quota = [kind |-> "rewind_paid", cost |-> RewindCost]
          \/ /\ c.quota = [kind |-> "rewind_free", cost |-> 0]
             /\ c.counts["rewind_free"] < FreeRewinds

CallsFit ==
    \A k \in AnyCalls :
        /\ swiping[k].step \in {"count", "write"} \/ Busy(k)
              => swiping[k].user # swiping[k].target
        /\ Allowed(swiping[k])

(* A like was told, or the call that made it is about to tell it, or ended  *)
(* short. So it is with the like a call has found when it began.            *)
Announced(u, v) ==
    \/ <<u, v>> \in told
    \/ {u, v} \in cut
    \/ \E k \in AnyCalls : swiping[k].step = "notify" /\ Asks(k, u, v)

LikesAnnounced ==
    /\ \A u \in Swipers, v \in Daters : Swipe!Likes(u, v) => Announced(u, v)
    /\ \A k \in AnyCalls :
          swiping[k].step \in {"count", "write"} /\ swiping[k].before \in Swipe!Positive =>
              Announced(swiping[k].user, swiping[k].target)

(* Of two who like each other, a call that wrote one of the likes is on its *)
(* way to the chat.                                                         *)
Pursued(u, v) ==
    \E k \in AnyCalls : /\ Busy(k) /\ swiping[k].action \in Swipe!Positive
                        /\ Asks(k, u, v) \/ Asks(k, v, u)

MatchesPursued ==
    \A u, v \in Swipers :
        u # v /\ Swipe!Likes(u, v) /\ Swipe!Likes(v, u) =>
            /\ {u, v} \in met
            /\ {u, v} \in chat \union cut \/ Pursued(u, v)

(* A chat is opened for who met, or for a like written over.                *)
ChatsMet ==
    /\ chat \subseteq met \union stale
    /\ \A k \in AnyCalls :
          swiping[k].step = "chat" =>
              {swiping[k].user, swiping[k].target} \in met \union stale

SwipeInv ==
    /\ Swipe!TypeOK
    /\ CallsFit
    /\ LikesAnnounced
    /\ MatchesPursued
    /\ ChatsMet
    /\ Swipe!WithinQuotas
    /\ Swipe!Charged

-----------------------------------------------------------------------------
(* What stays.                                                              *)

LEMMA AnnouncedStays ==
    ASSUME told \subseteq told', cut \subseteq cut',
           \A j \in AnyCalls : swiping[j].step = "notify" =>
               \/ swiping'[j] = swiping[j]
               \/ <<swiping[j].user, swiping[j].target>> \in told'
               \/ {swiping[j].user, swiping[j].target} \in cut'
    PROVE  \A u, v : Announced(u, v) => Announced(u, v)'
BY DEF Announced, Asks

LEMMA PursuedStays ==
    ASSUME chat \subseteq chat', cut \subseteq cut', met \subseteq met',
           MatchesPursued,
           \A u, v \in Swipers : Swipe!Likes(u, v)' => Swipe!Likes(u, v),
           \A j \in AnyCalls : Busy(j) /\ swiping[j].action \in Swipe!Positive =>
               \/ swiping'[j] = swiping[j]
               \/ {swiping[j].user, swiping[j].target} \in chat' \union cut'
               \/ /\ Busy(j)' /\ swiping'[j].user = swiping[j].user
                  /\ swiping'[j].target = swiping[j].target
                        /\ swiping'[j].action = swiping[j].action
    PROVE  MatchesPursued'
<1> SUFFICES ASSUME NEW u \in Swipers, NEW v \in Swipers, u # v, Swipe!Likes(u, v)',
                    Swipe!Likes(v, u)'
             PROVE  {u, v} \in met' /\ ({u, v} \in chat' \union cut' \/ Pursued(u, v)')
  BY DEF MatchesPursued
<1>1. {u, v} \in met /\ ({u, v} \in chat \union cut \/ Pursued(u, v))
  BY DEF MatchesPursued
<1>2. CASE {u, v} \in chat \union cut
  BY <1>1, <1>2
<1>3. CASE Pursued(u, v)
  <2>1. PICK j \in AnyCalls : /\ Busy(j) /\ swiping[j].action \in Swipe!Positive
                              /\ Asks(j, u, v) \/ Asks(j, v, u)
    BY <1>3 DEF Pursued
  <2>2. {swiping[j].user, swiping[j].target} = {u, v}
    BY <2>1 DEF Asks
  <2>3. CASE {swiping[j].user, swiping[j].target} \in chat' \union cut'
    BY <1>1, <2>2, <2>3
  <2>4. CASE swiping'[j] = swiping[j]
    BY <1>1, <2>1, <2>4 DEF Pursued, Busy, Asks
  <2>5. CASE /\ Busy(j)' /\ swiping'[j].user = swiping[j].user
             /\ swiping'[j].target = swiping[j].target
                   /\ swiping'[j].action = swiping[j].action
    BY <1>1, <2>1, <2>5 DEF Pursued, Busy, Asks
  <2> QED BY <2>1, <2>3, <2>4, <2>5
<1> QED BY <1>1, <1>2, <1>3

(* A chat needs a like of each side, or one that was written over.          *)
LEMMA ChatsStay ==
    ASSUME ChatsMet, met \subseteq met', stale \subseteq stale',
           \A p \in chat' : p \in chat \/ p \in met' \union stale',
           \A j \in AnyCalls : swiping'[j].step = "chat" =>
               \/ swiping'[j] = swiping[j]
               \/ {swiping'[j].user, swiping'[j].target} \in met' \union stale'
    PROVE  ChatsMet'
BY DEF ChatsMet

-----------------------------------------------------------------------------
(* The actions keep the invariant.                                          *)

(* A new call, of no busy step and with a like it found announced, disturbs *)
(* nothing.                                                                 *)
LEMMA NewCallKeeps ==
    ASSUME SwipeInv, NEW k \in AnyCalls, NEW c,
           ~Busy(k), swiping' = [swiping EXCEPT ![k] = c],
           \/ c = Swipe!Idle
           \/ c.step \in {"rewind", "delete"} /\ c.user \in Swipers
           \/ /\ c \in Swipe!Counting \/ (c \in Swipe!Swiping /\ c.step = "write")
              /\ c.user # c.target
              /\ c.before \in Swipe!Positive => Announced(c.user, c.target),
           Allowed(c),
           UNCHANGED <<swiped, used, balance, told, chat>>, UNCHANGED Swipe!history
    PROVE  SwipeInv'
<1> DEFINE others == \A j \in AnyCalls : j # k => swiping'[j] = swiping[j]
<1>1. swiping'[k] = c /\ others /\ DOMAIN swiping' = AnyCalls
  BY DEF SwipeInv, Swipe!TypeOK
<1>2. /\ c.step \notin {"notify", "look", "chat"}
      /\ c.step \in {"count", "write"} =>
            /\ c.user # c.target
            /\ c.before \in Swipe!Positive => Announced(c.user, c.target)
  BY DEF Swipe!Counting, Swipe!Swiping, Swipe!Idle
<1>3. Swipe!TypeOK'
  BY <1>1 DEF SwipeInv, Swipe!TypeOK
<1>4. CallsFit'
  BY <1>1, <1>2 DEF SwipeInv, CallsFit, Busy, Allowed, Swipe!Changed
<1>5. \A u, v : Announced(u, v) => Announced(u, v)'
  <2>1. \A j \in AnyCalls : swiping[j].step = "notify" => swiping'[j] = swiping[j]
    BY <1>1 DEF Busy
  <2> QED BY <2>1, AnnouncedStays DEF Swipe!history
<1>6. LikesAnnounced'
  BY <1>1, <1>2, <1>5 DEF SwipeInv, LikesAnnounced, Swipe!Likes
<1>7. MatchesPursued'
  <2>1. \A j \in AnyCalls : Busy(j) => swiping'[j] = swiping[j]
    BY <1>1 DEF Busy
  <2>2. MatchesPursued
    BY DEF SwipeInv
  <2> QED BY <2>1, <2>2, PursuedStays DEF Swipe!history, Swipe!Likes
<1>8. ChatsMet'
  BY <1>1, <1>2 DEF SwipeInv, ChatsMet, Swipe!history
<1>9. Swipe!WithinQuotas' /\ Swipe!Charged'
  BY DEF SwipeInv, Swipe!WithinQuotas, Swipe!Charged, Swipe!history
<1> QED BY <1>3, <1>4, <1>6, <1>7, <1>8, <1>9 DEF SwipeInv

LEMMA BeginSwipeKeeps ==
    ASSUME SwipeInv, NEW k \in AnyCalls, NEW u \in Swipers, NEW v \in Daters,
           NEW action \in Swipe!Positive \union {"pass"}, Swipe!BeginSwipe(k, u, v, action)
    PROVE  SwipeInv'
<1> DEFINE c == [step |-> "count", user |-> u, target |-> v, action |-> action,
                 before |-> swiped[u][v].action]
<1>1. swiping' = [swiping EXCEPT ![k] = c] /\ ~Busy(k)
  BY DEF Swipe!BeginSwipe, Swipe!Enter, Busy, Swipe!Idle
<1>2. swiped[u][v].action \in Swipe!Answers
  BY DEF SwipeInv, Swipe!TypeOK
<1>3. c \in Swipe!Counting
  BY <1>2 DEF Swipe!Counting, Swipe!Answers
<1>4. c.before \in Swipe!Positive => Announced(u, v)
  BY DEF SwipeInv, LikesAnnounced, Swipe!Likes
<1>5. c.step = "count" /\ c.user = u /\ c.target = v /\ Allowed(c)
  BY DEF Allowed
<1>6. u # v /\ UNCHANGED <<swiped, used, balance, told, chat>> /\ UNCHANGED Swipe!history
  BY DEF Swipe!BeginSwipe
<1> HIDE DEF c
<1>7. c.user # c.target /\ (c.before \in Swipe!Positive => Announced(c.user, c.target))
  BY <1>4, <1>5, <1>6
<1>8. Allowed(c) /\ UNCHANGED <<swiped, used, balance, told, chat>>
          /\ UNCHANGED Swipe!history
  BY <1>5, <1>6
<1> QED BY <1>1, <1>3, <1>7, <1>8, NewCallKeeps

LEMMA CountSwipeKeeps ==
    ASSUME SwipeInv, NEW k \in AnyCalls, Swipe!CountSwipe(k)
    PROVE  SwipeInv'
<1> DEFINE o == swiping[k]
           quota == IF Swipe!Changed(o) THEN Swipe!Charge(o.user, o.action) ELSE Swipe!Nothing
           c == [step |-> "write", user |-> o.user, target |-> o.target,
                 action |-> o.action, before |-> o.before, counts |-> used[o.user],
                 quota |-> quota]
<1>1. o \in Swipe!Counting /\ o.step = "count"
  <2>1. o.step = "count"
    BY DEF Swipe!CountSwipe
  <2> QED BY <2>1 DEF SwipeInv, Swipe!TypeOK, Swipe!Counting, Swipe!Swiping, Swipe!Idle
<1>2. used[o.user] \in [Swipe!Kinds -> Nat] /\ SuperCost \in Nat
  BY SwipersFit, <1>1 DEF SwipeInv, Swipe!TypeOK, Swipe!Counting
<1>3. \/ quota = Swipe!Nothing
      \/ quota = [kind |-> "super_paid", cost |-> SuperCost]
      \/ /\ quota = [kind |-> "super_free", cost |-> 0]
         /\ used[o.user].super_free < FreeSupers
  BY <1>1 DEF Swipe!Charge, Swipe!Counting, Swipe!Answers, Swipe!Positive
<1>4. quota \in [kind : Swipe!Kinds \union {"none"}, cost : Nat]
  BY <1>2, <1>3 DEF Swipe!Nothing, Swipe!Kinds
<1>5. swiping' = [swiping EXCEPT ![k] = c] /\ ~Busy(k)
  BY <1>1 DEF Swipe!CountSwipe, Busy
<1>6. Swipe!Changed(o) => used[o.user]["swipe"] < SwipeLimit
  BY DEF Swipe!CountSwipe, Swipe!MaySwipe
<1> HIDE DEF quota
<1>7. c \in Swipe!Swiping /\ c.step = "write"
  BY <1>1, <1>2, <1>4 DEF Swipe!Counting, Swipe!Swiping
<1>8. /\ c.user = o.user /\ c.target = o.target /\ c.before = o.before
      /\ c.action = o.action /\ c.counts = used[o.user] /\ c.quota = quota
  OBVIOUS
<1>9. o.user # o.target /\ (o.before \in Swipe!Positive => Announced(o.user, o.target))
  BY <1>1 DEF SwipeInv, CallsFit, LikesAnnounced
<1>10. UNCHANGED <<swiped, used, balance, told, chat>> /\ UNCHANGED Swipe!history
  BY DEF Swipe!CountSwipe
<1> HIDE DEF c
<1>11. Allowed(c)
  BY <1>3, <1>6, <1>7, <1>8 DEF Allowed, Swipe!Changed
<1> HIDE DEF o
<1> QED BY <1>5, <1>7, <1>8, <1>9, <1>10, <1>11, NewCallKeeps

LEMMA BeginRewindKeeps ==
    ASSUME SwipeInv, NEW k \in AnyCalls, NEW u \in Swipers, Swipe!BeginRewind(k, u)
    PROVE  SwipeInv'
<1> DEFINE c == [step |-> "rewind", user |-> u, target |-> Swipe!Last(recent[u]),
                 id |-> Swipe!Latest(u).id]
<1>1. swiping' = [swiping EXCEPT ![k] = c] /\ ~Busy(k)
  BY DEF Swipe!BeginRewind, Swipe!Enter, Busy, Swipe!Idle
<1>2. c.step = "rewind" /\ c.user = u /\ Allowed(c)
  BY DEF Allowed
<1>3. UNCHANGED <<swiped, used, balance, told, chat>> /\ UNCHANGED Swipe!history
  BY DEF Swipe!BeginRewind
<1> HIDE DEF c
<1> QED BY <1>1, <1>2, <1>3, NewCallKeeps

LEMMA CountRewindKeeps ==
    ASSUME SwipeInv, NEW k \in AnyCalls, Swipe!CountRewind(k)
    PROVE  SwipeInv'
<1> DEFINE o == swiping[k]
           quota == Swipe!Charge(o.user, "rewind")
           c == [step |-> "delete", user |-> o.user, target |-> o.target, id |-> o.id,
                 counts |-> used[o.user], quota |-> quota]
<1>1. o.step = "rewind" /\ o.user \in Swipers
  BY DEF SwipeInv, Swipe!TypeOK, Swipe!CountRewind, Swipe!Counting, Swipe!Swiping,
     Swipe!Idle
<1>2. \/ quota = [kind |-> "rewind_paid", cost |-> RewindCost]
      \/ /\ quota = [kind |-> "rewind_free", cost |-> 0]
         /\ used[o.user]["rewind_free"] < FreeRewinds
  BY DEF Swipe!Charge
<1>3. swiping' = [swiping EXCEPT ![k] = c] /\ ~Busy(k)
  BY <1>1 DEF Swipe!CountRewind, Busy
<1> HIDE DEF quota
<1>4. c.step = "delete" /\ c.user = o.user /\ c.quota = quota /\ c.counts = used[o.user]
  OBVIOUS
<1>5. UNCHANGED <<swiped, used, balance, told, chat>> /\ UNCHANGED Swipe!history
  BY DEF Swipe!CountRewind
<1> HIDE DEF c
<1>6. Allowed(c)
  BY <1>2, <1>4 DEF Allowed
<1> HIDE DEF o
<1> QED BY <1>1, <1>3, <1>4, <1>5, <1>6, NewCallKeeps

(* The write of a swipe or of a rewind is paid for and within its quota.    *)
LEMMA PaidAndCounted ==
    ASSUME SwipeInv, NEW c, NEW kinds \in SUBSET Swipe!Kinds,
           c.user \in Swipers, c.quota.cost \in Nat,
           Swipe!Spend(c.user, c.quota.cost), Swipe!Add(c.user, kinds),
               Swipe!Hurried(c.user, c, kinds),
           "swipe" \in kinds => c.counts["swipe"] < SwipeLimit,
           "super_free" \in kinds => c.counts["super_free"] < FreeSupers,
           "rewind_free" \in kinds => c.counts["rewind_free"] < FreeRewinds,
           c.quota.cost = (IF "super_paid" \in kinds THEN SuperCost ELSE 0)
                          + (IF "rewind_paid" \in kinds THEN RewindCost ELSE 0)
    PROVE  /\ balance' \in [Swipers -> Nat]
           /\ used' \in [Swipers -> [Swipe!Kinds -> Nat]]
           /\ Swipe!WithinQuotas' /\ Swipe!Charged'
<1> DEFINE u == c.user
           now == [k \in Swipe!Kinds |-> used[u][k] + IF k \in kinds THEN 1 ELSE 0]
<1>1. used \in [Swipers -> [Swipe!Kinds -> Nat]] /\ balance \in [Swipers -> Nat]
  BY DEF SwipeInv, Swipe!TypeOK
<1>2. used' = [used EXCEPT ![u] = now]
  BY DEF Swipe!Add
<1>3. now \in [Swipe!Kinds -> Nat]
          /\ \A k \in Swipe!Kinds : now[k] = used[u][k] + IF k \in kinds THEN 1 ELSE 0
  BY <1>1
<1> HIDE DEF now
<1>4. used' \in [Swipers -> [Swipe!Kinds -> Nat]] /\ used'[u] = now
      /\ \A a \in Swipers : a # u => used'[a] = used[a]
  BY <1>1, <1>2, <1>3
<1>5. /\ balance' \in [Swipers -> Nat] /\ balance'[u] = balance[u] - c.quota.cost
      /\ \A a \in Swipers : a # u => balance'[a] = balance[a]
  BY <1>1 DEF Swipe!Spend
<1>6. hurried \subseteq hurried'
      /\ \A k \in kinds : c.counts[k] # used[u][k] => <<u, k>> \in hurried'
  BY DEF Swipe!Hurried
<1>7. {"swipe", "super_free", "super_paid", "rewind_free", "rewind_paid"}
        \subseteq Swipe!Kinds
  BY DEF Swipe!Kinds
<1>8. ASSUME NEW k \in Swipe!Kinds, NEW limit \in Nat, k \in kinds => c.counts[k] < limit,
             <<u, k>> \in hurried \/ used[u][k] <= limit
      PROVE  <<u, k>> \in hurried' \/ used'[u][k] <= limit
  <2>1. CASE k \notin kinds
    BY <1>1, <1>3, <1>4, <1>6, <1>8, <2>1
  <2>2. CASE k \in kinds /\ c.counts[k] # used[u][k]
    BY <1>6, <2>2
  <2>3. CASE k \in kinds /\ c.counts[k] = used[u][k]
    BY <1>1, <1>3, <1>4, <1>8, <2>3
  <2> QED BY <2>1, <2>2, <2>3
<1>9. Swipe!WithinQuotas'
  <2> SUFFICES ASSUME NEW a \in Swipers
               PROVE  /\ <<a, "swipe">> \in hurried' \/ used'[a]["swipe"] <= SwipeLimit
                      /\ <<a,
                            "super_free">> \in hurried'
                                \/ used'[a]["super_free"] <= FreeSupers
                      /\ <<a,
                            "rewind_free">> \in hurried'
                                \/ used'[a]["rewind_free"] <= FreeRewinds
    BY Zenon DEF Swipe!WithinQuotas
  <2>1. /\ <<a, "swipe">> \in hurried \/ used[a]["swipe"] <= SwipeLimit
        /\ <<a, "super_free">> \in hurried \/ used[a]["super_free"] <= FreeSupers
        /\ <<a, "rewind_free">> \in hurried \/ used[a]["rewind_free"] <= FreeRewinds
    BY DEF SwipeInv, Swipe!WithinQuotas
  <2>2. CASE a # u
    BY <1>4, <1>6, <2>1, <2>2
  <2>3. CASE a = u
    BY SwipersFit, <1>7, <1>8, <2>1, <2>3
  <2> QED BY <2>2, <2>3
<1>10. Swipe!Charged'
  <2> SUFFICES ASSUME NEW a \in Swipers
               PROVE  balance'[a] = Purse - SuperCost * used'[a]["super_paid"]
                                          - RewindCost * used'[a]["rewind_paid"]
    BY DEF Swipe!Charged
  <2>1. balance[a] = Purse - SuperCost * used[a]["super_paid"]
                           - RewindCost * used[a]["rewind_paid"]
    BY DEF SwipeInv, Swipe!Charged
  <2>2. CASE a # u
    BY <1>4, <1>5, <2>1, <2>2
  <2>3. CASE a = u
    <3> DEFINE s == used[u]["super_paid"]
               r == used[u]["rewind_paid"]
    <3>1. s \in Nat /\ r \in Nat /\ SuperCost \in Nat /\ RewindCost \in Nat /\ Purse \in Nat
      BY SwipersFit, <1>1, <1>7
    <3>2. /\ used'[u]["super_paid"] = s + IF "super_paid" \in kinds THEN 1 ELSE 0
          /\ used'[u]["rewind_paid"] = r + IF "rewind_paid" \in kinds THEN 1 ELSE 0
      BY <1>3, <1>4, <1>7
    <3>3. SuperCost * (s + 1) = SuperCost * s + SuperCost
          /\ RewindCost * (r + 1) = RewindCost * r + RewindCost
          /\ SuperCost * (s + 0) = SuperCost * s /\ RewindCost * (r + 0) = RewindCost * r
      BY <3>1
    <3>4. SuperCost * s \in Int /\ RewindCost * r \in Int
      BY <3>1
    <3> DEFINE S == SuperCost * s
               R == RewindCost * r
    <3>5. balance[u] = Purse - S - R /\ S \in Int /\ R \in Int
      BY <2>1, <2>3, <3>4
    <3>6. SuperCost * used'[u]["super_paid"]
              = S + IF "super_paid" \in kinds THEN SuperCost ELSE 0
      BY <3>1, <3>2, <3>3, <3>4
    <3>7. RewindCost * used'[u]["rewind_paid"]
              = R + IF "rewind_paid" \in kinds THEN RewindCost ELSE 0
      BY <3>1, <3>2, <3>3, <3>4
    <3> HIDE DEF S, R
    <3> QED BY <1>5, <2>3, <3>1, <3>5, <3>6, <3>7
  <2> QED BY <2>2, <2>3
<1> QED BY <1>4, <1>5, <1>9, <1>10

LEMMA WriteSwipeKeeps ==
    ASSUME SwipeInv, NEW k \in AnyCalls, Swipe!WriteSwipe(k),
           NEW u, NEW v, Asks(k, u, v)
    PROVE  SwipeInv'
<1> DEFINE c == swiping[k]
           tells == c.action \in Swipe!Positive /\ c.before # "super_like"
                      /\ (c.action = "super_like" \/ c.before \notin Swipe!Positive)
           next == IF tells THEN "notify" ELSE "look"
           kinds == Swipe!Events(c)
<1>1. c.step = "write"
  BY DEF Swipe!WriteSwipe
<1>2. c \in Swipe!Swiping
  BY <1>1 DEF SwipeInv, Swipe!TypeOK, Swipe!Counting, Swipe!Swiping, Swipe!Idle
<1>3. /\ u \in Swipers /\ v \in Daters /\ u # v /\ c.action \in Swipe!Answers /\ Allowed(c)
      /\ c.user = u /\ c.target = v
  BY <1>1, <1>2 DEF SwipeInv, CallsFit, Swipe!Swiping, Asks
<1>4. swiping' = [swiping EXCEPT ![k].step = next]
  BY DEF Swipe!WriteSwipe, Swipe!Goto
<1>5. /\ swiping'[k] = [c EXCEPT !.step = next] /\ DOMAIN swiping' = AnyCalls
      /\ \A j \in AnyCalls : j # k => swiping'[j] = swiping[j]
  BY <1>4 DEF SwipeInv, Swipe!TypeOK
<1>6. next \in {"notify", "look"}
  OBVIOUS
<1>7. /\ swiping'[k] \in Swipe!Swiping /\ swiping'[k].step = next /\ swiping'[k].user = u
      /\ swiping'[k].target = v /\ swiping'[k].action = c.action
  BY <1>2, <1>3, <1>5, <1>6 DEF Swipe!Swiping
<1>8. /\ swiped' = [swiped EXCEPT ![u][v] = Swipe!Upserted(swiped[u][v], c.action)]
      /\ Swipe!Spend(u, c.quota.cost) /\ Swipe!Add(u, kinds) /\ Swipe!Hurried(u, c, kinds)
      /\ met' = (IF c.action \in Swipe!Positive /\ v \in Swipers /\ Swipe!Likes(v, u)
                 THEN met \union {{u, v}} ELSE met)
      /\ UNCHANGED <<told, chat, blocked, cut, stale>>
  BY <1>3 DEF Swipe!WriteSwipe
<1> HIDE DEF kinds, next
<1>9. Swipe!Upserted(swiped[u][v], c.action) \in [id : Nat, action : Swipe!Answers]
      /\ Swipe!Upserted(swiped[u][v], c.action).action = c.action
  BY <1>3 DEF SwipeInv, Swipe!TypeOK, Swipe!Upserted
<1>10. swiped' \in [Swipers -> [Daters -> [id : Nat, action : Swipe!Answers]]]
  BY <1>3, <1>8, <1>9 DEF SwipeInv, Swipe!TypeOK
<1>11. /\ swiped'[u][v].action = c.action
       /\ \A a \in Swipers, b \in Daters : <<a, b>> # <<u, v>>
             => swiped'[a][b] = swiped[a][b]
  BY <1>3, <1>8, <1>9 DEF SwipeInv, Swipe!TypeOK
<1>12. /\ balance' \in [Swipers -> Nat] /\ used' \in [Swipers -> [Swipe!Kinds -> Nat]]
       /\ Swipe!WithinQuotas' /\ Swipe!Charged'
  <2>1. c.counts \in [Swipe!Kinds -> Nat] /\ c.quota.cost \in Nat
    BY <1>2 DEF Swipe!Swiping
  <2>2. \/ c.quota = Swipe!Nothing
        \/ c.quota = [kind |-> "super_paid", cost |-> SuperCost]
        \/ /\ c.quota = [kind |-> "super_free", cost |-> 0]
           /\ c.counts["super_free"] < FreeSupers
    BY <1>1, <1>3 DEF Allowed
  <2>3. kinds = ({c.quota.kind} \ {"none"})
                    \union (IF Swipe!Changed(c) THEN {"swipe"} ELSE {})
    BY DEF Swipe!Events, kinds
  <2>4. kinds \in SUBSET Swipe!Kinds /\ "rewind_free" \notin kinds
            /\ "rewind_paid" \notin kinds
    BY <2>2, <2>3 DEF Swipe!Kinds, Swipe!Nothing
  <2>5. "swipe" \in kinds => c.counts["swipe"] < SwipeLimit
    BY <1>1, <1>3, <2>2, <2>3 DEF Allowed, Swipe!Nothing
  <2>6. "super_free" \in kinds => c.counts["super_free"] < FreeSupers
    BY <2>2, <2>3 DEF Swipe!Nothing
  <2>7. c.quota.cost = IF "super_paid" \in kinds THEN SuperCost ELSE 0
    BY <2>2, <2>3 DEF Swipe!Nothing
  <2>8. c.quota.cost = (IF "super_paid" \in kinds THEN SuperCost ELSE 0)
                          + (IF "rewind_paid" \in kinds THEN RewindCost ELSE 0)
    BY SwipersFit, <2>4, <2>7
  <2> HIDE DEF c
  <2> QED BY <1>3, <1>8, <2>1, <2>4, <2>5, <2>6, <2>8, PaidAndCounted
<1>13. Swipe!TypeOK'
  BY <1>5, <1>7, <1>8, <1>10, <1>12 DEF SwipeInv, Swipe!TypeOK
<1>14. CallsFit'
  <2> SUFFICES ASSUME NEW j \in AnyCalls
               PROVE  /\ swiping'[j].step \in {"count", "write", "notify", "look", "chat"}
                            => swiping'[j].user # swiping'[j].target
                      /\ Allowed(swiping[j])'
    BY DEF CallsFit, Busy
  <2>1. CASE j = k
    BY <1>3, <1>6, <1>7, <2>1 DEF Allowed
  <2>2. CASE j # k
    BY <1>5, <2>2 DEF SwipeInv, CallsFit, Busy, Allowed, Swipe!Changed
  <2> QED BY <2>1, <2>2
<1>15. \A a, b : Announced(a, b) => Announced(a, b)'
  <2>1. \A j \in AnyCalls : swiping[j].step = "notify" => swiping'[j] = swiping[j]
    BY <1>1, <1>5
  <2> QED BY <1>8, <2>1, AnnouncedStays
<1>16. c.action \in Swipe!Positive => Announced(u, v)'
  <2>1. CASE tells
    <3>1. swiping'[k].step = "notify" /\ Asks(k, u, v)'
      BY <1>7, <2>1 DEF next, Asks
    <3> QED BY <3>1 DEF Announced
  <2>2. CASE c.action \in Swipe!Positive /\ ~tells
    <3>1. c.before \in Swipe!Positive
      BY <2>2 DEF Swipe!Positive
    <3>2. Announced(u, v)
      BY <1>1, <1>3, <3>1 DEF SwipeInv, LikesAnnounced
    <3> QED BY <1>15, <3>2
  <2> QED BY <2>1, <2>2
<1>17. LikesAnnounced'
  <2>1. ASSUME NEW a \in Swipers, NEW b \in Daters, Swipe!Likes(a, b)'
        PROVE  Announced(a, b)'
    <3>1. CASE a = u /\ b = v
      BY <1>11, <1>16, <2>1, <3>1 DEF Swipe!Likes
    <3>2. CASE ~(a = u /\ b = v)
      <4>1. Swipe!Likes(a, b)
        BY <1>11, <2>1, <3>2 DEF Swipe!Likes
      <4> QED BY <1>15, <4>1 DEF SwipeInv, LikesAnnounced
    <3> QED BY <3>1, <3>2
  <2>2. ASSUME NEW j \in AnyCalls, swiping'[j].step \in {"count", "write"},
               swiping'[j].before \in Swipe!Positive
        PROVE  Announced(swiping[j].user, swiping[j].target)'
    <3>1. j # k /\ swiping'[j] = swiping[j]
      BY <1>5, <1>6, <1>7, <2>2
    <3> DEFINE a == swiping[j].user
               b == swiping[j].target
    <3>2. \A x, y : x = a /\ y = b => Announced(x, y)
      BY <2>2, <3>1 DEF SwipeInv, LikesAnnounced
    <3>3. \A x, y : x = a /\ y = b => Announced(x, y)'
      BY <1>15, <3>2
    <3> QED BY <3>1, <3>3
  <2> QED BY <2>1, <2>2 DEF LikesAnnounced
<1>18. MatchesPursued'
  <2> SUFFICES ASSUME NEW a \in Swipers, NEW b \in Swipers, a # b, Swipe!Likes(a, b)',
                      Swipe!Likes(b, a)'
               PROVE  {a, b} \in met' /\ ({a, b} \in chat' \union cut' \/ Pursued(a, b)')
    BY DEF MatchesPursued
  <2>0. a \in Daters /\ b \in Daters /\ met \subseteq met'
    BY SwipersFit, <1>8
  <2>1. CASE {a, b} = {u, v}
    <3>1. (a = u /\ b = v) \/ (a = v /\ b = u)
      BY <2>1
    <3>2. v \in Swipers /\ c.action \in Swipe!Positive /\ Swipe!Likes(v, u)
      BY <1>3, <1>11, <2>0, <3>1 DEF Swipe!Likes
    <3>3. {a, b} \in met'
      BY <1>8, <2>1, <3>2
    <3>4. Busy(k)' /\ swiping'[k].action \in Swipe!Positive /\ Asks(k, u, v)'
      BY <1>6, <1>7, <3>2 DEF Busy, Asks
    <3> QED BY <3>1, <3>3, <3>4 DEF Pursued
  <2>2. CASE {a, b} # {u, v}
    <3>1. Swipe!Likes(a, b) /\ Swipe!Likes(b, a)
      BY <1>11, <2>0, <2>2 DEF Swipe!Likes
    <3>2. {a, b} \in met /\ ({a, b} \in chat \union cut \/ Pursued(a, b))
      BY <3>1 DEF SwipeInv, MatchesPursued
    <3>3. Pursued(a, b) => Pursued(a, b)'
      BY <1>1, <1>5 DEF Pursued, Busy, Asks
    <3> QED BY <1>8, <2>0, <3>2, <3>3
  <2> QED BY <2>1, <2>2
<1>19. ChatsMet'
  <2>1. ChatsMet /\ met \subseteq met' /\ stale = stale' /\ chat' = chat
    BY <1>8 DEF SwipeInv
  <2>2. \A j \in AnyCalls : swiping'[j].step = "chat" => swiping'[j] = swiping[j]
    BY <1>5, <1>6, <1>7
  <2>3. \A p \in chat' : p \in chat
    BY <2>1
  <2>4. stale \subseteq stale'
    BY <2>1
  <2> QED BY <2>1, <2>2, <2>3, <2>4, ChatsStay
<1> QED BY <1>12, <1>13, <1>14, <1>17, <1>18, <1>19 DEF SwipeInv

LEMMA NotifyKeeps ==
    ASSUME SwipeInv, NEW k \in AnyCalls, Swipe!Notify(k)
    PROVE  SwipeInv'
<1> DEFINE c == swiping[k]
<1>1. c.step = "notify"
  BY DEF Swipe!Notify
<1>2. c \in Swipe!Swiping
  BY <1>1 DEF SwipeInv, Swipe!TypeOK, Swipe!Counting, Swipe!Swiping, Swipe!Idle
<1>3. /\ swiping'[k] = [c EXCEPT !.step = "look"] /\ DOMAIN swiping' = AnyCalls
      /\ \A j \in AnyCalls : j # k => swiping'[j] = swiping[j]
  BY DEF SwipeInv, Swipe!TypeOK, Swipe!Notify, Swipe!Goto
<1>4. /\ swiping'[k] \in Swipe!Swiping /\ swiping'[k].step = "look"
          /\ swiping'[k].user = c.user
      /\ swiping'[k].target = c.target /\ swiping'[k].action = c.action
  BY <1>2, <1>3 DEF Swipe!Swiping
<1>5. told' = told \union {<<c.user, c.target>>}
      /\ UNCHANGED <<swiped, used, balance, chat>> /\ UNCHANGED Swipe!history
  BY DEF Swipe!Notify
<1>6. Swipe!TypeOK'
  <2>1. <<c.user, c.target>> \in Swipers \X Daters
    BY <1>2 DEF Swipe!Swiping
  <2> QED BY <1>3, <1>4, <1>5, <2>1 DEF SwipeInv, Swipe!TypeOK
<1>7. CallsFit'
  <2> SUFFICES ASSUME NEW j \in AnyCalls
               PROVE  /\ swiping'[j].step \in {"count", "write", "notify", "look", "chat"}
                            => swiping'[j].user # swiping'[j].target
                      /\ Allowed(swiping[j])'
    BY DEF CallsFit, Busy
  <2>1. CASE j = k
    BY <1>1, <1>4, <2>1 DEF SwipeInv, CallsFit, Busy, Allowed
  <2>2. CASE j # k
    BY <1>3, <2>2 DEF SwipeInv, CallsFit, Busy, Allowed, Swipe!Changed
  <2> QED BY <2>1, <2>2
<1>8. \A a, b : Announced(a, b) => Announced(a, b)'
  <2>1. \A j \in AnyCalls : swiping[j].step = "notify" =>
            swiping'[j] = swiping[j] \/ <<swiping[j].user, swiping[j].target>> \in told'
    BY <1>3, <1>5
  <2> QED BY <1>5, <2>1, AnnouncedStays DEF Swipe!history
<1>9. LikesAnnounced'
  <2>1. \A a \in Swipers, b \in Daters : Swipe!Likes(a, b)' => Announced(a, b)'
    BY <1>5, <1>8 DEF SwipeInv, LikesAnnounced, Swipe!Likes
  <2>2. \A j \in AnyCalls : swiping'[j].step \in {"count", "write"} =>
            swiping'[j] = swiping[j]
    BY <1>3, <1>4
  <2>3. \A j \in AnyCalls : swiping[j].step \in {"count", "write"}
            /\ swiping[j].before \in Swipe!Positive =>
            \A a, b : swiping[j].user = a /\ swiping[j].target = b => Announced(a, b)'
    BY <1>8 DEF SwipeInv, LikesAnnounced
  <2> QED BY <2>1, <2>2, <2>3 DEF LikesAnnounced
<1>10. MatchesPursued'
  <2>1. \A j \in AnyCalls : Busy(j) => \/ swiping'[j] = swiping[j]
                                       \/ /\ Busy(j)' /\ swiping'[j].user = swiping[j].user
                                          /\ swiping'[j].target = swiping[j].target
                                          /\ swiping'[j].action = swiping[j].action
    BY <1>3, <1>4 DEF Busy
  <2>2. MatchesPursued
    BY DEF SwipeInv
  <2> QED BY <1>5, <2>1, <2>2, PursuedStays DEF Swipe!history, Swipe!Likes
<1>11. ChatsMet'
  <2>1. \A j \in AnyCalls : swiping'[j].step = "chat" => swiping'[j] = swiping[j]
    BY <1>3, <1>4
  <2> QED BY <1>5, <2>1 DEF SwipeInv, ChatsMet, Swipe!history
<1>12. Swipe!WithinQuotas' /\ Swipe!Charged'
  BY <1>5 DEF SwipeInv, Swipe!WithinQuotas, Swipe!Charged, Swipe!history
<1> QED BY <1>6, <1>7, <1>9, <1>10, <1>11, <1>12 DEF SwipeInv

(* A call that looks at two likes goes on to their chat.                    *)
LEMMA LookKeeps ==
    ASSUME SwipeInv, NEW k \in AnyCalls, Swipe!Look(k), NEW u, NEW v, Asks(k, u, v)
    PROVE  SwipeInv'
<1> DEFINE c == swiping[k]
           matched == v \in Swipers /\ c.action \in Swipe!Positive /\ Swipe!Likes(v, u)
<1>1. c.step = "look" /\ c.user = u /\ c.target = v
  BY DEF Swipe!Look, Asks
<1>2. c \in Swipe!Swiping
  BY <1>1 DEF SwipeInv, Swipe!TypeOK, Swipe!Counting, Swipe!Swiping, Swipe!Idle
<1>3. /\ IF matched THEN swiping'[k] = [c EXCEPT !.step = "chat"] ELSE swiping'[k]
          = Swipe!Idle
      /\ DOMAIN swiping' = AnyCalls
      /\ \A j \in AnyCalls : j # k => swiping'[j] = swiping[j]
  BY <1>1 DEF SwipeInv, Swipe!TypeOK, Swipe!Look, Swipe!Goto, Swipe!End, Swipe!Matched
<1>4. matched => /\ swiping'[k] \in Swipe!Swiping /\ swiping'[k].step = "chat"
          /\ swiping'[k].user = u
                 /\ swiping'[k].target = v /\ swiping'[k].action = c.action
  BY <1>1, <1>2, <1>3 DEF Swipe!Swiping
<1>5. /\ stale' = IF matched /\ ~Swipe!Likes(u, v) THEN stale \union {{u, v}} ELSE stale
      /\ UNCHANGED <<swiped, used, balance, told, chat, cut, hurried, met>>
  BY <1>1 DEF Swipe!Look, Swipe!Matched
<1>6. u \in Swipers /\ v \in Daters /\ u # v
  BY <1>1, <1>2 DEF SwipeInv, CallsFit, Busy, Swipe!Swiping
<1>7. matched => {u, v} \in met \union stale'
  <2>1. matched /\ Swipe!Likes(u, v) => {u, v} \in met
    BY <1>6 DEF SwipeInv, MatchesPursued
  <2> QED BY <1>5, <2>1
<1>8. ~matched => swiping'[k].step = "idle" /\ swiping'[k] = Swipe!Idle
  BY <1>3 DEF Swipe!Idle
<1>9. \A j \in AnyCalls : swiping'[j].step \in {"count", "write", "notify"} =>
          swiping'[j] = swiping[j]
  BY <1>3, <1>4, <1>8
<1>10. Swipe!TypeOK'
  BY <1>3, <1>4, <1>5 DEF SwipeInv, Swipe!TypeOK
<1>11. CallsFit'
  <2> SUFFICES ASSUME NEW j \in AnyCalls
               PROVE  /\ swiping'[j].step \in {"count", "write", "notify", "look", "chat"}
                            => swiping'[j].user # swiping'[j].target
                      /\ Allowed(swiping[j])'
    BY DEF CallsFit, Busy
  <2>1. CASE j = k
    BY <1>4, <1>6, <1>8, <2>1 DEF Allowed
  <2>2. CASE j # k
    BY <1>3, <2>2 DEF SwipeInv, CallsFit, Busy, Allowed, Swipe!Changed
  <2> QED BY <2>1, <2>2
<1>12. \A a, b : Announced(a, b) => Announced(a, b)'
  <2>1. \A j \in AnyCalls : swiping[j].step = "notify" => swiping'[j] = swiping[j]
    BY <1>1, <1>3
  <2> QED BY <1>5, <2>1, AnnouncedStays
<1>13. LikesAnnounced'
  <2>1. \A a \in Swipers, b \in Daters : Swipe!Likes(a, b)' => Announced(a, b)'
    BY <1>5, <1>12 DEF SwipeInv, LikesAnnounced, Swipe!Likes
  <2>2. \A j \in AnyCalls : swiping[j].step \in {"count", "write"}
            /\ swiping[j].before \in Swipe!Positive =>
            \A a, b : swiping[j].user = a /\ swiping[j].target = b => Announced(a, b)'
    BY <1>12 DEF SwipeInv, LikesAnnounced
  <2> QED BY <1>9, <2>1, <2>2 DEF LikesAnnounced
<1>14. MatchesPursued'
  <2> SUFFICES ASSUME NEW a \in Swipers, NEW b \in Swipers, a # b, Swipe!Likes(a, b)',
                      Swipe!Likes(b, a)'
               PROVE  {a, b} \in met' /\ ({a, b} \in chat' \union cut' \/ Pursued(a, b)')
    BY DEF MatchesPursued
  <2>1. Swipe!Likes(a, b) /\ Swipe!Likes(b, a)
    BY <1>5 DEF Swipe!Likes
  <2>2. {a, b} \in met /\ ({a, b} \in chat \union cut \/ Pursued(a, b))
    BY <2>1 DEF SwipeInv, MatchesPursued
  <2>3. ASSUME Pursued(a, b) PROVE Pursued(a, b)'
    <3>1. PICK j \in AnyCalls : /\ Busy(j) /\ swiping[j].action \in Swipe!Positive
                                /\ Asks(j, a, b) \/ Asks(j, b, a)
      BY <2>3 DEF Pursued
    <3>2. CASE j # k
      BY <1>3, <3>1, <3>2 DEF Pursued, Busy, Asks
    <3>3. CASE j = k
      <4>1. (u = a /\ v = b) \/ (u = b /\ v = a)
        BY <1>1, <3>1, <3>3 DEF Asks
      <4>2. matched
        BY <2>1, <3>1, <3>3, <4>1
      <4>3. Busy(k)' /\ swiping'[k].action \in Swipe!Positive
                /\ (Asks(k, a, b)' \/ Asks(k, b, a)')
        BY <1>4, <4>1, <4>2 DEF Busy, Asks
      <4> QED BY <4>3 DEF Pursued
    <3> QED BY <3>2, <3>3
  <2> QED BY <1>5, <2>2, <2>3
<1>15. ChatsMet'
  <2>1. \A j \in AnyCalls : swiping'[j].step = "chat" =>
            \/ swiping'[j] = swiping[j]
            \/ {swiping'[j].user, swiping'[j].target} \in met' \union stale'
    BY <1>3, <1>4, <1>5, <1>7, <1>8
  <2>2. stale \subseteq stale' /\ met \subseteq met' /\ chat' = chat
    BY <1>5
  <2> QED BY <2>1, <2>2 DEF SwipeInv, ChatsMet
<1>16. Swipe!WithinQuotas' /\ Swipe!Charged'
  BY <1>5 DEF SwipeInv, Swipe!WithinQuotas, Swipe!Charged
<1> QED BY <1>10, <1>11, <1>13, <1>14, <1>15, <1>16 DEF SwipeInv

(* A call that ends, after a chat or short of it.                           *)
LEMMA SwipeEnds ==
    ASSUME SwipeInv, NEW k \in AnyCalls, Swipe!End(k),
           chat \subseteq chat', cut \subseteq cut',
           Busy(k) => {swiping[k].user, swiping[k].target} \in chat' \union cut',
           swiping[k].step = "notify" => {swiping[k].user, swiping[k].target} \in cut',
           chat' \subseteq SUBSET Daters, chat' \subseteq met \union stale,
           UNCHANGED <<swiped, used, balance, told, stale, hurried, met>>
    PROVE  SwipeInv'
<1>1. /\ swiping'[k] = Swipe!Idle /\ DOMAIN swiping' = AnyCalls /\ swiping'[k].step = "idle"
      /\ \A j \in AnyCalls : j # k => swiping'[j] = swiping[j]
  BY DEF SwipeInv, Swipe!TypeOK, Swipe!End, Swipe!Idle
<1>2. Swipe!TypeOK'
  BY <1>1 DEF SwipeInv, Swipe!TypeOK
<1>3. \A j \in AnyCalls : swiping'[j].step # "idle" => swiping'[j] = swiping[j]
  BY <1>1
<1>4. CallsFit'
  <2> SUFFICES ASSUME NEW j \in AnyCalls
               PROVE  /\ swiping'[j].step \in {"count", "write", "notify", "look", "chat"}
                            => swiping'[j].user # swiping'[j].target
                      /\ Allowed(swiping[j])'
    BY DEF CallsFit, Busy
  <2>1. CASE j = k
    BY <1>1, <2>1 DEF Allowed
  <2>2. CASE j # k
    BY <1>1, <2>2 DEF SwipeInv, CallsFit, Busy, Allowed, Swipe!Changed
  <2> QED BY <2>1, <2>2
<1>5. \A a, b : Announced(a, b) => Announced(a, b)'
  <2>1. \A j \in AnyCalls : swiping[j].step = "notify" =>
            \/ swiping'[j] = swiping[j]
            \/ {swiping[j].user, swiping[j].target} \in cut'
    BY <1>1
  <2> QED BY <2>1, AnnouncedStays
<1>6. LikesAnnounced'
  <2>1. \A a \in Swipers, b \in Daters : Swipe!Likes(a, b)' => Announced(a, b)'
    BY <1>5 DEF SwipeInv, LikesAnnounced, Swipe!Likes
  <2>2. \A j \in AnyCalls : swiping[j].step \in {"count", "write"}
            /\ swiping[j].before \in Swipe!Positive =>
            \A a, b : swiping[j].user = a /\ swiping[j].target = b => Announced(a, b)'
    BY <1>5 DEF SwipeInv, LikesAnnounced
  <2> QED BY <1>3, <2>1, <2>2 DEF LikesAnnounced
<1>7. MatchesPursued'
  <2>1. \A j \in AnyCalls : Busy(j) => \/ swiping'[j] = swiping[j]
                                       \/ {swiping[j].user, swiping[j].target} \in chat' \union cut'
    BY <1>1
  <2>2. MatchesPursued
    BY DEF SwipeInv
  <2> QED BY <2>1, <2>2, PursuedStays DEF Swipe!Likes
<1>8. ChatsMet'
  BY <1>3 DEF SwipeInv, ChatsMet
<1>9. Swipe!WithinQuotas' /\ Swipe!Charged'
  BY DEF SwipeInv, Swipe!WithinQuotas, Swipe!Charged
<1> QED BY <1>2, <1>4, <1>6, <1>7, <1>8, <1>9 DEF SwipeInv

LEMMA OpenChatKeeps ==
    ASSUME SwipeInv, NEW k \in AnyCalls, Swipe!OpenChat(k)
    PROVE  SwipeInv'
<1> DEFINE p == {swiping[k].user, swiping[k].target}
<1>1. swiping[k].step = "chat" /\ Swipe!End(k) /\ chat' = chat \union {p}
      /\ UNCHANGED <<swiped, used, balance, told>> /\ UNCHANGED Swipe!history
  BY DEF Swipe!OpenChat
<1>2. swiping[k] \in Swipe!Swiping
  BY <1>1 DEF SwipeInv, Swipe!TypeOK, Swipe!Counting, Swipe!Swiping, Swipe!Idle
<1>3. p \subseteq Daters
  BY SwipersFit, <1>2 DEF Swipe!Swiping
<1>4. p \in met \union stale
  BY <1>1 DEF SwipeInv, ChatsMet
<1>5. chat \subseteq SUBSET Daters /\ chat \subseteq met \union stale
  BY DEF SwipeInv, Swipe!TypeOK, ChatsMet
<1>6. /\ chat \subseteq chat' /\ cut \subseteq cut' /\ p \in chat' \union cut'
      /\ chat' \subseteq SUBSET Daters /\ chat' \subseteq met \union stale
      /\ UNCHANGED <<swiped, used, balance, told, stale, hurried, met>>
  BY <1>1, <1>3, <1>4, <1>5 DEF Swipe!history
<1> QED BY <1>1, <1>6, SwipeEnds

LEMMA SwipeFails ==
    ASSUME SwipeInv, NEW k \in AnyCalls, Swipe!Fail(k)
    PROVE  SwipeInv'
<1>1. /\ Swipe!End(k)
      /\ cut' = IF swiping[k].step \in {"notify", "look", "chat"}
                THEN cut \union {{swiping[k].user, swiping[k].target}} ELSE cut
      /\ UNCHANGED <<swiped, used, balance, told, chat, stale, hurried, met>>
  BY DEF Swipe!Fail
<1>2. chat \subseteq SUBSET Daters /\ chat \subseteq met \union stale
  BY DEF SwipeInv, Swipe!TypeOK, ChatsMet
<1>3. /\ chat \subseteq chat' /\ cut \subseteq cut'
      /\ Busy(k) => {swiping[k].user, swiping[k].target} \in chat' \union cut'
      /\ swiping[k].step = "notify" => {swiping[k].user, swiping[k].target} \in cut'
      /\ chat' \subseteq SUBSET Daters /\ chat' \subseteq met \union stale
      /\ UNCHANGED <<swiped, used, balance, told, stale, hurried, met>>
  BY <1>1, <1>2 DEF Busy
<1> QED BY <1>1, <1>3, SwipeEnds

(* The row that goes, whatever it says by now, takes a like away and adds   *)
(* none.                                                                    *)
LEMMA DeletePassKeeps ==
    ASSUME SwipeInv, NEW k \in AnyCalls, Swipe!DeletePass(k), NEW u, NEW v, Asks(k, u, v)
    PROVE  SwipeInv'
<1> DEFINE c == swiping[k]
           kinds == {c.quota.kind}
<1>1. c.step = "delete" /\ c.user = u /\ c.target = v
  BY DEF Swipe!DeletePass, Asks
<1>2. u \in Swipers
  BY <1>1 DEF SwipeInv, Swipe!TypeOK, Swipe!Counting, Swipe!Swiping, Swipe!Idle
<1>3. /\ swiped' = [swiped EXCEPT ![u][v].action = "none"]
      /\ Swipe!Spend(u, c.quota.cost) /\ Swipe!Add(u, kinds) /\ Swipe!Hurried(u, c,
            kinds) /\ Swipe!End(k)
      /\ UNCHANGED <<told, chat, cut, stale, met>>
  BY <1>1 DEF Swipe!DeletePass
<1>4. /\ swiping'[k] = Swipe!Idle /\ DOMAIN swiping' = AnyCalls /\ swiping'[k].step = "idle"
      /\ \A j \in AnyCalls : j # k => swiping'[j] = swiping[j]
  BY <1>3 DEF SwipeInv, Swipe!TypeOK, Swipe!End, Swipe!Idle
<1>5. swiped \in [Swipers -> [Daters -> [id : Nat, action : Swipe!Answers]]]
  BY DEF SwipeInv, Swipe!TypeOK
<1>6. swiped' \in [Swipers -> [Daters -> [id : Nat, action : Swipe!Answers]]]
      /\ \A a \in Swipers, b \in Daters : Swipe!Likes(a, b)' => Swipe!Likes(a, b)
  <2>1. CASE v \in Daters
    <3>1. "none" \in Swipe!Answers /\ "none" \notin Swipe!Positive
      BY DEF Swipe!Answers, Swipe!Positive
    <3>2. [swiped[u][v] EXCEPT !.action = "none"] \in [id : Nat, action : Swipe!Answers]
          /\ [swiped[u][v] EXCEPT !.action = "none"].action = "none"
      BY <1>2, <1>5, <2>1, <3>1
    <3>3. swiped' = [swiped EXCEPT ![u] = [swiped[u] EXCEPT ![v]
              = [swiped[u][v] EXCEPT !.action = "none"]]]
      BY <1>2, <1>3, <1>5, <2>1
    <3> QED BY <1>2, <1>5, <2>1, <3>1, <3>2, <3>3 DEF Swipe!Likes
  <2>2. CASE v \notin Daters
    <3>1. [swiped[u] EXCEPT ![v].action = "none"] = swiped[u]
      BY <1>2, <1>5, <2>2
    <3>2. swiped' = swiped
      BY <1>2, <1>3, <1>5, <3>1
    <3> QED BY <1>5, <3>2 DEF Swipe!Likes
  <2> QED BY <2>1, <2>2
<1> HIDE DEF kinds
<1>7. /\ balance' \in [Swipers -> Nat] /\ used' \in [Swipers -> [Swipe!Kinds -> Nat]]
      /\ Swipe!WithinQuotas' /\ Swipe!Charged'
  <2>1. \/ c.quota = [kind |-> "rewind_paid", cost |-> RewindCost]
        \/ /\ c.quota = [kind |-> "rewind_free", cost |-> 0]
           /\ c.counts["rewind_free"] < FreeRewinds
    BY <1>1 DEF SwipeInv, CallsFit, Allowed
  <2>2. /\ kinds \in SUBSET Swipe!Kinds /\ "swipe" \notin kinds
        /\ "super_free" \notin kinds /\ "super_paid" \notin kinds
        /\ "rewind_free" \in kinds => c.counts["rewind_free"] < FreeRewinds
        /\ c.quota.cost = IF "rewind_paid" \in kinds THEN RewindCost ELSE 0
    BY <2>1 DEF kinds, Swipe!Kinds
  <2>3. /\ c.quota.cost \in Nat
        /\ c.quota.cost = (IF "super_paid" \in kinds THEN SuperCost ELSE 0)
                             + (IF "rewind_paid" \in kinds THEN RewindCost ELSE 0)
    BY SwipersFit, <2>2
  <2> HIDE DEF c
  <2> QED BY <1>1, <1>2, <1>3, <2>2, <2>3, PaidAndCounted
<1>8. Swipe!TypeOK'
  BY <1>3, <1>4, <1>6, <1>7 DEF SwipeInv, Swipe!TypeOK
<1>9. \A j \in AnyCalls : swiping'[j].step # "idle" => swiping'[j] = swiping[j]
  BY <1>4
<1>10. CallsFit'
  <2> SUFFICES ASSUME NEW j \in AnyCalls
               PROVE  /\ swiping'[j].step \in {"count", "write", "notify", "look", "chat"}
                            => swiping'[j].user # swiping'[j].target
                      /\ Allowed(swiping[j])'
    BY DEF CallsFit, Busy
  <2>1. CASE j = k
    BY <1>4, <2>1 DEF Allowed
  <2>2. CASE j # k
    BY <1>4, <2>2 DEF SwipeInv, CallsFit, Busy, Allowed, Swipe!Changed
  <2> QED BY <2>1, <2>2
<1>11. \A a, b : Announced(a, b) => Announced(a, b)'
  <2>1. \A j \in AnyCalls : swiping[j].step = "notify" => swiping'[j] = swiping[j]
    BY <1>1, <1>4
  <2> QED BY <1>3, <2>1, AnnouncedStays
<1>12. LikesAnnounced'
  <2>1. \A a \in Swipers, b \in Daters : Swipe!Likes(a, b)' => Announced(a, b)'
    BY <1>6, <1>11 DEF SwipeInv, LikesAnnounced
  <2>2. \A j \in AnyCalls : swiping[j].step \in {"count", "write"}
            /\ swiping[j].before \in Swipe!Positive =>
            \A a, b : swiping[j].user = a /\ swiping[j].target = b => Announced(a, b)'
    BY <1>11 DEF SwipeInv, LikesAnnounced
  <2> QED BY <1>9, <2>1, <2>2 DEF LikesAnnounced
<1>13. MatchesPursued'
  <2>1. \A j \in AnyCalls : Busy(j) => swiping'[j] = swiping[j]
    BY <1>1, <1>4 DEF Busy
  <2>2. MatchesPursued /\ \A a, b \in Swipers : Swipe!Likes(a, b)' => Swipe!Likes(a, b)
    BY SwipersFit, <1>6 DEF SwipeInv
  <2> QED BY <1>3, <2>1, <2>2, PursuedStays
<1>14. ChatsMet'
  BY <1>3, <1>9 DEF SwipeInv, ChatsMet
<1> QED BY <1>7, <1>8, <1>10, <1>12, <1>13, <1>14 DEF SwipeInv

(* Blocks are asked for, and keep nothing from what is under way.           *)
LEMMA NothingElseKeeps ==
    ASSUME SwipeInv, UNCHANGED <<swiped, used, balance, told, chat, swiping>>,
           UNCHANGED Swipe!history
    PROVE  SwipeInv'
<1>1. UNCHANGED <<swiped, used, balance, told, chat, swiping, cut, stale, hurried, met>>
  BY DEF Swipe!history
<1>2. Swipe!TypeOK'
  BY <1>1 DEF SwipeInv, Swipe!TypeOK
<1>3. CallsFit'
  BY <1>1 DEF SwipeInv, CallsFit, Busy, Allowed, Swipe!Changed
<1>4. \A a, b : Announced(a, b) => Announced(a, b)'
  BY <1>1, AnnouncedStays
<1>5. LikesAnnounced'
  BY <1>1, <1>4 DEF SwipeInv, LikesAnnounced, Swipe!Likes
<1>6. MatchesPursued'
  BY <1>1, PursuedStays DEF SwipeInv, Swipe!Likes
<1>7. ChatsMet' /\ Swipe!WithinQuotas' /\ Swipe!Charged'
  BY <1>1 DEF SwipeInv, ChatsMet, Swipe!WithinQuotas, Swipe!Charged
<1> QED BY <1>2, <1>3, <1>5, <1>6, <1>7 DEF SwipeInv

-----------------------------------------------------------------------------
LEMMA SwipeBegins ==
    ASSUME Swipe!Init
    PROVE  SwipeInv
<1>1. Swipe!TypeOK
  BY SwipersFit DEF Swipe!Init, Swipe!TypeOK, Swipe!NoRow, Swipe!Answers, Swipe!Kinds
<1>2. CallsFit /\ ChatsMet
  BY DEF Swipe!Init, CallsFit, Busy, Swipe!Idle, Allowed, ChatsMet
<1>3. \A u \in Swipers, v \in Daters : ~Swipe!Likes(u, v)
  BY DEF Swipe!Init, Swipe!Likes, Swipe!NoRow, Swipe!Positive
<1>4. LikesAnnounced /\ MatchesPursued
  BY SwipersFit, <1>3 DEF Swipe!Init, LikesAnnounced, MatchesPursued, Swipe!Idle
<1>5. Swipe!WithinQuotas
  BY SwipersFit DEF Swipe!Init, Swipe!WithinQuotas, Swipe!Kinds
<1>6. Swipe!Charged
  <2>1. SuperCost * 0 = 0 /\ RewindCost * 0 = 0
    BY SwipersFit
  <2> QED BY SwipersFit, <2>1 DEF Swipe!Init, Swipe!Charged, Swipe!Kinds
<1> QED BY <1>1, <1>2, <1>4, <1>5, <1>6 DEF SwipeInv

LEMMA SwipeStepKeeps ==
    ASSUME SwipeInv, [Swipe!Next]_Swipe!vars
    PROVE  SwipeInv'
<1>1. CASE UNCHANGED Swipe!vars
  BY <1>1, NothingElseKeeps DEF Swipe!vars, Swipe!history
<1>2. ASSUME NEW u \in Swipers, NEW v \in Daters, Swipe!Block(u, v) \/ Swipe!Unblock(u, v)
      PROVE  SwipeInv'
  BY <1>2, NothingElseKeeps DEF Swipe!Block, Swipe!Unblock
<1>3. ASSUME NEW k \in AnyCalls, NEW u \in Swipers, NEW v \in Daters,
             NEW action \in Swipe!Positive \union {"pass"}, Swipe!BeginSwipe(k, u, v, action)
      PROVE  SwipeInv'
  BY <1>3, BeginSwipeKeeps
<1>4. ASSUME NEW k \in AnyCalls,
             Swipe!CountSwipe(k) \/ Swipe!Notify(k) \/ Swipe!OpenChat(k)
                 \/ Swipe!CountRewind(k) \/ Swipe!Fail(k)
      PROVE  SwipeInv'
  BY <1>4, CountSwipeKeeps, NotifyKeeps, OpenChatKeeps, CountRewindKeeps, SwipeFails
<1>5. ASSUME NEW k \in AnyCalls, Swipe!WriteSwipe(k) \/ Swipe!Look(k) \/ Swipe!DeletePass(k)
      PROVE  SwipeInv'
  <2>1. Asks(k, swiping[k].user, swiping[k].target)
    BY DEF Asks
  <2> QED BY <1>5, <2>1, WriteSwipeKeeps, LookKeeps, DeletePassKeeps
<1>6. ASSUME NEW k \in AnyCalls, NEW u \in Swipers, Swipe!BeginRewind(k, u)
      PROVE  SwipeInv'
  BY <1>6, BeginRewindKeeps
<1> QED BY <1>1, <1>2, <1>3, <1>4, <1>5, <1>6 DEF Swipe!Next

LEMMA SwipesMeetFollows ==
    ASSUME SwipeInv
    PROVE  Swipe!SwipesMeet
<1>1. Swipe!MatchesChat
  <2> SUFFICES ASSUME NEW u \in Swipers, NEW v \in Swipers, u # v, Swipe!Likes(u, v),
                      Swipe!Likes(v, u)
               PROVE  {u, v} \in chat \/ Swipe!Open(u, v) \/ {u, v} \in cut
    BY DEF Swipe!MatchesChat
  <2>1. {u, v} \in chat \union cut \/ Pursued(u, v)
    BY DEF SwipeInv, MatchesPursued
  <2>2. Pursued(u, v) => Swipe!Open(u, v)
    BY DEF Pursued, Busy, Asks, Swipe!Open
  <2> QED BY <2>1, <2>2
<1>2. Swipe!LikesTold
  BY DEF SwipeInv, LikesAnnounced, Announced, Asks, Swipe!LikesTold, Swipe!Open
<1>3. chat \subseteq met \union stale /\ Swipe!WithinQuotas /\ Swipe!Charged
  BY DEF SwipeInv, ChatsMet
<1> QED BY <1>1, <1>2, <1>3 DEF Swipe!SwipesMeet

LEMMA SwipeSteps ==
    ASSUME focus = "swipe", [Next]_<<focus, everything>>
    PROVE  [Swipe!Next]_Swipe!vars
<1>1. CASE UNCHANGED <<focus, everything>>
  BY <1>1 DEF everything, Swipe!vars
<1>2. CASE Next
  BY <1>2 DEF Next
<1> QED BY <1>1, <1>2

LEMMA SwipeKept == Spec => [](focus = "swipe" => SwipeInv)
<1>1. Init => (focus = "swipe" => SwipeInv)
  BY SwipeBegins DEF Init
<1>2. (focus = "swipe" => SwipeInv) /\ [Next]_<<focus, everything>>
        => (focus = "swipe" => SwipeInv)'
  <2> SUFFICES ASSUME focus = "swipe" => SwipeInv, [Next]_<<focus, everything>>,
                      focus' = "swipe"
               PROVE  SwipeInv'
    OBVIOUS
  <2>1. focus = "swipe" /\ SwipeInv
    BY DEF Next
  <2>2. [Swipe!Next]_Swipe!vars
    BY <2>1, SwipeSteps
  <2> QED BY <2>1, <2>2, SwipeStepKeeps
<1> QED BY <1>1, <1>2, PTL DEF Spec

(* Two users who like each other meet, quotas hold, tokens match: a like is  *)
(* told, two likes have their chat or a call that will open it, whatever     *)
(* order the calls take.                                                     *)
THEOREM LikersMeet == Spec => []SwipesMeet
<1>1. (focus = "swipe" => SwipeInv) => SwipesMeet
  BY SwipesMeetFollows DEF SwipesMeet
<1> QED BY <1>1, SwipeKept, PTL

-----------------------------------------------------------------------------
(* The photos of a profile, for any keys and calls.                          *)

stored == v1
photo == v2
avatar == v3
editing == v4
apart == v6
doubt == v7
disorder == v8
USE DEF stored, photo, avatar, editing, apart, doubt, disorder

-----------------------------------------------------------------------------
Uploading ==
    [op : {"store", "upload"}, step : {"begun", "locked"}, key : PhotoKeys, last : Int,
     alone : BOOLEAN]

Arranging ==
    [op : {"order", "delete"}, step : {"read", "picked"},
     order : Seq(PhotoKeys) \union UNION {[K -> Nat] : K \in SUBSET PhotoKeys},
     key : PhotoKeys \union {Photo!None}, empties : BOOLEAN, rows : SUBSET PhotoKeys,
     first : PhotoKeys \union {Photo!None}, alone : BOOLEAN]

SettingApart ==
    [op : {"avatar"}, step : {"asset", "set"}, key : PhotoKeys, alone : BOOLEAN,
     existing : BOOLEAN]

Records == Uploading \union Arranging \union SettingApart \union {Photo!Idle}

PhotosTyped ==
    /\ stored \subseteq PhotoKeys /\ IsFiniteSet(stored)
    /\ photo \in [DOMAIN photo -> Nat]
    /\ editing \in [AnyCalls -> Records]

(* One upload holds the profile, and what it has read is still so.          *)
LockHolds(c) ==
    editing[c].step = "locked" =>
        /\ editing[c].last = Photo!Highest(photo)
        /\ \A d \in AnyCalls \ {c} : editing[d].step # "locked"

(* A list to be written is one of photos.                                   *)
ListFits(c) ==
    /\ editing[c].step = "read" => editing[c].order \in Seq(PhotoKeys)
    /\ editing[c].step = "picked" =>
          /\ editing[c].order \in [DOMAIN editing[c].order -> Nat]
          /\ editing[c].op = "delete"
                => editing[c].first = Photo!None \/ editing[c].first # editing[c].key

Arranged(c) == Photo!Over(editing[c].order, DOMAIN photo \ Photo!Gone(c))

(* While nothing has come between, what was read is what is there, and what *)
(* was picked is the first of what will be.                                 *)
ReadingFits(c) ==
    /\ editing[c].step = "read" /\ editing[c].op = "order" /\ editing[c].alone =>
          Photo!Range(editing[c].order) = DOMAIN photo
    /\ editing[c].step = "picked" /\ editing[c].alone =>
          editing[c].first \in Photo!Firsts(Arranged(c)) /\ Photo!IsInjective(Arranged(c))

CallFits(c) == LockHolds(c) /\ ListFits(c) /\ ReadingFits(c)

PhotosInv == PhotosTyped /\ (\A c \in AnyCalls : CallFits(c)) /\ Photo!PhotosInOrder

-----------------------------------------------------------------------------
(* Numbers, lists and numberings.                                           *)

LEMMA SomethingIsGreatest ==
    ASSUME NEW S \in SUBSET Int, IsFiniteSet(S), S # {}
    PROVE  \E n \in S : \A m \in S : m <= n
<1> DEFINE above(m) == {k \in S : k > m}
           T == {above(m) : m \in S}
<1>1. T \subseteq FiniteSubsetsOf(S)
  BY FS_Subset DEF FiniteSubsetsOf
<1>2. \E x \in T : \A y \in T : <<y, x>> \notin StrictSubsetOrdering(S)
  <2>1. T # {}
    OBVIOUS
  <2> HIDE DEF T
  <2> QED BY <1>1, <2>1, FS_StrictSubsetOrderingWellFounded, WFMin
<1>3. PICK m \in S : \A n \in S : <<above(n), above(m)>> \notin StrictSubsetOrdering(S)
  BY <1>2
<1>4. \A n \in S : n <= m
  <2> SUFFICES ASSUME NEW n \in S, n > m PROVE FALSE
    OBVIOUS
  <2>1. \A k \in S : k > n => k > m
    OBVIOUS
  <2>2. above(n) \subseteq above(m)
    BY <2>1
  <2>3. n \in above(m) /\ n \notin above(n)
    OBVIOUS
  <2>4. above(n) \in SUBSET S /\ above(m) \in SUBSET S
    OBVIOUS
  <2> HIDE DEF above
  <2> QED BY <1>3, <2>2, <2>3, <2>4 DEF StrictSubsetOrdering
<1> QED BY <1>4

LEMMA HighestIsGreatest ==
    ASSUME NEW D, IsFiniteSet(D), NEW p \in [D -> Nat]
    PROVE  /\ Photo!Highest(p) \in Int /\ Photo!Highest(p) >= -1
           /\ \A k \in D : p[k] <= Photo!Highest(p)
<1>1. CASE D = {}
  BY <1>1 DEF Photo!Highest
<1>2. CASE D # {}
  <2>2. Photo!Range(p) = {p[k] : k \in D}
    BY DEF Photo!Range
  <2>1. IsFiniteSet(Photo!Range(p))
    <3>1. p \in Surjection(D, Photo!Range(p))
      BY <2>2 DEF Surjection
    <3> QED BY <3>1, FS_Surjection
  <2>3. Photo!Range(p) # {} /\ Photo!Range(p) \in SUBSET Int /\ Photo!Range(p) \subseteq Nat
    BY <1>2, <2>2
  <2>4. \E n \in Photo!Range(p) : \A m \in Photo!Range(p) : m <= n
    BY <2>1, <2>3, SomethingIsGreatest
  <2>5. Photo!Highest(p) \in Photo!Range(p)
            /\ \A m \in Photo!Range(p) : m <= Photo!Highest(p)
    BY <1>2, <2>4 DEF Photo!Highest
  <2> QED BY <2>2, <2>3, <2>5
<1> QED BY <1>1, <1>2

LEMMA PhotosCounted == \A S : Photo!Cardinality(S) = Cardinality(S)
BY DEF Photo!Cardinality, Cardinality

(* An enumeration of a finite set holds all of it.                          *)
LEMMA ListHoldsAll ==
    ASSUME NEW K, IsFiniteSet(K), NEW s \in Photo!SetToSeqs(K)
    PROVE  s \in Seq(K) /\ Photo!Range(s) = K
<1> DEFINE n == Cardinality(K)
           D == 1 .. n
<1>1. n \in Nat
  BY FS_CardinalityType
<1>2. s \in [D -> K] /\ \A i, j \in D : i # j => s[i] # s[j]
  BY PhotosCounted DEF Photo!SetToSeqs, Photo!IsInjective
<1>3. s \in Seq(K)
  BY <1>1, <1>2
<1>4. IsFiniteSet(D) /\ Cardinality(D) = n
  BY <1>1, FS_Interval
<1>5. Photo!Range(s) \subseteq K
  BY <1>2 DEF Photo!Range
<1>6. ASSUME NEW t \in K, t \notin Photo!Range(s) PROVE FALSE
  <2>1. s \in [D -> K \ {t}]
    BY <1>2, <1>6 DEF Photo!Range
  <2>2. IsFiniteSet(K \ {t}) /\ Cardinality(K \ {t}) = n - 1
    BY FS_RemoveElement
  <2> HIDE DEF D
  <2>3. \E i, j \in D : i # j /\ s[i] = s[j]
    BY <1>1, <1>4, <2>1, <2>2, FS_PigeonHole
  <2> QED BY <1>2, <2>3
<1> QED BY <1>3, <1>5, <1>6

LEMMA NumberingNumbers ==
    ASSUME NEW K, NEW s \in Seq(K)
    PROVE  /\ Photo!Numbered(s) \in [Photo!Range(s) -> Nat]
           /\ Photo!IsInjective(Photo!Numbered(s))
<1> DEFINE place(k) == CHOOSE i \in 0 .. Len(s) - 1 : s[i + 1] = k
<1>1. Len(s) \in Nat /\ DOMAIN s = 1 .. Len(s)
  OBVIOUS
<1>2. ASSUME NEW k \in Photo!Range(s)
      PROVE  place(k) \in 0 .. Len(s) - 1 /\ s[place(k) + 1] = k
  <2>1. PICK j \in 1 .. Len(s) : s[j] = k
    BY <1>1, <1>2 DEF Photo!Range
  <2>2. j - 1 \in 0 .. Len(s) - 1 /\ s[(j - 1) + 1] = k
    BY <1>1, <2>1
  <2>3. \E i \in 0 .. Len(s) - 1 : s[i + 1] = k
    BY <2>2
  <2> QED BY <2>3
<1>3. Photo!Numbered(s) = [k \in Photo!Range(s) |-> place(k)]
  BY DEF Photo!Numbered
<1>4. \A k \in Photo!Range(s) : place(k) \in Nat
  BY <1>1, <1>2
<1>5. ASSUME NEW a \in Photo!Range(s), NEW b \in Photo!Range(s),
             place(a) = place(b) PROVE a = b
  BY <1>2, <1>5
<1> HIDE DEF place
<1> QED BY <1>3, <1>4, <1>5 DEF Photo!IsInjective

LEMMA FirstsFit ==
    ASSUME NEW p, NEW f \in Photo!Firsts(p)
    PROVE  f = Photo!None \/ f \in DOMAIN p
BY DEF Photo!Firsts

-----------------------------------------------------------------------------
(* What a step of one call leaves of the others.                            *)

LEMMA OthersStay ==
    ASSUME PhotosInv, NEW c \in AnyCalls, NEW r \in Records,
           editing' = [editing EXCEPT ![c] = r], UNCHANGED photo,
           r.step = "locked" => \A d \in AnyCalls \ {c} : editing[d].step # "locked",
           CallFits(c)'
    PROVE  editing' \in [AnyCalls -> Records] /\ \A d \in AnyCalls : CallFits(d)'
<1>1. editing \in [AnyCalls -> Records]
  BY DEF PhotosInv, PhotosTyped
<1>2. editing' \in [AnyCalls -> Records] /\ editing'[c] = r
  BY <1>1
<1>3. \A d \in AnyCalls \ {c} : editing'[d] = editing[d]
  BY <1>1
<1>4. ASSUME NEW d \in AnyCalls \ {c} PROVE CallFits(d)'
  <2>1. CallFits(d) /\ CallFits(c)
    BY DEF PhotosInv
  <2>2. LockHolds(d)'
    BY <1>2, <1>3, <2>1 DEF CallFits, LockHolds
  <2>3. ListFits(d)'
    BY <1>3, <2>1 DEF CallFits, ListFits
  <2>4. Arranged(d)' = Arranged(d)
    BY <1>3 DEF Arranged, Photo!Over, Photo!Gone
  <2>5. ReadingFits(d)'
    BY <1>3, <2>1, <2>4 DEF CallFits, ReadingFits
  <2> QED BY <2>2, <2>3, <2>5 DEF CallFits
<1> QED BY <1>2, <1>4

(* A record that has been overtaken.                                        *)
LEMMA Late ==
    ASSUME NEW r \in Records, r # Photo!Idle
    PROVE  LET q == [r EXCEPT !.alone = FALSE] IN
           /\ q \in Records /\ q.step = r.step /\ q.op = r.op /\ q.alone = FALSE
           /\ r \in Arranging => q.order = r.order /\ q.first = r.first /\ q.key = r.key
<1>1. CASE r \in Uploading
  BY <1>1 DEF Uploading, Records, Arranging
<1>2. CASE r \in Arranging
  BY <1>2 DEF Arranging, Records
<1>3. CASE r \in SettingApart
  BY <1>3 DEF SettingApart, Records, Arranging
<1> QED BY <1>1, <1>2, <1>3 DEF Records

LEMMA CommitKeeps ==
    ASSUME PhotosInv, NEW c \in AnyCalls, Photo!Commit(c),
           \A d \in AnyCalls \ {c} : editing[d].step # "locked"
    PROVE  editing' \in [AnyCalls -> Records] /\ \A d \in AnyCalls : CallFits(d)'
<1>1. editing \in [AnyCalls -> Records]
  BY DEF PhotosInv, PhotosTyped
<1>2. ASSUME NEW d \in AnyCalls, d = c \/ editing[d] = Photo!Idle
      PROVE  editing'[d] \in Records /\ CallFits(d)'
  <2>1. editing'[d] = Photo!Idle
    BY <1>2 DEF Photo!Commit
  <2>2. Photo!Idle \in Records /\ Photo!Idle.step = "idle"
    BY DEF Photo!Idle, Records
  <2> QED BY <2>1, <2>2 DEF CallFits, LockHolds, ListFits, ReadingFits
<1>3. ASSUME NEW d \in AnyCalls, d # c, editing[d] # Photo!Idle
      PROVE  editing'[d] \in Records /\ CallFits(d)'
  <2>1. editing'[d] = [editing[d] EXCEPT !.alone = FALSE] /\ editing[d] \in Records
    BY <1>1, <1>3 DEF Photo!Commit
  <2>2. /\ editing'[d] \in Records /\ editing'[d].step = editing[d].step
        /\ editing'[d].op = editing[d].op /\ editing'[d].alone = FALSE
        /\ editing[d] \in Arranging =>
              /\ editing'[d].order = editing[d].order
                    /\ editing'[d].first = editing[d].first
              /\ editing'[d].key = editing[d].key
    BY <1>3, <2>1, Late
  <2>3. CallFits(d) /\ editing[d].step # "locked"
    BY <1>3 DEF PhotosInv
  <2>4. editing[d].step \in {"read", "picked"} => editing[d] \in Arranging
    BY <2>1 DEF Records, Uploading, SettingApart, Photo!Idle
  <2>5. LockHolds(d)' /\ ReadingFits(d)'
    BY <2>2, <2>3 DEF LockHolds, ReadingFits
  <2>6. ListFits(d)'
    BY <2>2, <2>3, <2>4 DEF ListFits, CallFits
  <2> QED BY <2>2, <2>5, <2>6 DEF CallFits
<1>4. editing' = [d \in AnyCalls |-> editing'[d]]
  BY DEF Photo!Commit
<1> QED BY <1>2, <1>3, <1>4

-----------------------------------------------------------------------------
(* The actions keep the invariant.                                          *)

LEMMA PhotosBegins ==
    ASSUME Photo!Init PROVE PhotosInv
<1>1. photo \in [DOMAIN photo -> Nat] /\ DOMAIN photo = {}
  BY DEF Photo!Init
<1>2. IsFiniteSet(stored)
  BY FS_EmptySet DEF Photo!Init
<1>3. editing \in [AnyCalls -> Records] /\ \A c \in AnyCalls : editing[c] = Photo!Idle
  BY DEF Photo!Init, Records
<1>4. Photo!PhotosInOrder
  BY <1>1 DEF Photo!Init, Photo!PhotosInOrder, Photo!Firsts, Photo!IsInjective
<1>5. \A c \in AnyCalls : CallFits(c)
  BY <1>3 DEF CallFits, LockHolds, ListFits, ReadingFits, Photo!Idle
<1>6. PhotosTyped
  BY <1>1, <1>2, <1>3 DEF PhotosTyped, Photo!Init
<1> QED BY <1>4, <1>5, <1>6 DEF PhotosInv

(* A step that leaves the photos, the avatar and what it says of them.      *)
LEMMA PhotosQuiet ==
    ASSUME PhotosInv, UNCHANGED <<stored, photo, avatar, apart, doubt, disorder>>,
           editing' \in [AnyCalls -> Records], \A d \in AnyCalls : CallFits(d)'
    PROVE  PhotosInv'
<1>1. PhotosTyped'
  BY DEF PhotosInv, PhotosTyped
<1>2. Photo!PhotosInOrder'
  BY DEF PhotosInv, Photo!PhotosInOrder, Photo!Firsts
<1> QED BY <1>1, <1>2 DEF PhotosInv

LEMMA BeginKeeps ==
    ASSUME PhotosInv, NEW c \in AnyCalls, NEW r \in Records, Photo!Begin(c, r),
           r.step \in {"begun", "asset"} \/
             /\ r.step = "read" /\ r.order \in Seq(PhotoKeys)
             /\ r.op = "order" => Photo!Range(r.order) = DOMAIN photo
    PROVE  PhotosInv'
<1>1. editing' = [editing EXCEPT ![c] = r] /\ editing'[c] = r
  BY DEF Photo!Begin, PhotosInv, PhotosTyped
<1>2. UNCHANGED <<stored, photo, avatar, apart, doubt, disorder>>
  BY DEF Photo!Begin, Photo!history
<1>3. CallFits(c)'
  BY <1>1, <1>2 DEF CallFits, LockHolds, ListFits, ReadingFits
<1>4. editing' \in [AnyCalls -> Records] /\ \A d \in AnyCalls : CallFits(d)'
  BY <1>1, <1>2, <1>3, OthersStay
<1> QED BY <1>2, <1>4, PhotosQuiet

LEMMA UploadBegins ==
    ASSUME PhotosInv, NEW c \in AnyCalls, NEW k \in PhotoKeys,
           Photo!BeginStore(c, k) \/ Photo!BeginUpload(c, k) \/ Photo!BeginAvatar(c, k)
    PROVE  PhotosInv'
<1>1. CASE Photo!BeginStore(c, k)
  <2> DEFINE r == [op |-> "store", step |-> "begun", key |-> k, last |-> 0, alone |-> TRUE]
  <2>1. r \in Records /\ r.step = "begun"
    BY DEF Records, Uploading
  <2> QED BY <1>1, <2>1, BeginKeeps DEF Photo!BeginStore
<1>2. CASE Photo!BeginUpload(c, k)
  <2> DEFINE r == [op |-> "upload", step |-> "begun", key |-> k, last |-> 0, alone |-> TRUE]
  <2>1. r \in Records /\ r.step = "begun"
    BY DEF Records, Uploading
  <2> QED BY <1>2, <2>1, BeginKeeps DEF Photo!BeginUpload
<1>3. CASE Photo!BeginAvatar(c, k)
  <2>1. PICK e \in BOOLEAN : e = (k \in stored)
    BY (k \in stored) \in BOOLEAN
  <2> DEFINE r == [op |-> "avatar", step |-> "asset", key |-> k, alone |-> TRUE,
                   existing |-> e]
  <2>2. r \in Records /\ r.step = "asset"
    BY DEF Records, SettingApart
  <2>3. Photo!Begin(c, r)
    BY <1>3, <2>1 DEF Photo!BeginAvatar
  <2> QED BY <2>2, <2>3, BeginKeeps
<1> QED BY <1>1, <1>2, <1>3

LEMMA ReadingReads ==
    ASSUME NEW op \in {"order", "delete"}, NEW s \in Seq(PhotoKeys),
           NEW k \in PhotoKeys \union {Photo!None}
    PROVE  /\ Photo!Reading(op, s, k) \in Records
           /\ Photo!Reading(op, s, k).step = "read" /\ Photo!Reading(op, s, k).order = s
           /\ Photo!Reading(op, s, k).op = op
<1>1. PICK e \in BOOLEAN : e = (op = "delete" /\ avatar = k)
  OBVIOUS
<1>2. Photo!Reading(op, s, k) =
        [op |-> op, step |-> "read", order |-> s, key |-> k, empties |-> e,
         rows |-> {}, first |-> Photo!None, alone |-> TRUE]
  BY <1>1 DEF Photo!Reading
<1> QED BY <1>2 DEF Records, Arranging

LEMMA PhotosAreFinite ==
    ASSUME PhotosInv PROVE IsFiniteSet(DOMAIN photo) /\ DOMAIN photo \subseteq PhotoKeys
BY FS_Subset DEF PhotosInv, PhotosTyped, Photo!PhotosInOrder

LEMMA ReorderBegins ==
    ASSUME PhotosInv, NEW c \in AnyCalls, NEW s \in Photo!SetToSeqs(DOMAIN photo),
           Photo!BeginReorder(c, s)
    PROVE  PhotosInv'
<1>1. s \in Seq(PhotoKeys) /\ Photo!Range(s) = DOMAIN photo
  BY PhotosAreFinite, ListHoldsAll
<1>2. Photo!Begin(c, Photo!Reading("order", s, Photo!None))
  BY DEF Photo!BeginReorder
<1> QED BY <1>1, <1>2, ReadingReads, BeginKeeps

LEMMA PrimaryBegins ==
    ASSUME PhotosInv, NEW c \in AnyCalls, NEW k \in PhotoKeys, Photo!BeginPrimary(c, k)
    PROVE  PhotosInv'
<1>1. PICK s \in Photo!SetToSeqs(DOMAIN photo) :
          Photo!Begin(c, Photo!Reading("order", s, k))
  BY DEF Photo!BeginPrimary
<1>2. s \in Seq(PhotoKeys) /\ Photo!Range(s) = DOMAIN photo
  BY PhotosAreFinite, ListHoldsAll
<1> QED BY <1>1, <1>2, ReadingReads, BeginKeeps

LEMMA DeleteBegins ==
    ASSUME PhotosInv, NEW c \in AnyCalls, NEW k \in PhotoKeys, Photo!BeginDelete(c, k)
    PROVE  PhotosInv'
<1>0. <<>> \in Seq(PhotoKeys)
  OBVIOUS
<1>1. PICK s \in Seq(PhotoKeys) : s = <<>>
  BY <1>0
<1>2. Photo!Begin(c, Photo!Reading("delete", s, k))
  BY <1>1 DEF Photo!BeginDelete
<1> QED BY <1>2, ReadingReads, BeginKeeps

LEMMA FailKeeps ==
    ASSUME PhotosInv, NEW c \in AnyCalls, Photo!Fail(c)
    PROVE  PhotosInv'
<1>1. editing' = [editing EXCEPT ![c] = Photo!Idle] /\ editing'[c] = Photo!Idle
  BY DEF Photo!Fail, PhotosInv, PhotosTyped
<1>2. UNCHANGED <<stored, photo, avatar, apart, doubt, disorder>>
  BY DEF Photo!Fail, Photo!history
<1>3. Photo!Idle \in Records /\ Photo!Idle.step = "idle"
  BY DEF Photo!Idle, Records
<1>4. CallFits(c)'
  BY <1>1, <1>3 DEF CallFits, LockHolds, ListFits, ReadingFits
<1>5. editing' \in [AnyCalls -> Records] /\ \A d \in AnyCalls : CallFits(d)'
  BY <1>1, <1>2, <1>3, <1>4, OthersStay
<1> QED BY <1>2, <1>5, PhotosQuiet

LEMMA LockKeeps ==
    ASSUME PhotosInv, NEW c \in AnyCalls, Photo!Lock(c), Photo!MayLock(c)
    PROVE  PhotosInv'
<1> DEFINE r == [editing[c] EXCEPT !.step = "locked", !.last = Photo!Highest(photo)]
<1>1. editing[c] \in Uploading
  BY DEF Photo!Lock, PhotosInv, PhotosTyped, Records, Arranging, SettingApart, Photo!Idle
<1>2. Photo!Highest(photo) \in Int
  BY PhotosAreFinite, HighestIsGreatest DEF PhotosInv, PhotosTyped
<1>3. r \in Records /\ r.step = "locked" /\ r.last = Photo!Highest(photo)
  BY <1>1, <1>2 DEF Records, Uploading
<1>4. editing' = [editing EXCEPT ![c] = r]
  BY DEF Photo!Lock
<1> HIDE DEF r
<1>5. UNCHANGED <<stored, photo, avatar, apart, doubt, disorder>>
  BY DEF Photo!Lock, Photo!history
<1>6. \A d \in AnyCalls \ {c} : editing[d].step # "locked"
  BY DEF Photo!MayLock, Photo!Locked
<1>7. editing'[c] = r /\ \A d \in AnyCalls \ {c} : editing'[d] = editing[d]
  BY <1>4 DEF PhotosInv, PhotosTyped
<1>8. CallFits(c)'
  BY <1>3, <1>5, <1>6, <1>7 DEF CallFits, LockHolds, ListFits, ReadingFits, Photo!Highest
<1>9. editing' \in [AnyCalls -> Records] /\ \A d \in AnyCalls : CallFits(d)'
  BY <1>3, <1>4, <1>5, <1>6, <1>8, OthersStay
<1> QED BY <1>5, <1>9, PhotosQuiet

LEMMA CreateAssetKeeps ==
    ASSUME PhotosInv, NEW c \in AnyCalls, Photo!CreateAsset(c)
    PROVE  PhotosInv'
<1> DEFINE r == [editing[c] EXCEPT !.step = "set"]
<1>1. editing[c] \in SettingApart
  BY DEF Photo!CreateAsset, PhotosInv, PhotosTyped, Records, Arranging, Uploading,
     Photo!Idle
<1>2. r \in Records /\ r.step = "set"
  BY <1>1 DEF Records, SettingApart
<1>3. editing' = [editing EXCEPT ![c] = r]
  BY DEF Photo!CreateAsset
<1> HIDE DEF r
<1>4. UNCHANGED <<photo, avatar, apart, doubt, disorder>>
  BY DEF Photo!CreateAsset, Photo!history
<1>5. editing'[c] = r
  BY <1>3 DEF PhotosInv, PhotosTyped
<1>6. CallFits(c)'
  BY <1>2, <1>5 DEF CallFits, LockHolds, ListFits, ReadingFits
<1>7. editing' \in [AnyCalls -> Records] /\ \A d \in AnyCalls : CallFits(d)'
  BY <1>2, <1>3, <1>4, <1>6, OthersStay
<1>8. editing[c].key \in PhotoKeys
  BY <1>1 DEF SettingApart
<1>9. stored \subseteq stored' /\ stored' \subseteq PhotoKeys /\ IsFiniteSet(stored')
  <2>1. stored' = stored \/ stored' = stored \union {editing[c].key}
    BY DEF Photo!CreateAsset
  <2>2. stored \subseteq PhotoKeys /\ IsFiniteSet(stored)
    BY DEF PhotosInv, PhotosTyped
  <2>3. IsFiniteSet(stored \union {editing[c].key})
    BY <2>2, FS_AddElement
  <2> QED BY <1>8, <2>1, <2>2, <2>3
<1>10. PhotosTyped'
  BY <1>4, <1>7, <1>9 DEF PhotosInv, PhotosTyped
<1>11. Photo!PhotosInOrder'
  BY <1>4, <1>9 DEF PhotosInv, Photo!PhotosInOrder, Photo!Firsts
<1> QED BY <1>7, <1>10, <1>11 DEF PhotosInv

LEMMA SetAvatarKeeps ==
    ASSUME PhotosInv, NEW c \in AnyCalls, Photo!SetAvatar(c)
    PROVE  PhotosInv'
<1>1. \A d \in AnyCalls \ {c} : editing[d].step # "locked"
  BY DEF Photo!SetAvatar, Photo!Locked
<1>2. editing' \in [AnyCalls -> Records] /\ \A d \in AnyCalls : CallFits(d)'
  BY <1>1, CommitKeeps DEF Photo!SetAvatar
<1>3. PhotosTyped'
  BY <1>2 DEF PhotosInv, PhotosTyped, Photo!SetAvatar
<1>4. Photo!PhotosInOrder'
  BY DEF PhotosInv, Photo!PhotosInOrder, Photo!SetAvatar
<1> QED BY <1>2, <1>3, <1>4 DEF PhotosInv

(* A photo behind all others is the only one at its place.                  *)
LEMMA BehindIsAlone ==
    ASSUME NEW D, NEW p \in [D -> Nat], NEW k, k \notin D, NEW n \in Nat,
           \A x \in D : p[x] < n, NEW q,
           q = [x \in D \union {k} |-> IF x = k THEN n ELSE p[x]]
    PROVE  q \in [D \union {k} -> Nat] /\ (Photo!IsInjective(p) => Photo!IsInjective(q))
<1>1. q \in [D \union {k} -> Nat]
  OBVIOUS
<1>2. ASSUME Photo!IsInjective(p), NEW a \in D \union {k}, NEW b \in D \union {k},
             q[a] = q[b]
      PROVE  a = b
  <2>1. a \in D /\ b \in D => p[a] = p[b]
    BY <1>2
  <2>2. a \in D /\ b \in D => a = b
    BY <1>2, <2>1 DEF Photo!IsInjective
  <2>3. a = k /\ b \in D => FALSE
    BY <1>2
  <2>4. b = k /\ a \in D => FALSE
    BY <1>2
  <2> QED BY <2>2, <2>3, <2>4
<1> QED BY <1>1, <1>2 DEF Photo!IsInjective

LEMMA StoreKeeps ==
    ASSUME PhotosInv, NEW c \in AnyCalls, Photo!Store(c)
    PROVE  PhotosInv'
<1> DEFINE k == editing[c].key
           n == editing[c].last + 1
<1>1. editing[c] \in Uploading /\ k \in PhotoKeys
  BY DEF Photo!Store, PhotosInv, PhotosTyped, Records, Uploading, Arranging, SettingApart,
     Photo!Idle
<1>2. editing[c].last = Photo!Highest(photo)
          /\ \A d \in AnyCalls \ {c} : editing[d].step # "locked"
  BY DEF Photo!Store, PhotosInv, CallFits, LockHolds
<1>3. editing' \in [AnyCalls -> Records] /\ \A d \in AnyCalls : CallFits(d)'
  BY <1>2, CommitKeeps DEF Photo!Store
<1>4. /\ photo \in [DOMAIN photo -> Nat] /\ DOMAIN photo \subseteq stored
      /\ stored \subseteq PhotoKeys /\ IsFiniteSet(stored)
  BY DEF PhotosInv, PhotosTyped, Photo!PhotosInOrder
<1>5. /\ photo' = [x \in DOMAIN photo \union {k} |-> IF x = k THEN n ELSE photo[x]]
      /\ stored' = stored \union {k} /\ k \notin stored
      /\ avatar' \in Photo!Firsts(photo')
      /\ disorder' = disorder
  BY DEF Photo!Store
<1>6. n \in Nat /\ \A x \in DOMAIN photo : photo[x] < n
  BY <1>2, <1>4, PhotosAreFinite, HighestIsGreatest
<1> HIDE DEF k, n
<1>7. /\ photo' \in [DOMAIN photo \union {k} -> Nat]
      /\ Photo!IsInjective(photo) => Photo!IsInjective(photo')
  BY <1>4, <1>5, <1>6, BehindIsAlone
<1>8. IsFiniteSet(stored')
  BY <1>4, <1>5, FS_AddElement
<1>9. PhotosTyped'
  BY <1>1, <1>3, <1>4, <1>5, <1>7, <1>8 DEF PhotosTyped
<1>10. avatar' = Photo!None \/ avatar' \in DOMAIN photo'
  BY <1>5, FirstsFit
<1>11. Photo!PhotosInOrder'
  BY <1>4, <1>5, <1>7, <1>10 DEF PhotosInv, Photo!PhotosInOrder
<1> QED BY <1>3, <1>9, <1>11 DEF PhotosInv

LEMMA UploadKeeps ==
    ASSUME PhotosInv, NEW c \in AnyCalls, Photo!Upload(c)
    PROVE  PhotosInv'
<1> DEFINE k == editing[c].key
<1>1. k \in PhotoKeys
  BY DEF Photo!Upload, PhotosInv, PhotosTyped, Records, Uploading, Arranging, SettingApart,
     Photo!Idle
<1>2. \A d \in AnyCalls \ {c} : editing[d].step # "locked"
  BY DEF Photo!Upload, PhotosInv, CallFits, LockHolds
<1>3. editing' \in [AnyCalls -> Records] /\ \A d \in AnyCalls : CallFits(d)'
  BY <1>2, CommitKeeps DEF Photo!Upload
<1>4. /\ photo \in [DOMAIN photo -> Nat] /\ DOMAIN photo \subseteq stored
      /\ stored \subseteq PhotoKeys /\ IsFiniteSet(stored)
  BY DEF PhotosInv, PhotosTyped, Photo!PhotosInOrder
<1>5. /\ photo' = [x \in DOMAIN photo \union {k} |-> IF x = k THEN 0 ELSE photo[x] + 1]
      /\ stored' = stored \union {k} /\ k \notin stored
      /\ avatar' = k
      /\ disorder' = disorder
  BY DEF Photo!Upload
<1> HIDE DEF k
<1>6. /\ photo' \in [DOMAIN photo \union {k} -> Nat] /\ photo'[k] = 0
      /\ \A x \in DOMAIN photo : photo'[x] = photo[x] + 1
  BY <1>4, <1>5
<1>7. ASSUME Photo!IsInjective(photo) PROVE Photo!IsInjective(photo')
  <2> SUFFICES ASSUME NEW a \in DOMAIN photo', NEW b \in DOMAIN photo',
                      photo'[a] = photo'[b]
               PROVE  a = b
    BY DEF Photo!IsInjective
  <2>1. a \in DOMAIN photo /\ b \in DOMAIN photo => photo[a] = photo[b]
    BY <1>4, <1>6
  <2>2. a \in DOMAIN photo /\ b \in DOMAIN photo => a = b
    BY <1>7, <2>1 DEF Photo!IsInjective
  <2>3. a \notin DOMAIN photo => b \notin DOMAIN photo
    BY <1>4, <1>6
  <2>4. b \notin DOMAIN photo => a \notin DOMAIN photo
    BY <1>4, <1>6
  <2> QED BY <1>6, <2>2, <2>3, <2>4
<1>8. avatar' \in Photo!Firsts(photo')
  BY <1>5, <1>6 DEF Photo!Firsts
<1>9. IsFiniteSet(stored')
  BY <1>4, <1>5, FS_AddElement
<1>10. PhotosTyped'
  BY <1>1, <1>3, <1>4, <1>5, <1>6, <1>9 DEF PhotosTyped
<1>11. Photo!PhotosInOrder'
  BY <1>4, <1>5, <1>6, <1>7, <1>8 DEF PhotosInv, Photo!PhotosInOrder
<1> QED BY <1>3, <1>10, <1>11 DEF PhotosInv

LEMMA SyncKeeps ==
    ASSUME PhotosInv, NEW c \in AnyCalls, Photo!Sync(c)
    PROVE  PhotosInv'
<1>1. editing[c] \in Arranging
  BY DEF Photo!Sync, PhotosInv, PhotosTyped, Records, Uploading, SettingApart, Photo!Idle
<1>2. \A d \in AnyCalls \ {c} : editing[d].step # "locked"
  BY DEF Photo!Sync, Photo!Locked
<1>3. editing' \in [AnyCalls -> Records] /\ \A d \in AnyCalls : CallFits(d)'
  BY <1>2, CommitKeeps DEF Photo!Sync
<1>4. /\ photo \in [DOMAIN photo -> Nat] /\ DOMAIN photo \subseteq stored
      /\ stored \subseteq PhotoKeys /\ IsFiniteSet(stored)
  BY DEF PhotosInv, PhotosTyped, Photo!PhotosInOrder
<1>5. CallFits(c)
  BY DEF PhotosInv
<1>6. photo' = Arranged(c) /\ stored' = stored \ Photo!Gone(c) /\ avatar' = editing[c].first
  BY DEF Photo!Sync, Arranged
<1>7. photo' \in [DOMAIN photo \ Photo!Gone(c) -> Nat]
  <2>1. editing[c].order \in [DOMAIN editing[c].order -> Nat]
    BY <1>5 DEF CallFits, ListFits, Photo!Sync
  <2> QED BY <1>4, <1>6, <2>1 DEF Arranged, Photo!Over
<1>8. PhotosTyped'
  <2>1. IsFiniteSet(stored')
    BY <1>4, <1>6, FS_Subset
  <2> QED BY <1>3, <1>4, <1>6, <1>7, <2>1 DEF PhotosTyped
<1>9. avatar' = Photo!None \/ avatar' \in stored'
  <2>1. avatar' = Photo!None \/ avatar' \notin Photo!Gone(c)
    BY <1>5, <1>6 DEF CallFits, ListFits, Photo!Gone, Photo!Sync
  <2> QED BY <1>6, <2>1 DEF Photo!Sync
<1>10. doubt' \/ avatar' \in Photo!Firsts(photo')
  BY <1>5, <1>6 DEF Photo!Sync, CallFits, ReadingFits
<1>11. disorder' \/ Photo!IsInjective(photo')
  BY <1>5, <1>6 DEF Photo!Sync, CallFits, ReadingFits
<1>12. Photo!PhotosInOrder'
  BY <1>4, <1>6, <1>7, <1>9, <1>10, <1>11 DEF Photo!PhotosInOrder
<1> QED BY <1>3, <1>8, <1>12 DEF PhotosInv

(* Whatever a call writes is a numbering, and of all photos left unless     *)
(* something has come between.                                              *)
LEMMA PickNumbers ==
    ASSUME PhotosInv, NEW c \in AnyCalls, editing[c] \in Arranging,
           editing[c].step = "read",
           Photo!Range(editing[c].order) \union Photo!Gone(c) \subseteq DOMAIN photo,
           NEW w \in Photo!Numberings(c)
    PROVE  /\ w \in [DOMAIN w -> Nat] /\ Photo!IsInjective(w)
           /\ DOMAIN w \subseteq PhotoKeys
           /\ editing[c].alone => DOMAIN w = DOMAIN photo \ Photo!Gone(c)
<1>1. CallFits(c)
  BY DEF PhotosInv
<1>2. IsFiniteSet(DOMAIN photo) /\ DOMAIN photo \subseteq PhotoKeys
  BY PhotosAreFinite
<1>3. CASE editing[c].op = "order"
  <2>1. w = Photo!Numbered(editing[c].order) /\ Photo!Gone(c) = {}
    BY <1>3 DEF Photo!Numberings, Photo!Gone
  <2>2. editing[c].order \in Seq(PhotoKeys)
    BY <1>1 DEF CallFits, ListFits
  <2>3. w \in [Photo!Range(editing[c].order) -> Nat] /\ Photo!IsInjective(w)
    BY <2>1, <2>2, NumberingNumbers
  <2>4. editing[c].alone => Photo!Range(editing[c].order) = DOMAIN photo
    BY <1>1, <1>3 DEF CallFits, ReadingFits
  <2> QED BY <1>2, <2>1, <2>3, <2>4
<1>4. CASE editing[c].op = "delete"
  <2> DEFINE K == DOMAIN photo \ Photo!Gone(c)
  <2>1. PICK s \in Photo!SetToSeqs(K) : w = Photo!Numbered(s)
    BY <1>4 DEF Photo!Numberings, Photo!Orders
  <2>2. IsFiniteSet(K)
    BY <1>2, FS_Subset
  <2> HIDE DEF K
  <2>3. s \in Seq(K) /\ Photo!Range(s) = K
    BY <2>1, <2>2, ListHoldsAll
  <2>4. w \in [K -> Nat] /\ Photo!IsInjective(w)
    BY <2>1, <2>3, NumberingNumbers
  <2> QED BY <1>2, <2>4 DEF K
<1> QED BY <1>3, <1>4 DEF Arranging

LEMMA PickKeeps ==
    ASSUME PhotosInv, NEW c \in AnyCalls, Photo!Pick(c)
    PROVE  PhotosInv'
<1> DEFINE K == DOMAIN photo \ Photo!Gone(c)
           rows == IF editing[c].op
               = "delete" THEN DOMAIN photo ELSE Photo!Range(editing[c].order)
<1>1. PICK w \in Photo!Numberings(c) : \E first \in Photo!Firsts(Photo!Over(w, K)) :
          editing' = [editing EXCEPT ![c].step = "picked", ![c].rows = rows,
                               ![c].first = first, ![c].order = w]
  BY Zenon DEF Photo!Pick
<1>2. PICK first \in Photo!Firsts(Photo!Over(w, K)) :
          editing' = [editing EXCEPT ![c].step = "picked", ![c].rows = rows,
                               ![c].first = first, ![c].order = w]
  BY Zenon, <1>1
<1> DEFINE r == [editing[c] EXCEPT !.step = "picked", !.rows = rows, !.first
        = first, !.order = w]
<1>3. editing[c] \in Arranging /\ editing[c].step = "read"
  BY DEF Photo!Pick, PhotosInv, PhotosTyped, Records, Uploading, SettingApart, Photo!Idle
<1>4. /\ w \in [DOMAIN w -> Nat] /\ Photo!IsInjective(w) /\ DOMAIN w \subseteq PhotoKeys
      /\ editing[c].alone => DOMAIN w = K
  BY <1>3, PickNumbers DEF Photo!Pick
<1>5. first = Photo!None \/ first \in K
  BY <1>2, FirstsFit DEF Photo!Over
<1>6. DOMAIN photo \subseteq PhotoKeys /\ rows \subseteq PhotoKeys
  BY PhotosAreFinite DEF Photo!Pick
<1>7. r \in Arranging
  <2>1. w \in UNION {[S -> Nat] : S \in SUBSET PhotoKeys}
    BY <1>4
  <2>2. first \in PhotoKeys \union {Photo!None}
    BY <1>5, <1>6
  <2> HIDE DEF rows
  <2> QED BY <1>3, <1>6, <2>1, <2>2 DEF Arranging
<1>8. /\ r.step = "picked" /\ r.order = w /\ r.first = first
      /\ r.op = editing[c].op /\ r.key = editing[c].key /\ r.alone = editing[c].alone
  BY <1>3 DEF Arranging
<1>9. editing' = [editing EXCEPT ![c] = r]
  BY <1>2 DEF PhotosInv, PhotosTyped
<1> HIDE DEF r, rows
<1>10. UNCHANGED <<stored, photo, avatar, apart, doubt, disorder>>
  BY DEF Photo!Pick, Photo!history
<1>11. editing'[c] = r
  BY <1>9 DEF PhotosInv, PhotosTyped
<1>12. Arranged(c)' = Photo!Over(w, K)
  BY <1>8, <1>10, <1>11 DEF Arranged, Photo!Over, Photo!Gone
<1>13. ASSUME editing[c].alone PROVE Photo!IsInjective(Photo!Over(w, K))
  BY <1>4, <1>13 DEF Photo!Over, Photo!IsInjective
<1>14. ListFits(c)'
  BY <1>4, <1>5, <1>8, <1>11 DEF ListFits, Photo!Gone
<1>15. ReadingFits(c)'
  BY <1>2, <1>8, <1>11, <1>12, <1>13 DEF ReadingFits, Photo!Firsts
<1>16. CallFits(c)'
  BY <1>8, <1>11, <1>14, <1>15 DEF CallFits, LockHolds
<1>17. r \in Records /\ r.step # "locked"
  BY <1>7, <1>8 DEF Records
<1>18. editing' \in [AnyCalls -> Records] /\ \A d \in AnyCalls : CallFits(d)'
  BY <1>9, <1>10, <1>16, <1>17, OthersStay
<1> QED BY <1>10, <1>18, PhotosQuiet

LEMMA PhotoStepKeeps ==
    ASSUME PhotosInv, [Photo!Next]_Photo!vars
    PROVE  PhotosInv'
<1>1. CASE UNCHANGED Photo!vars
  <2>1. PhotosTyped' /\ Photo!PhotosInOrder'
    BY <1>1 DEF Photo!vars, PhotosInv, PhotosTyped, Photo!PhotosInOrder, Photo!Firsts
  <2>2. \A c \in AnyCalls : CallFits(c)'
    <3> TAKE c \in AnyCalls
    <3>1. CallFits(c) /\ UNCHANGED <<photo, editing>>
      BY <1>1 DEF Photo!vars, PhotosInv
    <3>2. LockHolds(c)'
      BY <3>1 DEF CallFits, LockHolds, Photo!Highest
    <3>3. ListFits(c)'
      BY <3>1 DEF CallFits, ListFits
    <3>4. ReadingFits(c)'
      BY <3>1 DEF CallFits, ReadingFits, Arranged, Photo!Over, Photo!Gone, Photo!Firsts
    <3> QED BY <3>2, <3>3, <3>4 DEF CallFits
  <2> QED BY <2>1, <2>2 DEF PhotosInv
<1>2. ASSUME NEW c \in AnyCalls, NEW k \in PhotoKeys,
             \/ Photo!BeginStore(c, k) \/ Photo!BeginUpload(c, k)
                   \/ Photo!BeginPrimary(c, k)
             \/ Photo!BeginDelete(c, k) \/ Photo!BeginAvatar(c, k)
      PROVE  PhotosInv'
  BY <1>2, UploadBegins, PrimaryBegins, DeleteBegins
<1>3. ASSUME NEW c \in AnyCalls, NEW s \in Photo!SetToSeqs(DOMAIN photo),
             Photo!BeginReorder(c, s)
      PROVE  PhotosInv'
  BY <1>3, ReorderBegins
<1>4. ASSUME NEW c \in AnyCalls,
             Photo!Lock(c) \/ Photo!Store(c) \/ Photo!Upload(c) \/ Photo!Pick(c)
                 \/ Photo!Sync(c)
      PROVE  PhotosInv'
  BY <1>4, LockKeeps, StoreKeeps, UploadKeeps, PickKeeps, SyncKeeps DEF Photo!Lock
<1>5. ASSUME NEW c \in AnyCalls, Photo!CreateAsset(c) \/ Photo!SetAvatar(c) \/ Photo!Fail(c)
      PROVE  PhotosInv'
  BY <1>5, CreateAssetKeeps, SetAvatarKeeps, FailKeeps
<1> QED BY <1>1, <1>2, <1>3, <1>4, <1>5 DEF Photo!Next

LEMMA PhotoSteps ==
    ASSUME focus = "photo", [Next]_<<focus, everything>>
    PROVE  [Photo!Next]_Photo!vars
<1>1. CASE UNCHANGED <<focus, everything>>
  BY <1>1 DEF everything, Photo!vars
<1>2. CASE Next
  BY <1>2 DEF Next
<1> QED BY <1>1, <1>2

LEMMA PhotosKept == Spec => [](focus = "photo" => PhotosInv)
<1>1. Init => (focus = "photo" => PhotosInv)
  BY PhotosBegins DEF Init
<1>2. (focus = "photo" => PhotosInv) /\ [Next]_<<focus, everything>>
        => (focus = "photo" => PhotosInv)'
  <2> SUFFICES ASSUME focus = "photo" => PhotosInv, [Next]_<<focus, everything>>,
                      focus' = "photo"
               PROVE  PhotosInv'
    OBVIOUS
  <2>1. focus = "photo" /\ PhotosInv
    BY DEF Next
  <2>2. [Photo!Next]_Photo!vars
    BY <2>1, PhotoSteps
  <2> QED BY <2>1, <2>2, PhotoStepKeeps
<1> QED BY <1>1, <1>2, PTL DEF Spec

(* The photos of a profile have an order and its first is the avatar, until  *)
(* calls that overlapped have said otherwise.                                *)
THEOREM PhotosStayInOrder == Spec => []PhotosInOrder
<1>1. (focus = "photo" => PhotosInv) => PhotosInOrder
  BY DEF PhotosInOrder, PhotosInv
<1> QED BY <1>1, PhotosKept, PTL

-----------------------------------------------------------------------------
(* The verification of a user, for any assets and calls.                     *)

submitted == v1
record == v2
verified == v3
notice == v4
trials == v5
checking == v6
expired == v8
overtaken == v9
USE DEF submitted, record, verified, notice, trials, checking, expired,
        overtaken

-----------------------------------------------------------------------------
Rows == [status : Review!Statuses, selfieDone : BOOLEAN,
         selfie : Review!Assets \union {Review!None},
         document : Review!Assets \union {Review!None}]

Reviews ==
    [op : {"submit"}, saw : Rows, asset : Review!Assets]
        \union [op : {"approve", "return"}, saw : Rows, already : BOOLEAN]
        \union [op : {"clean"}, assets : SUBSET Review!Assets]
        \union {Review!Idle}

ReviewTyped ==
    /\ submitted \subseteq Review!Assets
    /\ record \in Rows
    /\ verified \in BOOLEAN /\ notice \in BOOLEAN /\ overtaken \in BOOLEAN
    /\ trials \in Nat /\ expired \in Nat
    /\ checking \in [AnyCalls -> Reviews]

(* A trial is one that the notice tells of, or one whose notice expired.    *)
TrialsTold == trials <= expired + (IF notice THEN 1 ELSE 0)

(* Who submits has seen a row that may be submitted to.                     *)
SubmitsFit ==
    \A c \in AnyCalls : checking[c].op = "submit" =>
        /\ checking[c].saw.status \notin {"verified", "under_review"}
        /\ checking[c].asset \in Documents => checking[c].saw.selfie # Review!None

RowsKept == {record.selfie, record.document} \ {Review!None} \subseteq submitted

(* While nothing was overtaken, the user is verified when the row says so.  *)
Agreed ==
    \/ overtaken
    \/ /\ verified <=> record.status = "verified"
       /\ record.status = "verified"
             => record.selfie = Review!None /\ record.document = Review!None
       /\ record.status = "under_review"
             => record.selfie # Review!None /\ record.document # Review!None

ReviewInv == ReviewTyped /\ TrialsTold /\ SubmitsFit /\ RowsKept /\ Agreed

-----------------------------------------------------------------------------
LEMMA ReviewHoldsFollows ==
    ASSUME ReviewInv PROVE Review!ReviewHolds
<1>1. trials <= 1 + expired
  BY DEF ReviewInv, TrialsTold, ReviewTyped
<1> QED BY <1>1 DEF ReviewInv, RowsKept, Agreed, Review!ReviewHolds

LEMMA ReviewBegins ==
    ASSUME Review!Init PROVE ReviewInv
<1>1. checking \in [AnyCalls -> Reviews] /\ \A c \in AnyCalls : checking[c].op = "idle"
  BY DEF Review!Init, Reviews, Review!Idle
<1>2. record \in Rows
  BY DEF Review!Init, Review!NotStarted, Rows, Review!Statuses
<1>3. ReviewTyped
  BY <1>1, <1>2 DEF Review!Init, ReviewTyped
<1>4. TrialsTold
  BY DEF Review!Init, TrialsTold
<1>5. SubmitsFit
  BY <1>1 DEF SubmitsFit
<1> QED BY <1>3, <1>4, <1>5 DEF ReviewInv, RowsKept, Agreed, Review!Init, Review!NotStarted

(* A call begins or ends, and nothing else happens.                         *)
LEMMA CallStepKeeps ==
    ASSUME ReviewInv, NEW c \in AnyCalls, NEW r \in Reviews,
           checking' = [checking EXCEPT ![c] = r],
           r.op = "submit" =>
               /\ r.saw.status \notin {"verified", "under_review"}
               /\ r.asset \in Documents => r.saw.selfie # Review!None
    PROVE  checking' \in [AnyCalls -> Reviews] /\ SubmitsFit'
<1>1. checking' \in [AnyCalls -> Reviews]
  BY DEF ReviewInv, ReviewTyped
<1>2. \A d \in AnyCalls : checking'[d] = IF d = c THEN r ELSE checking[d]
  BY DEF ReviewInv, ReviewTyped
<1> QED BY <1>1, <1>2 DEF ReviewInv, SubmitsFit

LEMMA ReviewQuiet ==
    ASSUME ReviewInv, checking' \in [AnyCalls -> Reviews], SubmitsFit',
           UNCHANGED <<submitted, record, verified, notice, trials, expired, overtaken>>
    PROVE  ReviewInv'
<1>1. ReviewTyped'
  BY DEF ReviewInv, ReviewTyped
<1> QED BY <1>1 DEF ReviewInv, TrialsTold, RowsKept, Agreed

LEMMA SubmitBegins ==
    ASSUME ReviewInv, NEW c \in AnyCalls, NEW a \in Review!Assets,
           Review!BeginSubmit(c, a), Review!MaySubmit(a)
    PROVE  ReviewInv'
<1> DEFINE r == [op |-> "submit", saw |-> record, asset |-> a]
<1>1. r \in Reviews
  BY DEF Reviews, ReviewInv, ReviewTyped
<1>2. checking' = [checking EXCEPT ![c] = r]
  BY DEF Review!BeginSubmit, Review!Begin
<1>3. r.saw.status \notin {"verified", "under_review"} /\ (r.asset \in Documents =>
          r.saw.selfie # Review!None)
  BY DEF Review!MaySubmit
<1> HIDE DEF r
<1>4. checking' \in [AnyCalls -> Reviews] /\ SubmitsFit'
  BY <1>1, <1>2, <1>3, CallStepKeeps
<1>5. UNCHANGED <<submitted, record, verified, notice, trials, expired, overtaken>>
  BY DEF Review!BeginSubmit, Review!Begin
<1> QED BY <1>4, <1>5, ReviewQuiet

LEMMA LookBegins ==
    ASSUME ReviewInv, NEW c \in AnyCalls, NEW op \in {"approve", "return"},
           Review!BeginReview(c, op)
    PROVE  ReviewInv'
<1>1. PICK e \in BOOLEAN : e = (verified /\ record.status = "verified")
  OBVIOUS
<1> DEFINE r == [op |-> op, saw |-> record, already |-> e]
<1>2. r \in Reviews /\ r.op # "submit"
  BY DEF Reviews, ReviewInv, ReviewTyped
<1>3. checking' = [checking EXCEPT ![c] = r]
  BY <1>1 DEF Review!BeginReview, Review!Begin
<1> HIDE DEF r
<1>4. checking' \in [AnyCalls -> Reviews] /\ SubmitsFit'
  BY <1>2, <1>3, CallStepKeeps
<1>5. UNCHANGED <<submitted, record, verified, notice, trials, expired, overtaken>>
  BY DEF Review!BeginReview, Review!Begin
<1> QED BY <1>4, <1>5, ReviewQuiet

LEMMA EndKeeps ==
    ASSUME ReviewInv, NEW c \in AnyCalls, checking' = [checking EXCEPT ![c] = Review!Idle]
    PROVE  checking' \in [AnyCalls -> Reviews] /\ SubmitsFit'
<1>1. Review!Idle \in Reviews /\ Review!Idle.op = "idle"
  BY DEF Review!Idle, Reviews
<1> QED BY <1>1, CallStepKeeps

LEMMA CleanKeeps ==
    ASSUME ReviewInv, NEW c \in AnyCalls, Review!Clean(c),
           checking[c].op \in {"approve", "return"}
    PROVE  checking' \in [AnyCalls -> Reviews] /\ SubmitsFit'
<1> DEFINE r == [op |-> "clean", assets |-> Review!Seen(c)]
<1>1. checking[c].saw \in Rows
  BY DEF ReviewInv, ReviewTyped, Reviews, Review!Idle
<1>2. Review!Seen(c) \subseteq Review!Assets
  BY <1>1 DEF Review!Seen, Rows
<1>3. r \in Reviews /\ r.op = "clean"
  BY <1>2 DEF Reviews
<1>4. checking' = [checking EXCEPT ![c] = r]
  BY DEF Review!Clean
<1> HIDE DEF r
<1> QED BY <1>3, <1>4, CallStepKeeps

LEMMA StoreAssetKeeps ==
    ASSUME ReviewInv, NEW a \in Review!Assets, Review!StoreAsset(a)
    PROVE  ReviewInv'
<1>1. ReviewTyped'
  BY DEF ReviewInv, ReviewTyped, Review!StoreAsset
<1>2. TrialsTold' /\ SubmitsFit' /\ Agreed'
  BY DEF ReviewInv, TrialsTold, SubmitsFit, Agreed, Review!StoreAsset
<1>3. RowsKept'
  BY DEF ReviewInv, RowsKept, Review!StoreAsset
<1> QED BY <1>1, <1>2, <1>3 DEF ReviewInv

LEMMA OvertakenIsKnown ==
    ASSUME ReviewInv, NEW c \in AnyCalls, Review!Overtaken(c)
    PROVE  overtaken' \in BOOLEAN /\ (overtaken' \/ (~overtaken
           /\ record = checking[c].saw))
BY DEF Review!Overtaken, ReviewInv, ReviewTyped

LEMMA SubmitKeeps ==
    ASSUME ReviewInv, NEW c \in AnyCalls, Review!Submit(c)
    PROVE  ReviewInv'
<1> DEFINE a == checking[c].asset
<1>1. checking[c].saw \in Rows /\ a \in Review!Assets /\ a \in submitted
  BY DEF ReviewInv, ReviewTyped, Reviews, Review!Idle, Review!Submit
<1>2. record' = Review!Submitted(a)
  BY DEF Review!Submit
<1>3. checking' \in [AnyCalls -> Reviews] /\ SubmitsFit'
  BY EndKeeps DEF Review!Submit
<1>4. UNCHANGED <<submitted, verified, notice, trials, expired>>
  BY DEF Review!Submit
<1>5. overtaken' \in BOOLEAN /\ (overtaken' \/ (~overtaken /\ record = checking[c].saw))
  BY OvertakenIsKnown DEF Review!Submit
<1>6. /\ checking[c].saw.status \notin {"verified", "under_review"}
      /\ a \in Documents => checking[c].saw.selfie # Review!None
  BY DEF ReviewInv, SubmitsFit, Review!Submit
<1> HIDE DEF a
<1>7. CASE a \in Selfies
  <2>1. record' = [status |-> "selfie_submitted", selfieDone |-> TRUE, selfie |-> a,
                   document |-> Review!None]
    BY <1>2, <1>7 DEF Review!Submitted
  <2>2. record' \in Rows /\ record'.status = "selfie_submitted" /\ record'.selfie = a
            /\ record'.document = Review!None
    BY <1>1, <2>1 DEF Rows, Review!Statuses
  <2>3. ReviewTyped'
    BY <1>3, <1>4, <1>5, <2>2 DEF ReviewInv, ReviewTyped
  <2>4. TrialsTold' /\ RowsKept'
    BY <1>1, <1>4, <2>2 DEF ReviewInv, TrialsTold, RowsKept
  <2>5. Agreed'
    BY <1>4, <1>5, <1>6, <2>2 DEF ReviewInv, Agreed
  <2> QED BY <1>3, <2>3, <2>4, <2>5 DEF ReviewInv
<1>8. CASE a \notin Selfies
  <2>1. record' = [record EXCEPT !.status = "under_review", !.selfieDone
            = TRUE, !.document = a]
    BY <1>2, <1>8 DEF Review!Submitted
  <2>2. /\ record' \in Rows /\ record'.status = "under_review"
        /\ record'.selfie = record.selfie /\ record'.document = a
    BY <1>1, <2>1 DEF ReviewInv, ReviewTyped, Rows, Review!Statuses
  <2>3. ReviewTyped'
    BY <1>3, <1>4, <1>5, <2>2 DEF ReviewInv, ReviewTyped
  <2>4. TrialsTold' /\ RowsKept'
    BY <1>1, <1>4, <2>2 DEF ReviewInv, TrialsTold, RowsKept
  <2>5. a \in Documents /\ a # Review!None
    BY NoneIsNoAsset, <1>1, <1>8 DEF Review!Assets, Review!None
  <2>6. Agreed'
    BY <1>4, <1>5, <1>6, <2>2, <2>5 DEF ReviewInv, Agreed
  <2> QED BY <1>3, <2>3, <2>4, <2>6 DEF ReviewInv
<1> QED BY <1>7, <1>8

LEMMA ApproveAgainKeeps ==
    ASSUME ReviewInv, NEW c \in AnyCalls, Review!ApproveAgain(c)
    PROVE  ReviewInv'
<1>1. checking' \in [AnyCalls -> Reviews] /\ SubmitsFit'
  BY CleanKeeps DEF Review!ApproveAgain
<1>2. UNCHANGED <<submitted, record, verified, notice, trials, expired, overtaken>>
  BY DEF Review!ApproveAgain
<1> QED BY <1>1, <1>2, ReviewQuiet

LEMMA ApproveKeeps ==
    ASSUME ReviewInv, NEW c \in AnyCalls, Review!Approve(c), Review!NoticeFree
    PROVE  ReviewInv'
<1>1. checking' \in [AnyCalls -> Reviews] /\ SubmitsFit'
  BY CleanKeeps DEF Review!Approve
<1>2. record' = [status |-> "verified", selfieDone |-> TRUE, selfie |-> Review!None,
                 document |-> Review!None]
  BY DEF Review!Approve
<1>3. /\ record' \in Rows /\ record'.status = "verified"
      /\ record'.selfie = Review!None /\ record'.document = Review!None
  BY <1>2 DEF Rows, Review!Statuses
<1>4. overtaken' \in BOOLEAN
  BY OvertakenIsKnown DEF Review!Approve
<1>5. ReviewTyped'
  BY <1>1, <1>3, <1>4 DEF ReviewInv, ReviewTyped, Review!Approve
<1>6. TrialsTold'
  BY DEF ReviewInv, ReviewTyped, TrialsTold, Review!Approve, Review!NoticeFree
<1>7. RowsKept' /\ Agreed'
  BY <1>3 DEF RowsKept, Agreed, Review!Approve
<1> QED BY <1>1, <1>5, <1>6, <1>7 DEF ReviewInv

LEMMA ReturnKeeps ==
    ASSUME ReviewInv, NEW c \in AnyCalls, Review!Return(c)
    PROVE  ReviewInv'
<1>1. checking' \in [AnyCalls -> Reviews] /\ SubmitsFit'
  BY CleanKeeps DEF Review!Return
<1>2. /\ record' \in Rows /\ record'.status = "not_started"
      /\ record'.selfie = Review!None /\ record'.document = Review!None
  BY DEF Rows, Review!Statuses, Review!Return, Review!NotStarted
<1>3. overtaken' \in BOOLEAN
  BY OvertakenIsKnown DEF Review!Return
<1>4. ReviewTyped'
  BY <1>1, <1>2, <1>3 DEF ReviewInv, ReviewTyped, Review!Return
<1>5. TrialsTold'
  BY DEF ReviewInv, TrialsTold, Review!Return
<1>6. RowsKept' /\ Agreed'
  BY <1>2 DEF RowsKept, Agreed, Review!Return
<1> QED BY <1>1, <1>4, <1>5, <1>6 DEF ReviewInv

LEMMA DeleteAssetsKeeps ==
    ASSUME ReviewInv, NEW c \in AnyCalls, Review!DeleteAssets(c)
    PROVE  ReviewInv'
<1> DEFINE gone == checking[c].assets
           Keep(a) == IF a \in gone THEN Review!None ELSE a
<1>1. checking' \in [AnyCalls -> Reviews] /\ SubmitsFit'
  BY EndKeeps DEF Review!DeleteAssets
<1>2. record \in Rows
          /\ record' = [record EXCEPT !.selfie = Keep(record.selfie), !.document
                = Keep(record.document)]
  BY DEF ReviewInv, ReviewTyped, Review!DeleteAssets
<1>3. submitted' = submitted \ gone
  BY DEF Review!DeleteAssets
<1> HIDE DEF gone
<1>4. /\ record' \in Rows /\ record'.status = record.status
      /\ record'.selfie = Keep(record.selfie) /\ record'.document = Keep(record.document)
  BY <1>2 DEF Rows
<1>5. overtaken' = (overtaken \/ record' # record)
  BY DEF Review!DeleteAssets
<1>6. overtaken' \in BOOLEAN
  BY <1>5 DEF ReviewInv, ReviewTyped
<1>7. ReviewTyped'
  BY <1>1, <1>3, <1>4, <1>6 DEF ReviewInv, ReviewTyped, Review!DeleteAssets
<1>8. TrialsTold'
  BY DEF ReviewInv, TrialsTold, Review!DeleteAssets
<1>9. RowsKept'
  BY <1>3, <1>4 DEF ReviewInv, RowsKept
<1>10. Agreed'
  BY <1>5 DEF ReviewInv, Agreed, Review!DeleteAssets
<1> QED BY <1>1, <1>7, <1>8, <1>9, <1>10 DEF ReviewInv

LEMMA UnverifyKeeps ==
    ASSUME ReviewInv, Review!Unverify
    PROVE  ReviewInv'
<1>1. record \in Rows /\ record' = [record EXCEPT !.status = "not_started"]
  BY DEF ReviewInv, ReviewTyped, Review!Unverify
<1>2. /\ record' \in Rows /\ record'.status = "not_started"
      /\ record'.selfie = record.selfie /\ record'.document = record.document
  BY <1>1 DEF Rows, Review!Statuses
<1>3. ReviewTyped'
  BY <1>2 DEF ReviewInv, ReviewTyped, Review!Unverify
<1>4. TrialsTold' /\ SubmitsFit'
  BY DEF ReviewInv, TrialsTold, SubmitsFit, Review!Unverify
<1>5. RowsKept' /\ Agreed'
  BY <1>2 DEF ReviewInv, RowsKept, Agreed, Review!Unverify
<1> QED BY <1>3, <1>4, <1>5 DEF ReviewInv

LEMMA ExpireKeeps ==
    ASSUME ReviewInv, Review!ExpireNotice
    PROVE  ReviewInv'
<1>1. ReviewTyped'
  <2>1. expired' \in Nat
    BY DEF ReviewInv, ReviewTyped, Review!ExpireNotice
  <2>2. notice' \in BOOLEAN
    BY DEF Review!ExpireNotice
  <2> QED BY <2>1, <2>2 DEF ReviewInv, ReviewTyped, Review!ExpireNotice
<1>2. TrialsTold'
  BY DEF ReviewInv, ReviewTyped, TrialsTold, Review!ExpireNotice
<1>3. SubmitsFit' /\ RowsKept' /\ Agreed'
  BY DEF ReviewInv, SubmitsFit, RowsKept, Agreed, Review!ExpireNotice
<1> QED BY <1>1, <1>2, <1>3 DEF ReviewInv

LEMMA FailedKeeps ==
    ASSUME ReviewInv, NEW c \in AnyCalls, Review!Fail(c)
    PROVE  ReviewInv'
<1>1. checking' \in [AnyCalls -> Reviews] /\ SubmitsFit'
  BY EndKeeps DEF Review!Fail
<1>2. UNCHANGED <<submitted, record, verified, notice, trials, expired, overtaken>>
  BY DEF Review!Fail
<1> QED BY <1>1, <1>2, ReviewQuiet

LEMMA ReviewStepKeeps ==
    ASSUME ReviewInv, [Review!Next]_Review!vars
    PROVE  ReviewInv'
<1>1. CASE UNCHANGED Review!vars
  <2>1. ReviewTyped' /\ SubmitsFit'
    BY <1>1 DEF Review!vars, ReviewInv, ReviewTyped, SubmitsFit
  <2> QED BY <1>1, <2>1, ReviewQuiet DEF Review!vars, ReviewTyped
<1>2. ASSUME NEW a \in Review!Assets, Review!StoreAsset(a) PROVE ReviewInv'
  BY <1>2, StoreAssetKeeps
<1>3. ASSUME NEW c \in AnyCalls, NEW a \in Review!Assets, Review!BeginSubmit(c, a)
      PROVE  ReviewInv'
  BY <1>3, SubmitBegins DEF Review!BeginSubmit
<1>4. ASSUME NEW c \in AnyCalls, NEW op \in {"approve", "return"}, Review!BeginReview(c, op)
      PROVE  ReviewInv'
  BY <1>4, LookBegins
<1>5. ASSUME NEW c \in AnyCalls,
             \/ Review!Submit(c) \/ Review!ApproveAgain(c) \/ Review!Approve(c)
                   \/ Review!Return(c)
             \/ Review!DeleteAssets(c) \/ Review!Fail(c)
      PROVE  ReviewInv'
  BY <1>5, SubmitKeeps, ApproveAgainKeeps, ApproveKeeps, ReturnKeeps, DeleteAssetsKeeps,
     FailedKeeps DEF Review!Approve
<1>6. CASE Review!Unverify \/ Review!ExpireNotice
  BY <1>6, UnverifyKeeps, ExpireKeeps
<1> QED BY <1>1, <1>2, <1>3, <1>4, <1>5, <1>6 DEF Review!Next

LEMMA ReviewSteps ==
    ASSUME focus = "review", [Next]_<<focus, everything>>
    PROVE  [Review!Next]_Review!vars
<1>1. CASE UNCHANGED <<focus, everything>>
  BY <1>1 DEF everything, Review!vars
<1>2. CASE Next
  BY <1>2 DEF Next
<1> QED BY <1>1, <1>2

LEMMA ReviewKept == Spec => [](focus = "review" => ReviewInv)
<1>1. Init => (focus = "review" => ReviewInv)
  BY ReviewBegins DEF Init
<1>2. (focus = "review" => ReviewInv) /\ [Next]_<<focus, everything>>
        => (focus = "review" => ReviewInv)'
  <2> SUFFICES ASSUME focus = "review" => ReviewInv, [Next]_<<focus, everything>>,
                      focus' = "review"
               PROVE  ReviewInv'
    OBVIOUS
  <2>1. focus = "review" /\ ReviewInv
    BY DEF Next
  <2>2. [Review!Next]_Review!vars
    BY <2>1, ReviewSteps
  <2> QED BY <2>1, <2>2, ReviewStepKeeps
<1> QED BY <1>1, <1>2, PTL DEF Spec

(* A review starts one trial, and a user is verified when it says so,        *)
(* whatever he submits and whoever reviews meanwhile.                        *)
THEOREM ReviewsHold == Spec => []ReviewHolds
<1>1. (focus = "review" => ReviewInv) => ReviewHolds
  BY ReviewHoldsFollows DEF ReviewHolds
<1> QED BY <1>1, ReviewKept, PTL

-----------------------------------------------------------------------------
(* Uploaded images, for any keys and calls.                                  *)

image == v1
whole == v2
pending == v3
completing == v4
scan == v5
missed == v9
USE DEF image, whole, pending, completing, scan, missed

-----------------------------------------------------------------------------
Completions == [at : {1, 2}, key : MediaKeys] \union {Media!Idle}

(* Each image has one row, and one that has its variants has a row.         *)
MediaTyped ==
    /\ image \in Seq(MediaKeys)
    /\ \A i, j \in 1 .. Len(image) : image[i] = image[j] => i = j
    /\ whole \subseteq Media!Range(image)
    /\ completing \in [AnyCalls -> Completions]

(* A call that has created the row is about to queue the event.             *)
Completing(k) == \E c \in AnyCalls : completing[c].at = 2 /\ completing[c].key = k

ImageFits(k) ==
    \/ k \in whole /\ k \notin missed
    \/ k \notin whole /\ (Completing(k) \/ k \in DOMAIN pending \/ k \in missed)

MediaInv == MediaTyped /\ \A k \in Media!Range(image) : ImageFits(k)

-----------------------------------------------------------------------------
LEMMA ImagesAccountedFollows ==
    ASSUME MediaInv PROVE Media!ImagesAccounted
<1> SUFFICES ASSUME NEW k \in Media!Range(image), Completing(k)
             PROVE  k \in Media!Queueing
  BY DEF MediaInv, ImageFits, Media!ImagesAccounted
<1>1. PICK c \in AnyCalls : completing[c].at = 2 /\ completing[c].key = k
  BY DEF Completing
<1>2. completing[c] # Media!Idle
  BY <1>1 DEF Media!Idle
<1> QED BY <1>1, <1>2 DEF Media!Queueing

LEMMA MediaBegins ==
    ASSUME Media!Init PROVE MediaInv
<1>1. image = <<>> /\ whole = {} /\ completing \in [AnyCalls -> Completions]
  BY DEF Media!Init, Completions
<1>2. image \in Seq(MediaKeys) /\ Len(image) = 0 /\ Media!Range(image) = {}
  BY <1>1 DEF Media!Range
<1> QED BY <1>1, <1>2 DEF MediaInv, MediaTyped

(* A row of its own for k, or none.                                         *)
LEMMA WithoutOne ==
    ASSUME MediaTyped, NEW k \in Media!Range(image)
    PROVE  /\ Media!Without(k) \in Seq(MediaKeys)
           /\ \A i,
                 j \in 1 .. Len(Media!Without(k)) : Media!Without(k)[i]
                     = Media!Without(k)[j] => i = j
           /\ Media!Range(Media!Without(k)) = Media!Range(image) \ {k}
<1> DEFINE n == Len(image)
           p == CHOOSE i \in DOMAIN image : image[i] = k
           a == SubSeq(image, 1, p - 1)
           b == SubSeq(image, p + 1, n)
           w == Media!Without(k)
<1>1. n \in Nat /\ DOMAIN image = 1 .. n /\ \A i \in 1 .. n : image[i] \in MediaKeys
  BY DEF MediaTyped
<1>2. p \in 1 .. n /\ image[p] = k
  BY <1>1 DEF Media!Range
<1>3. w = a \o b
  BY DEF Media!Without
<1> HIDE DEF p, n, w
<1>4. /\ a \in Seq(MediaKeys) /\ Len(a) = p - 1
      /\ \A i \in 1 .. p - 1 : a[i] = image[i]
  <2>1. \A i \in 1 .. p - 1 : image[i] \in MediaKeys
    BY <1>1, <1>2
  <2> QED BY <1>2, <2>1, SubSeqProperties
<1>5. /\ b \in Seq(MediaKeys) /\ Len(b) = n - p
      /\ \A i \in 1 .. n - p : b[i] = image[p + i]
  <2>1. \A i \in p + 1 .. n : image[i] \in MediaKeys
    BY <1>1, <1>2
  <2>2. /\ b \in Seq(MediaKeys) /\ Len(b) = IF p + 1 <= n THEN n - (p + 1) + 1 ELSE 0
        /\ \A i \in 1 .. n - (p + 1) + 1 : b[i] = image[(p + 1) + i - 1]
    BY <1>1, <1>2, <2>1, SubSeqProperties
  <2> QED BY <1>1, <1>2, <2>2
<1> HIDE DEF a, b
<1>6. /\ w \in Seq(MediaKeys) /\ Len(w) = n - 1
      /\ \A i \in 1 .. n - 1 : w[i] = IF i <= p - 1 THEN image[i] ELSE image[i + 1]
  <2>1. /\ w \in Seq(MediaKeys) /\ Len(w) = Len(a) + Len(b)
        /\ \A i \in 1 .. Len(a) + Len(b) : w[i]
              = IF i <= Len(a) THEN a[i] ELSE b[i - Len(a)]
    BY <1>3, <1>4, <1>5, ConcatProperties
  <2> QED BY <1>1, <1>2, <1>4, <1>5, <2>1
<1>7. \A i, j \in 1 .. n : image[i] = image[j] => i = j
  BY DEF MediaTyped, n
<1>8. \A i, j \in 1 .. n - 1 : w[i] = w[j] => i = j
  BY <1>1, <1>2, <1>6, <1>7
<1>9. Media!Range(image) = {image[i] : i \in 1 .. n}
          /\ Media!Range(w) = {w[i] : i \in 1 .. n - 1}
  BY <1>1, <1>6 DEF Media!Range
<1>10. Media!Range(w) \subseteq Media!Range(image) \ {k}
  BY <1>1, <1>2, <1>6, <1>7, <1>9
<1>11. ASSUME NEW x \in Media!Range(image) \ {k} PROVE x \in Media!Range(w)
  <2>1. PICK i \in 1 .. n : image[i] = x
    BY <1>9, <1>11
  <2>2. i # p
    BY <1>2, <1>11, <2>1
  <2>3. CASE i < p
    <3>1. i \in 1 .. n - 1 /\ w[i] = x
      BY <1>1, <1>2, <1>6, <2>1, <2>3
    <3> QED BY <1>9, <3>1
  <2>4. CASE i > p
    <3>1. i - 1 \in 1 .. n - 1 /\ w[i - 1] = x
      BY <1>1, <1>2, <1>6, <2>1, <2>4
    <3> QED BY <1>9, <3>1
  <2> QED BY <1>1, <1>2, <2>2, <2>3, <2>4
<1> QED BY <1>6, <1>8, <1>10, <1>11 DEF w

LEMMA OneMore ==
    ASSUME NEW s \in Seq(MediaKeys), NEW k \in MediaKeys, k \notin Media!Range(s),
           \A i, j \in 1 .. Len(s) : s[i] = s[j] => i = j
    PROVE  /\ Append(s, k) \in Seq(MediaKeys)
           /\ \A i, j \in 1 .. Len(Append(s, k)) : Append(s, k)[i] = Append(s, k)[j]
                 => i = j
           /\ Media!Range(Append(s, k)) = Media!Range(s) \union {k}
<1>1. /\ Append(s, k) \in Seq(MediaKeys) /\ Len(Append(s, k)) = Len(s) + 1
      /\ \A i \in 1 .. Len(s) : Append(s, k)[i] = s[i]
      /\ Append(s, k)[Len(s) + 1] = k
  OBVIOUS
<1>2. \A i \in 1 .. Len(s) : s[i] # k
  BY DEF Media!Range
<1>3. \A i, j \in 1 .. Len(Append(s, k)) : Append(s, k)[i] = Append(s, k)[j] => i = j
  BY <1>1, <1>2
<1>4. Media!Range(Append(s, k)) = Media!Range(s) \union {k}
  BY <1>1 DEF Media!Range
<1> QED BY <1>1, <1>3, <1>4

-----------------------------------------------------------------------------
(* A row of its own is added, taken away, or updated.                       *)

LEMMA RowKeys ==
    ASSUME MediaTyped PROVE Media!Range(image) \subseteq MediaKeys
BY DEF MediaTyped, Media!Range

LEMMA RowAdded ==
    ASSUME MediaTyped, NEW k \in MediaKeys, k \notin Media!Range(image),
           image' = Append(image, k),
           whole' = whole, completing' \in [AnyCalls -> Completions]
    PROVE  MediaTyped' /\ Media!Range(image') = Media!Range(image) \union {k}
<1>1. /\ image' \in Seq(MediaKeys)
      /\ \A i, j \in 1 .. Len(image') : image'[i] = image'[j] => i = j
      /\ Media!Range(image') = Media!Range(image) \union {k}
  BY OneMore DEF MediaTyped
<1> QED BY <1>1 DEF MediaTyped

LEMMA RowFinalized ==
    ASSUME MediaTyped, NEW k, NEW made \in BOOLEAN, Media!Finalized(k, made),
           Media!Variants(k, made) = IF made THEN whole \union {k} ELSE whole,
           completing' \in [AnyCalls -> Completions]
    PROVE  /\ MediaTyped' /\ Media!Range(image') = Media!Range(image)
           /\ IF k \notin Media!Range(image) THEN UNCHANGED <<whole, missed>>
              ELSE IF made THEN whole' = whole \union {k} /\ missed' = missed \ {k}
              ELSE whole' = whole /\ missed' = Media!Missed(k)
<1>1. CASE k \notin Media!Range(image)
  BY <1>1 DEF Media!Finalized, MediaTyped
<1>2. CASE k \in Media!Range(image)
  <2>1. /\ Media!Without(k) \in Seq(MediaKeys)
        /\ \A i,
              j \in 1 .. Len(Media!Without(k)) : Media!Without(k)[i]
                  = Media!Without(k)[j] => i = j
        /\ Media!Range(Media!Without(k)) = Media!Range(image) \ {k}
    BY <1>2, WithoutOne
  <2>2. image' = Append(Media!Without(k), k) /\ k \in MediaKeys
    BY <1>2, RowKeys DEF Media!Finalized
  <2>3. /\ image' \in Seq(MediaKeys)
        /\ \A i, j \in 1 .. Len(image') : image'[i] = image'[j] => i = j
        /\ Media!Range(image') = Media!Range(image)
    <3> DEFINE w == Media!Without(k)
    <3>1. k \notin Media!Range(w) /\ Media!Range(w) \union {k} = Media!Range(image)
      BY <1>2, <2>1
    <3>2. /\ w \in Seq(MediaKeys) /\ k \in MediaKeys /\ image' = Append(w, k)
          /\ \A i, j \in 1 .. Len(w) : w[i] = w[j] => i = j
      BY <2>1, <2>2
    <3> HIDE DEF w
    <3> QED BY <3>1, <3>2, OneMore
  <2>4. /\ whole' = IF made THEN whole \union {k} ELSE whole
        /\ missed' = IF made THEN missed \ {k} ELSE Media!Missed(k)
    BY <1>2 DEF Media!Finalized
  <2>5. whole' \subseteq Media!Range(image')
    BY <1>2, <2>3, <2>4 DEF MediaTyped
  <2> QED BY <1>2, <2>3, <2>4, <2>5 DEF MediaTyped
<1> QED BY <1>1, <1>2

(* An image that is finalized is accounted for without its event; others    *)
(* stay as they are.                                                        *)
LEMMA FinalizedKeeps ==
    ASSUME MediaInv, NEW k, NEW made \in BOOLEAN, Media!Finalized(k, made),
           Media!Variants(k, made) = IF made THEN whole \union {k} ELSE whole,
           UNCHANGED completing, DOMAIN pending \ {k} \subseteq DOMAIN pending'
    PROVE  MediaInv'
<1>1. MediaTyped /\ \A x \in Media!Range(image) : ImageFits(x)
  BY DEF MediaInv
<1>2. /\ MediaTyped' /\ Media!Range(image') = Media!Range(image)
      /\ IF k \notin Media!Range(image) THEN UNCHANGED <<whole, missed>>
         ELSE IF made THEN whole' = whole \union {k} /\ missed' = missed \ {k}
         ELSE whole' = whole /\ missed' = Media!Missed(k)
  BY <1>1, RowFinalized DEF MediaTyped
<1>3. \A x : Completing(x)' = Completing(x)
  BY DEF Completing
<1>4. ASSUME NEW x \in Media!Range(image) PROVE ImageFits(x)'
  <2>1. CASE x = k
    BY <1>1, <1>2, <1>4, <2>1 DEF ImageFits, Media!Missed
  <2>2. CASE x # k
    <3>1. (x \in whole' <=> x \in whole) /\ (x \in missed' <=> x \in missed)
      BY <1>2, <2>2 DEF Media!Missed
    <3>2. x \in DOMAIN pending => x \in DOMAIN pending'
      BY <2>2
    <3> QED BY <1>1, <1>3, <1>4, <3>1, <3>2 DEF ImageFits
  <2> QED BY <2>1, <2>2
<1> QED BY <1>2, <1>4 DEF MediaInv

(* A step that takes away neither an event nor a call that is to queue one. *)
LEMMA MediaQuiet ==
    ASSUME MediaInv, UNCHANGED <<image, whole, missed>>,
           completing' \in [AnyCalls -> Completions],
           DOMAIN pending \subseteq DOMAIN pending',
           \A k : Completing(k) => Completing(k)' \/ k \in DOMAIN pending'
    PROVE  MediaInv'
<1>1. MediaTyped'
  BY DEF MediaInv, MediaTyped
<1> QED BY <1>1 DEF MediaInv, ImageFits

LEMMA CallEnds ==
    ASSUME MediaInv, NEW c \in AnyCalls, NEW r \in Completions,
           completing' = [completing EXCEPT ![c] = r]
    PROVE  /\ completing' \in [AnyCalls -> Completions]
           /\ \A k : Completing(k)
                 => Completing(k)' \/ (completing[c].at = 2 /\ completing[c].key = k)
<1>1. completing \in [AnyCalls -> Completions]
  BY DEF MediaInv, MediaTyped
<1>2. completing' \in [AnyCalls -> Completions]
          /\ \A d \in AnyCalls \ {c} : completing'[d] = completing[d]
  BY <1>1
<1> QED BY <1>2 DEF Completing

LEMMA BeginCompleteKeeps ==
    ASSUME MediaInv, NEW c \in AnyCalls, NEW k \in MediaKeys, Media!BeginComplete(c, k)
    PROVE  MediaInv'
<1>1. [at |-> 1, key |-> k] \in Completions
  BY DEF Completions
<1>2. completing[c].at = 0
  BY DEF Media!BeginComplete, Media!Idle
<1> DEFINE r == [at |-> 1, key |-> k]
<1>3. completing' = [completing EXCEPT ![c] = r] /\ r \in Completions
  BY <1>1 DEF Media!BeginComplete
<1> HIDE DEF r
<1>4. /\ completing' \in [AnyCalls -> Completions]
      /\ \A x : Completing(x) => Completing(x)' \/ completing[c].at = 2
  BY <1>3, CallEnds
<1>5. \A x : Completing(x) => Completing(x)'
  BY <1>2, <1>4
<1> QED BY <1>4, <1>5, MediaQuiet DEF Media!BeginComplete

LEMMA CreateKeeps ==
    ASSUME MediaInv, NEW c \in AnyCalls, Media!Create(c), Media!Steps
           = <<"create", "queue">>
    PROVE  MediaInv'
<1> DEFINE r == [completing[c] EXCEPT !.at = @ + 1]
<1>0. PICK k : k = completing[c].key
  OBVIOUS
<1>1. completing[c] \in [at : {1, 2}, key : MediaKeys] /\ completing[c].at = 1
  BY DEF Media!Create, MediaInv, MediaTyped, Completions, Media!Idle
<1>2. completing' = [completing EXCEPT ![c] = r]
  <2>1. Len(Media!Steps) = 2
    OBVIOUS
  <2> QED BY <1>1, <2>1 DEF Media!Create, Media!Further
<1>3. r \in Completions /\ r.at = 2 /\ r.key = k
  BY <1>0, <1>1 DEF Completions
<1> HIDE DEF r
<1>4. /\ completing' \in [AnyCalls -> Completions]
      /\ \A x : Completing(x) => Completing(x)'
  <2>1. /\ completing' \in [AnyCalls -> Completions]
        /\ \A x : Completing(x) => Completing(x)' \/ completing[c].at = 2
    BY <1>2, <1>3, CallEnds
  <2> QED BY <1>1, <2>1
<1>5. completing'[c] = r
  BY <1>2 DEF MediaInv, MediaTyped
<1>6. Completing(k)'
  BY <1>3, <1>5 DEF Completing
<1>7. k \in MediaKeys /\ k \notin Media!Range(image) /\ image' = Append(image, k)
  BY <1>0, <1>1 DEF Media!Create
<1>8. UNCHANGED <<whole, pending, missed>>
  BY DEF Media!Create
<1>9. MediaTyped' /\ Media!Range(image') = Media!Range(image) \union {k}
  BY <1>4, <1>7, <1>8, RowAdded DEF MediaInv
<1>10. k \notin whole
  BY <1>7 DEF MediaInv, MediaTyped
<1>11. \A x \in Media!Range(image') : ImageFits(x)'
  <2> TAKE x \in Media!Range(image')
  <2>1. CASE x = k
    BY <1>6, <1>8, <1>10, <2>1 DEF ImageFits
  <2>2. CASE x # k
    <3>1. ImageFits(x)
      BY <1>9, <2>2 DEF MediaInv
    <3> QED BY <1>4, <1>8, <3>1 DEF ImageFits
  <2> QED BY <2>1, <2>2
<1> QED BY <1>9, <1>11 DEF MediaInv

LEMMA ExistingKeeps ==
    ASSUME MediaInv, NEW c \in AnyCalls, Media!Existing(c), Media!Steps
           = <<"create", "queue">>
    PROVE  MediaInv'
<1>1. completing[c].at = 1
  BY DEF Media!Existing, MediaInv, MediaTyped, Completions, Media!Idle
<1>2. Media!Idle \in Completions
  BY DEF Completions
<1>3. /\ completing' \in [AnyCalls -> Completions]
      /\ \A x : Completing(x) => Completing(x)'
  <2>1. /\ completing' \in [AnyCalls -> Completions]
        /\ \A x : Completing(x) => Completing(x)' \/ completing[c].at = 2
    BY <1>2, CallEnds DEF Media!Existing
  <2> QED BY <1>1, <2>1
<1> QED BY <1>3, MediaQuiet DEF Media!Existing

LEMMA QueueKeeps ==
    ASSUME MediaInv, NEW c \in AnyCalls, Media!Queue(c), Media!Steps = <<"create", "queue">>
    PROVE  MediaInv'
<1>1. completing[c].at = 2
  BY DEF Media!Queue, MediaInv, MediaTyped, Completions, Media!Idle
<1>2. completing' = [completing EXCEPT ![c] = Media!Idle]
  <2>1. Len(Media!Steps) = 2
    OBVIOUS
  <2> QED BY <1>1, <2>1 DEF Media!Queue, Media!Further
<1>3. Media!Idle \in Completions
  BY DEF Completions
<1>4. DOMAIN pending' = DOMAIN pending \union {completing[c].key}
  BY DEF Media!Queue
<1>5. /\ completing' \in [AnyCalls -> Completions]
      /\ \A x : Completing(x) => Completing(x)' \/ x \in DOMAIN pending'
  BY <1>2, <1>3, <1>4, CallEnds
<1> QED BY <1>4, <1>5, MediaQuiet DEF Media!Queue

LEMMA CompletionFails ==
    ASSUME MediaInv, NEW c \in AnyCalls, Media!Fail(c), Media!Steps = <<"create", "queue">>
    PROVE  MediaInv'
<1> DEFINE k == completing[c].key
<1>1. completing[c].at = 1 \/ completing[c].at = 2
  BY DEF Media!Fail, MediaInv, MediaTyped, Completions
<1>2. Media!Idle \in Completions
  BY DEF Completions
<1>3. /\ completing' \in [AnyCalls -> Completions]
      /\ \A x : Completing(x) => Completing(x)' \/ (completing[c].at = 2 /\ k = x)
  BY <1>2, CallEnds DEF Media!Fail
<1>4. UNCHANGED <<image, whole, pending>>
  BY DEF Media!Fail
<1>5. completing[c].at = 2 /\ k \in Media!Range(image) => missed' = Media!Missed(k)
  BY DEF Media!Fail
<1>6. missed' = missed \/ missed' = Media!Missed(k)
  BY DEF Media!Fail
<1> HIDE DEF k
<1>7. MediaTyped'
  BY <1>3, <1>4 DEF MediaInv, MediaTyped
<1>8. ASSUME NEW x \in Media!Range(image) PROVE ImageFits(x)'
  <2>1. ImageFits(x)
    BY DEF MediaInv
  <2>2. (x \in missed => x \in missed') /\ (x \in whole => (x \in missed' => x \in missed))
    BY <1>6 DEF Media!Missed
  <2>3. x \notin whole /\ Completing(x) => Completing(x)' \/ x \in missed'
    BY <1>3, <1>5, <1>8 DEF Media!Missed
  <2> QED BY <1>4, <2>1, <2>2, <2>3 DEF ImageFits
<1> QED BY <1>4, <1>7, <1>8 DEF MediaInv

LEMMA CompletePhotoKeeps ==
    ASSUME MediaInv, NEW k \in MediaKeys, Media!CompletePhoto(k)
    PROVE  MediaInv'
<1>1. k \notin Media!Range(image) /\ image' = Append(image, k)
          /\ UNCHANGED <<whole, completing, missed>>
  BY DEF Media!CompletePhoto
<1>2. DOMAIN pending' = DOMAIN pending \union {k}
  BY DEF Media!CompletePhoto
<1>3. MediaTyped' /\ Media!Range(image') = Media!Range(image) \union {k}
  BY <1>1, RowAdded DEF MediaInv, MediaTyped
<1>4. k \notin whole
  BY <1>1 DEF MediaInv, MediaTyped
<1>5. \A x : Completing(x)' = Completing(x)
  BY <1>1 DEF Completing
<1>6. \A x \in Media!Range(image') : ImageFits(x)'
  BY <1>1, <1>2, <1>3, <1>4, <1>5 DEF MediaInv, ImageFits
<1> QED BY <1>3, <1>6 DEF MediaInv

LEMMA RowDeleted ==
    ASSUME MediaInv, NEW k \in MediaKeys, Media!Delete(k)
    PROVE  MediaInv'
<1>1. /\ image' \in Seq(MediaKeys)
      /\ \A i, j \in 1 .. Len(image') : image'[i] = image'[j] => i = j
      /\ Media!Range(image') = Media!Range(image) \ {k}
  BY WithoutOne DEF Media!Delete, MediaInv
<1>2. whole' = whole \ {k} /\ UNCHANGED <<pending, completing, missed>>
  BY DEF Media!Delete
<1>3. MediaTyped'
  BY <1>1, <1>2 DEF MediaInv, MediaTyped
<1>4. \A x : Completing(x)' = Completing(x)
  BY <1>2 DEF Completing
<1>5. \A x \in Media!Range(image') : ImageFits(x)'
  BY <1>1, <1>2, <1>4 DEF MediaInv, ImageFits
<1> QED BY <1>3, <1>5 DEF MediaInv

LEMMA FinalizeKeeps ==
    ASSUME MediaInv, NEW k \in MediaKeys,
           Media!Finalize(k) \/ Media!FinalizeCrash(k) \/ Media!FinalizeError(k),
           \A made \in BOOLEAN : Media!Variants(k, made)
               = IF made THEN whole \union {k} ELSE whole
    PROVE  MediaInv'
<1>1. UNCHANGED completing
  BY DEF Media!Finalize, Media!FinalizeCrash, Media!FinalizeError
<1>2. CASE Media!Finalize(k)
  <2>1. DOMAIN pending' = DOMAIN pending \ {k}
    BY <1>2 DEF Media!Finalize, Media!Dequeued
  <2>2. PICK made \in BOOLEAN : Media!Finalized(k, made)
    BY <1>2 DEF Media!Finalize
  <2> QED BY <1>1, <2>1, <2>2, FinalizedKeeps
<1>3. CASE Media!FinalizeCrash(k)
  <2>1. DOMAIN pending' = DOMAIN pending
    BY <1>3 DEF Media!FinalizeCrash
  <2>2. ASSUME NEW made \in BOOLEAN, Media!Finalized(k, made) PROVE MediaInv'
    BY <1>1, <2>1, <2>2, FinalizedKeeps
  <2>3. CASE UNCHANGED <<image, whole, missed>>
    <3>1. completing' \in [AnyCalls -> Completions] /\ \A x : Completing(x) =>
              Completing(x)'
      BY <1>1 DEF MediaInv, MediaTyped, Completing
    <3> QED BY <2>1, <2>3, <3>1, MediaQuiet
  <2> QED BY <1>3, <2>2, <2>3 DEF Media!FinalizeCrash
<1>4. CASE Media!FinalizeError(k)
  <2>1. UNCHANGED <<image, whole>> /\ k \in Media!Range(image)
    BY <1>4 DEF Media!FinalizeError
  <2>2. \/ DOMAIN pending' = DOMAIN pending /\ missed' = missed
        \/ DOMAIN pending' = DOMAIN pending \ {k} /\ missed' = Media!Missed(k)
    BY <1>4 DEF Media!FinalizeError, Media!Dequeued
  <2>3. MediaTyped'
    BY <1>1, <2>1 DEF MediaInv, MediaTyped
  <2>4. \A x : Completing(x)' = Completing(x)
    BY <1>1 DEF Completing
  <2>5. \A x \in Media!Range(image) : ImageFits(x)'
    BY <2>1, <2>2, <2>4 DEF MediaInv, ImageFits, Media!Missed
  <2> QED BY <2>1, <2>3, <2>5 DEF MediaInv
<1> QED BY <1>2, <1>3, <1>4

LEMMA ScanKeeps ==
    ASSUME MediaInv, Media!BeginScan \/ Media!ScanOne \/ Media!ScanError,
           \A k, made : Media!Variants(k, made) = IF made THEN whole \union {k} ELSE whole
    PROVE  MediaInv'
<1>1. CASE Media!BeginScan \/ Media!ScanError
  <2>1. UNCHANGED <<image, whole, missed, pending, completing>>
    BY <1>1 DEF Media!BeginScan, Media!ScanError
  <2>2. completing' \in [AnyCalls -> Completions] /\ \A x : Completing(x) => Completing(x)'
    BY <2>1 DEF MediaInv, MediaTyped, Completing
  <2> QED BY <2>1, <2>2, MediaQuiet
<1>2. CASE Media!ScanOne
  <2>1. PICK made \in BOOLEAN : Media!Finalized(Head(scan), made)
    BY <1>2 DEF Media!ScanOne
  <2>2. UNCHANGED <<completing, pending>>
    BY <1>2 DEF Media!ScanOne
  <2> QED BY <2>1, <2>2, FinalizedKeeps
<1> QED BY <1>1, <1>2

LEMMA MediaStepKeeps ==
    ASSUME MediaInv, [Media!Next]_Media!vars
    PROVE  MediaInv'
<1>1. Media!Steps = <<"create", "queue">>
  BY DEF Media!Steps
<1>2. \A k, made : Media!Variants(k, made) = IF made THEN whole \union {k} ELSE whole
  BY DEF Media!Variants
<1>3. CASE UNCHANGED Media!vars
  <2>1. UNCHANGED <<image, whole, missed, pending, completing>>
    BY <1>3 DEF Media!vars
  <2>2. completing' \in [AnyCalls -> Completions] /\ \A x : Completing(x) => Completing(x)'
    BY <2>1 DEF MediaInv, MediaTyped, Completing
  <2> QED BY <2>1, <2>2, MediaQuiet
<1>4. ASSUME NEW c \in AnyCalls, NEW k \in MediaKeys, Media!BeginComplete(c, k)
      PROVE  MediaInv'
  BY <1>4, BeginCompleteKeeps
<1>5. ASSUME NEW c \in AnyCalls,
             Media!Create(c) \/ Media!Existing(c) \/ Media!Queue(c) \/ Media!Fail(c)
      PROVE  MediaInv'
  BY <1>1, <1>5, CreateKeeps, ExistingKeeps, QueueKeeps, CompletionFails
<1>6. ASSUME NEW k \in MediaKeys, Media!CompletePhoto(k) \/ Media!Delete(k) PROVE MediaInv'
  BY <1>6, CompletePhotoKeeps, RowDeleted
<1>7. ASSUME NEW k \in MediaKeys,
             Media!Finalize(k) \/ Media!FinalizeCrash(k) \/ Media!FinalizeError(k)
      PROVE  MediaInv'
  BY <1>2, <1>7, FinalizeKeeps
<1>8. CASE Media!BeginScan \/ Media!ScanOne \/ Media!ScanError
  BY <1>2, <1>8, ScanKeeps
<1> QED BY <1>3, <1>4, <1>5, <1>6, <1>7, <1>8 DEF Media!Next

LEMMA MediaSteps ==
    ASSUME focus = "media", [Next]_<<focus, everything>>
    PROVE  [Media!Next]_Media!vars
<1>1. CASE UNCHANGED <<focus, everything>>
  BY <1>1 DEF everything, Media!vars
<1>2. CASE Next
  BY <1>2 DEF Next
<1> QED BY <1>1, <1>2

LEMMA MediaKept == Spec => [](focus = "media" => MediaInv)
<1>1. Init => (focus = "media" => MediaInv)
  BY MediaBegins DEF Init
<1>2. (focus = "media" => MediaInv) /\ [Next]_<<focus, everything>>
        => (focus = "media" => MediaInv)'
  <2> SUFFICES ASSUME focus = "media" => MediaInv, [Next]_<<focus, everything>>,
                      focus' = "media"
               PROVE  MediaInv'
    OBVIOUS
  <2>1. focus = "media" /\ MediaInv
    BY DEF Next
  <2>2. [Media!Next]_Media!vars
    BY <2>1, MediaSteps
  <2> QED BY <2>1, <2>2, MediaStepKeeps
<1> QED BY <1>1, <1>2, PTL DEF Spec

(* An image without variants is being completed, has its event, or was left  *)
(* out by a crash, a failure or the last attempt.                            *)
THEOREM ImagesAreAccounted == Spec => []ImagesAccounted
<1>1. (focus = "media" => MediaInv) => ImagesAccounted
  BY ImagesAccountedFollows DEF ImagesAccounted
<1> QED BY <1>1, MediaKept, PTL

-----------------------------------------------------------------------------
(* The sessions of a phone number, for any calls.                            *)

challenge == v1
codesSent == v2
session == v3
minted == v4
heldTokens == v5
cachedSessions == v6
signing == v7
usedCodes == v10
crossed == v11
lostAnswers == v12
honoured == v13
closedSessions == v14
raced == v15
USE DEF challenge, codesSent, session, minted, heldTokens, cachedSessions,
        signing, usedCodes, crossed, lostAnswers, honoured, closedSessions,
        raced

-----------------------------------------------------------------------------
Challenges == [code : Nat, consumed : BOOLEAN, expired : BOOLEAN, cooling : BOOLEAN]
Sessions == [token : Nat, revoked : BOOLEAN, from : Nat]

AuthTyped ==
    /\ challenge \in Seq(Challenges)
    /\ session \in Seq(Sessions)
    /\ codesSent \in Nat /\ minted \in Nat
    /\ DOMAIN signing = AnyCalls

(* A challenge that has started a session is used up, and starts no other.  *)
SessionsStarted ==
    /\ \A s \in DOMAIN session :
          session[s].from \in DOMAIN challenge /\ challenge[session[s].from].consumed
    /\ \A s, t \in DOMAIN session : session[s].from = session[t].from => s = t

(* Tokens are numbered as they are made; the current one of a session is no *)
(* other's, and has not been honoured.                                      *)
TokensFresh ==
    /\ \A s \in DOMAIN session : session[s].token <= minted
    /\ \A s, t \in DOMAIN session : session[s].token = session[t].token => s = t
    /\ \A p \in honoured :
          p[1] \in 0 .. minted /\ \A s \in DOMAIN session : session[s].token # p[1]
    /\ \A p, q \in honoured : p[1] = q[1] => p = q

(* An answer under way is about the session whose token it brings.          *)
SigningFits(c) ==
    /\ signing[c].step = "write" => signing[c].code \in Nat
    /\ signing[c].step = "rotate" => signing[c].session \in DOMAIN session
    /\ signing[c].step = "answer" =>
          /\ signing[c].token \in 0 .. minted
          /\ \A s \in DOMAIN session :
                session[s].token = signing[c].token => s = signing[c].session

TokensKnown ==
    \A s \in DOMAIN session :
        session[s].revoked \/ s \in lostAnswers
            \/ session[s].token \in heldTokens \union Auth!InFlight

CodesUsed ==
    \A i \in DOMAIN challenge :
        challenge[i].consumed => challenge[i].code \in usedCodes \/ i \in crossed

AuthInv ==
    /\ AuthTyped
    /\ SessionsStarted
    /\ TokensFresh
    /\ \A c \in AnyCalls : SigningFits(c)
    /\ TokensKnown
    /\ CodesUsed
    /\ cachedSessions \intersect closedSessions \subseteq raced

-----------------------------------------------------------------------------
(* One row is written.                                                      *)
LEMMA RowWritten ==
    ASSUME NEW S, NEW s \in Seq(S), NEW i, NEW x, i \in DOMAIN s => x \in S,
           NEW t, t = [s EXCEPT ![i] = x]
    PROVE  /\ t \in Seq(S) /\ DOMAIN t = DOMAIN s
           /\ \A j \in DOMAIN s : t[j] = IF j = i THEN x ELSE s[j]
<1>1. DOMAIN s = 1 .. Len(s) /\ Len(s) \in Nat /\ \A j \in DOMAIN s : s[j] \in S
  OBVIOUS
<1>2. DOMAIN t = DOMAIN s /\ \A j \in DOMAIN s : t[j] = IF j = i THEN x ELSE s[j]
  OBVIOUS
<1>3. CASE i \in DOMAIN s
  <2>1. i \in 1 .. Len(s) /\ x \in S
    BY <1>1, <1>3
  <2>2. [s EXCEPT ![i] = x] \in Seq(S)
    BY <2>1, ExceptSeq
  <2> QED BY <1>2, <2>2
<1>4. CASE i \notin DOMAIN s
  <2>1. t = s
    BY <1>4
  <2> QED BY <1>2, <2>1
<1> QED BY <1>3, <1>4

LEMMA SessionsHoldFollows ==
    ASSUME AuthInv PROVE Auth!SessionsHold
BY DEF AuthInv, SessionsStarted, TokensFresh, TokensKnown, CodesUsed, Auth!SessionsHold

LEMMA AuthBegins ==
    ASSUME Auth!Init PROVE AuthInv
<1>1. DOMAIN challenge = {} /\ DOMAIN session = {}
  BY DEF Auth!Init
<1>2. \A c \in AnyCalls : signing[c].step = "idle"
  BY DEF Auth!Init, Auth!Idle
<1>3. AuthTyped
  BY DEF Auth!Init, AuthTyped
<1> QED BY <1>1, <1>2, <1>3 DEF AuthInv, SessionsStarted, TokensFresh, SigningFits,
    TokensKnown,
           CodesUsed, Auth!Init

(* One call takes a step.                                                   *)
LEMMA OneCall ==
    ASSUME AuthInv, NEW c \in AnyCalls, NEW r, signing' = [signing EXCEPT ![c] = r]
    PROVE  /\ DOMAIN signing' = AnyCalls /\ signing'[c] = r
           /\ \A d \in AnyCalls \ {c} : signing'[d] = signing[d]
BY DEF AuthInv, AuthTyped

(* Neither codes nor tokens change, and no answer is on its way that was    *)
(* not.                                                                     *)
LEMMA AuthQuiet ==
    ASSUME AuthInv, UNCHANGED <<challenge, session, minted, heldTokens, usedCodes, crossed, honoured>>,
           codesSent' \in Nat, DOMAIN signing' = AnyCalls,
           \A c \in AnyCalls : SigningFits(c)',
           Auth!InFlight \subseteq Auth!InFlight', lostAnswers \subseteq lostAnswers',
           cachedSessions' \intersect closedSessions' \subseteq raced'
    PROVE  AuthInv'
<1>1. AuthTyped' /\ SessionsStarted' /\ TokensFresh' /\ CodesUsed'
  BY DEF AuthInv, AuthTyped, SessionsStarted, TokensFresh, CodesUsed
<1>2. TokensKnown'
  BY DEF AuthInv, TokensKnown
<1> QED BY <1>1, <1>2 DEF AuthInv

(* A call that brings no answer takes a step that brings none.              *)
LEMMA AnswersStay ==
    ASSUME AuthInv, NEW c \in AnyCalls, NEW r, signing' = [signing EXCEPT ![c] = r],
           signing[c].step # "answer"
    PROVE  Auth!InFlight \subseteq Auth!InFlight'
<1> SUFFICES ASSUME NEW d \in AnyCalls, signing[d].step = "answer"
             PROVE  signing[d].token \in Auth!InFlight'
  BY DEF Auth!InFlight
<1>1. signing'[d] = signing[d]
  BY OneCall
<1> QED BY <1>1 DEF Auth!InFlight

LEMMA CallsStay ==
    ASSUME AuthInv, NEW c \in AnyCalls, NEW r, signing' = [signing EXCEPT ![c] = r],
           UNCHANGED <<session, minted>>,
           r.step = "write" => r.code \in Nat,
           r.step = "rotate" => r.session \in DOMAIN session,
           r.step # "answer"
    PROVE  \A d \in AnyCalls : SigningFits(d)'
<1> SUFFICES ASSUME NEW d \in AnyCalls PROVE SigningFits(d)'
  OBVIOUS
<1>1. CASE d = c
  BY <1>1, OneCall DEF SigningFits
<1>2. CASE d # c
  <2>1. signing'[d] = signing[d]
    BY <1>2, OneCall
  <2> QED BY <2>1 DEF AuthInv, SigningFits
<1> QED BY <1>1, <1>2

-----------------------------------------------------------------------------
LEMMA BeginsKeep ==
    ASSUME AuthInv, NEW c \in AnyCalls, NEW r, Auth!Begin(c, r),
           r.step = "rotate" => r.session \in DOMAIN session,
           r.step \notin {"write", "answer"},
           UNCHANGED Auth!codeVars, UNCHANGED Auth!tokenVars, UNCHANGED Auth!cacheVars
    PROVE  AuthInv'
<1>1. signing' = [signing EXCEPT ![c] = r] /\ signing[c].step # "answer"
  BY DEF Auth!Begin, Auth!Idle
<1>2. UNCHANGED <<challenge, session, minted, heldTokens, usedCodes, crossed, honoured, codesSent, lostAnswers, cachedSessions,
                  closedSessions, raced>>
  BY DEF Auth!codeVars, Auth!tokenVars, Auth!cacheVars
<1>3. \A d \in AnyCalls : SigningFits(d)'
  BY <1>1, <1>2, CallsStay
<1>4. Auth!InFlight \subseteq Auth!InFlight' /\ DOMAIN signing' = AnyCalls
  BY <1>1, AnswersStay, OneCall
<1> QED BY <1>2, <1>3, <1>4, AuthQuiet DEF AuthInv, AuthTyped

LEMMA SendKeeps ==
    ASSUME AuthInv, NEW c \in AnyCalls, Auth!Send(c)
    PROVE  AuthInv'
<1>1. PICK r : /\ signing' = [signing EXCEPT ![c] = r] /\ r.step = "write"
          /\ r.code = codesSent + 1
               /\ signing[c].step = "send"
  <2> DEFINE r == [op |-> "request", step |-> "write", at |-> signing[c].at,
                   saw |-> signing[c].saw, code |-> codesSent + 1]
  <2>1. signing' = [signing EXCEPT ![c] = r] /\ signing[c].step = "send"
    BY DEF Auth!Send, Auth!To
  <2>2. r.step = "write" /\ r.code = codesSent + 1
    OBVIOUS
  <2> QED BY <2>1, <2>2
<1>2. /\ UNCHANGED <<challenge, session, minted, heldTokens, usedCodes, crossed, honoured, lostAnswers, cachedSessions,
                     closedSessions, raced>>
      /\ codesSent' = codesSent + 1
  BY DEF Auth!Send, Auth!tokenVars, Auth!cacheVars
<1>3. codesSent \in Nat /\ r.code \in Nat
  BY <1>1 DEF AuthInv, AuthTyped
<1>4. \A d \in AnyCalls : SigningFits(d)'
  BY <1>1, <1>2, <1>3, CallsStay
<1>5. Auth!InFlight \subseteq Auth!InFlight' /\ DOMAIN signing' = AnyCalls
  BY <1>1, AnswersStay, OneCall
<1> QED BY <1>2, <1>3, <1>4, <1>5, AuthQuiet DEF AuthInv

(* What becomes of a challenge leaves it used up if it was, and its code is *)
(* one of those used, or known to be crossed.                               *)
LEMMA ChallengeKeeps ==
    ASSUME AuthInv, challenge' \in Seq(Challenges),
           DOMAIN challenge \subseteq DOMAIN challenge',
           \A i \in DOMAIN challenge : challenge[i].consumed => challenge'[i].consumed,
           CodesUsed', UNCHANGED <<session, minted, heldTokens, honoured, lostAnswers, codesSent>>,
           UNCHANGED Auth!cacheVars, DOMAIN signing' = AnyCalls,
               \A c \in AnyCalls : SigningFits(c)',
           Auth!InFlight \subseteq Auth!InFlight'
    PROVE  AuthInv'
<1>1. AuthTyped' /\ TokensFresh'
  BY DEF AuthInv, AuthTyped, TokensFresh
<1>2. SessionsStarted'
  BY DEF AuthInv, SessionsStarted
<1>3. TokensKnown'
  BY DEF AuthInv, TokensKnown
<1> QED BY <1>1, <1>2, <1>3 DEF AuthInv, Auth!cacheVars

LEMMA ChallengeIssued ==
    ASSUME AuthInv, NEW c \in AnyCalls, Auth!Issue(c)
    PROVE  AuthInv'
<1> DEFINE i == signing[c].at
           n == signing[c].code
           fresh == [code |-> n, consumed |-> FALSE, expired |-> FALSE, cooling |-> TRUE]
           again == [fresh EXCEPT !.consumed = challenge[i].consumed]
<1>1. n \in Nat /\ challenge \in Seq(Challenges) /\ fresh \in Challenges
  BY DEF Auth!Issue, AuthInv, AuthTyped, SigningFits, Challenges
<1>2. /\ signing' = [signing EXCEPT ![c] = Auth!Idle] /\ signing[c].step = "write"
      /\ UNCHANGED <<session, minted, heldTokens, honoured, lostAnswers, codesSent,
            usedCodes>> /\ UNCHANGED Auth!cacheVars
  BY DEF Auth!Issue, Auth!To, Auth!tokenVars
<1>3. /\ DOMAIN signing' = AnyCalls /\ Auth!InFlight \subseteq Auth!InFlight'
      /\ \A d \in AnyCalls : SigningFits(d)'
  <2>1. Auth!Idle.step = "idle"
    BY DEF Auth!Idle
  <2> QED BY <1>2, <2>1, OneCall, AnswersStay, CallsStay
<1>4. CASE i = 0
  <2>1. challenge' = Append(challenge, fresh) /\ crossed' = crossed
    BY <1>4 DEF Auth!Issue
  <2>2. /\ challenge' \in Seq(Challenges) /\ DOMAIN challenge \subseteq DOMAIN challenge'
        /\ \A j \in DOMAIN challenge : challenge'[j] = challenge[j]
        /\ \A j \in DOMAIN challenge' : j \in DOMAIN challenge \/ challenge'[j] = fresh
    BY <1>1, <2>1
  <2>3. ~fresh.consumed
    OBVIOUS
  <2> HIDE DEF fresh
  <2>4. CodesUsed'
    BY <1>2, <2>1, <2>2, <2>3 DEF AuthInv, CodesUsed
  <2> QED BY <1>2, <1>3, <2>2, <2>4, ChallengeKeeps
<1>5. CASE i # 0
  <2>1. /\ challenge' = [challenge EXCEPT ![i] = again]
        /\ crossed' = IF challenge[i].consumed \/ challenge[i].code # signing[c].saw
                      THEN crossed \union {i} ELSE crossed
    BY <1>5 DEF Auth!Issue
  <2>2. i \in DOMAIN challenge =>
            again \in Challenges /\ again.consumed = challenge[i].consumed
    <3>1. i \in DOMAIN challenge => challenge[i] \in Challenges
      BY <1>1
    <3> HIDE DEF i, n
    <3>2. i \in DOMAIN challenge => challenge[i].consumed \in BOOLEAN
      BY <3>1 DEF Challenges
    <3> QED BY <1>1, <3>2 DEF Challenges
  <2> HIDE DEF again, fresh, i
  <2>3. /\ challenge' \in Seq(Challenges) /\ DOMAIN challenge' = DOMAIN challenge
        /\ \A j \in DOMAIN challenge :
              challenge'[j] = IF j = i THEN again ELSE challenge[j]
    BY <1>1, <2>1, <2>2, RowWritten
  <2>4. \A j \in DOMAIN challenge : challenge'[j].consumed = challenge[j].consumed
    BY <2>2, <2>3
  <2>5. CodesUsed'
    BY <1>2, <2>1, <2>3, <2>4 DEF AuthInv, CodesUsed
  <2> QED BY <1>2, <1>3, <2>3, <2>4, <2>5, ChallengeKeeps
<1> QED BY <1>4, <1>5

LEMMA CoolKeeps ==
    ASSUME AuthInv, NEW i \in DOMAIN challenge, Auth!Cool(i)
    PROVE  AuthInv'
<1>1. challenge \in Seq(Challenges) /\ challenge[i] \in Challenges
  BY DEF AuthInv, AuthTyped
<1>2. PICK r \in Challenges : /\ challenge' = [challenge EXCEPT ![i] = r]
                              /\ r.consumed = challenge[i].consumed
                              /\ r.code = challenge[i].code
  <2>1. CASE challenge' = [challenge EXCEPT ![i].cooling = FALSE]
    <3> DEFINE r == [challenge[i] EXCEPT !.cooling = FALSE]
    <3>1. r \in Challenges /\ r.consumed = challenge[i].consumed
              /\ r.code = challenge[i].code
      BY <1>1 DEF Challenges
    <3> QED BY <2>1, <3>1
  <2>2. CASE challenge' = [challenge EXCEPT ![i].expired = TRUE]
    <3> DEFINE r == [challenge[i] EXCEPT !.expired = TRUE]
    <3>1. r \in Challenges /\ r.consumed = challenge[i].consumed
              /\ r.code = challenge[i].code
      BY <1>1 DEF Challenges
    <3> QED BY <2>2, <3>1
  <2> QED BY <2>1, <2>2 DEF Auth!Cool
<1>3. /\ UNCHANGED <<session, minted, heldTokens, honoured, lostAnswers, codesSent, usedCodes, crossed, signing>>
      /\ UNCHANGED Auth!cacheVars
  BY DEF Auth!Cool, Auth!Tick, Auth!tokenVars
<1>4. /\ challenge' \in Seq(Challenges) /\ DOMAIN challenge' = DOMAIN challenge
      /\ \A j \in DOMAIN challenge : challenge'[j].consumed = challenge[j].consumed
                                     /\ challenge'[j].code = challenge[j].code
  BY <1>1, <1>2
<1>5. CodesUsed'
  BY <1>3, <1>4 DEF AuthInv, CodesUsed
<1>6. /\ DOMAIN signing' = AnyCalls /\ Auth!InFlight \subseteq Auth!InFlight'
      /\ \A d \in AnyCalls : SigningFits(d)'
  BY <1>3 DEF AuthInv, AuthTyped, SigningFits, Auth!InFlight
<1> QED BY <1>3, <1>4, <1>5, <1>6, ChallengeKeeps

-----------------------------------------------------------------------------
OnlyWrites(s) ==
    /\ DOMAIN session \subseteq DOMAIN session'
    /\ \A t \in DOMAIN session' : t # s => t \in DOMAIN session /\ session'[t] = session[t]

(* A new token, of a new session or of one that had another.                *)
LEMMA NewTokenKeeps ==
    ASSUME AuthInv, NEW c \in AnyCalls, NEW r, signing' = [signing EXCEPT ![c] = r],
           signing[c].step # "answer",
           NEW s \in DOMAIN session', session' \in Seq(Sessions),
           OnlyWrites(s),
           session'[s].token = minted + 1, minted' = minted + 1,
           r.step = "answer", r.session = s, r.token = minted + 1,
           codesSent' = codesSent, heldTokens' = heldTokens, lostAnswers' = lostAnswers,
               UNCHANGED Auth!cacheVars,
           \/ honoured' = honoured
           \/ s \in DOMAIN session
                 /\ honoured' = honoured \union {<<session[s].token, minted + 1>>},
           challenge' \in Seq(Challenges), SessionsStarted', CodesUsed'
    PROVE  AuthInv'
<1> USE DEF OnlyWrites
<1>1. minted \in Nat
  BY DEF AuthInv, AuthTyped
<1>2. /\ DOMAIN signing' = AnyCalls /\ signing'[c] = r
      /\ \A d \in AnyCalls \ {c} : signing'[d] = signing[d]
  BY OneCall
<1>3. AuthTyped'
  BY <1>1, <1>2 DEF AuthInv, AuthTyped
<1>4. /\ \A t \in DOMAIN session : session[t].token \in Nat /\ session[t].token <= minted
      /\ \A t \in DOMAIN session' \ {s} : session'[t].token <= minted
      /\ session'[s].token = minted + 1
  <2>1. \A t \in DOMAIN session : session[t] \in Sessions
    BY DEF AuthInv, AuthTyped
  <2> QED BY <2>1 DEF AuthInv, TokensFresh, Sessions
<1>5. \A t, u \in DOMAIN session' : session'[t].token = session'[u].token => t = u
  <2> SUFFICES ASSUME NEW t \in DOMAIN session', NEW u \in DOMAIN session',
                      session'[t].token = session'[u].token
               PROVE  t = u
    OBVIOUS
  <2>1. t # s /\ u # s => t = u
    BY DEF AuthInv, TokensFresh
  <2>2. \A x \in DOMAIN session' \ {s} : session'[x].token \in Nat
    BY <1>4
  <2>3. ~(minted + 1 <= minted)
    BY <1>1
  <2> QED BY <1>4, <2>1, <2>3
<1>6. \A p \in honoured' :
         p[1] \in 0 .. minted' /\ \A t \in DOMAIN session' : session'[t].token # p[1]
  <2> SUFFICES ASSUME NEW p \in honoured'
               PROVE  p[1] \in 0 .. minted'
                      /\ \A t \in DOMAIN session' : session'[t].token # p[1]
    OBVIOUS
  <2>1. CASE p \in honoured
    <3>1. p[1] \in 0 .. minted /\ \A t \in DOMAIN session : session[t].token # p[1]
      BY <2>1 DEF AuthInv, TokensFresh
    <3>2. p[1] \in 0 .. minted' /\ p[1] # minted + 1
      BY <1>1, <3>1
    <3>3. \A t \in DOMAIN session' \ {s} : session'[t].token # p[1]
      BY <3>1
    <3>4. session'[s].token # p[1]
      BY <1>4, <3>2
    <3> QED BY <3>2, <3>3, <3>4
  <2>2. CASE p \notin honoured
    <3>1. s \in DOMAIN session /\ p = <<session[s].token, minted + 1>>
              /\ p[1] = session[s].token
      BY <2>2
    <3>2. \A t \in DOMAIN session : session[t].token = session[s].token => t = s
      BY <3>1 DEF AuthInv, TokensFresh
    <3>3. p[1] \in 0 .. minted /\ p[1] # minted + 1
      BY <1>1, <1>4, <3>1
    <3>4. \A t \in DOMAIN session' \ {s} : session'[t].token # p[1]
      BY <3>1, <3>2
    <3>5. session'[s].token # p[1]
      BY <1>4, <3>3
    <3> QED BY <1>1, <3>3, <3>4, <3>5
  <2> QED BY <2>1, <2>2
<1>7. \A p, q \in honoured' : p[1] = q[1] => p = q
  <2>1. \A p, q \in honoured : p[1] = q[1] => p = q
    BY DEF AuthInv, TokensFresh
  <2>2. \A p \in honoured : \A t \in DOMAIN session : session[t].token # p[1]
    BY DEF AuthInv, TokensFresh
  <2> QED BY <2>1, <2>2
<1>8. TokensFresh'
  BY <1>1, <1>4, <1>5, <1>6, <1>7 DEF TokensFresh
<1>9. ASSUME NEW d \in AnyCalls PROVE SigningFits(d)'
  <2>1. CASE d = c
    BY <1>1, <1>2, <1>4, <1>5, <2>1 DEF SigningFits
  <2>2. CASE d # c
    <3>1. signing'[d] = signing[d] /\ SigningFits(d)
      BY <1>2, <2>2 DEF AuthInv
    <3>2. signing[d].step = "answer" =>
             signing[d].token \in 0 .. minted' /\ \A t \in DOMAIN session' :
                  session'[t].token = signing[d].token => t = signing[d].session
      <4> SUFFICES ASSUME signing[d].step = "answer"
                   PROVE  /\ signing[d].token \in 0 .. minted'
                          /\ \A t \in DOMAIN session' :
                                session'[t].token = signing[d].token =>
                                    t = signing[d].session
        OBVIOUS
      <4>1. /\ signing[d].token \in 0 .. minted
            /\ \A t \in DOMAIN session :
                  session[t].token = signing[d].token => t = signing[d].session
        BY <3>1 DEF SigningFits
      <4>2. session'[s].token # signing[d].token
        BY <1>1, <1>4, <4>1
      <4>3. \A t \in DOMAIN session' \ {s} :
               session'[t].token = signing[d].token => t = signing[d].session
        BY <4>1
      <4> QED BY <1>1, <4>1, <4>2, <4>3
    <3> QED BY <3>1, <3>2 DEF SigningFits
  <2> QED BY <2>1, <2>2
<1>10. TokensKnown'
  <2>1. Auth!InFlight \subseteq Auth!InFlight' /\ minted + 1 \in Auth!InFlight'
    BY <1>2, AnswersStay DEF Auth!InFlight
  <2> QED BY <1>4, <2>1 DEF AuthInv, TokensKnown
<1> QED BY <1>3, <1>8, <1>9, <1>10 DEF AuthInv, Auth!cacheVars

LEMMA ClaimKeeps ==
    ASSUME AuthInv, NEW c \in AnyCalls, Auth!Claim(c), Auth!Claimable(signing[c].at)
    PROVE  AuthInv'
<1> DEFINE i == signing[c].at
           s == Len(session) + 1
           m == [token |-> minted + 1, revoked |-> FALSE, from |-> i]
           r == [op |-> "verify", step |-> "answer", session |-> s, token |-> minted + 1]
<1>1. i \in DOMAIN challenge /\ ~challenge[i].consumed
  BY DEF Auth!Claimable, Auth!Active
<1>2. /\ challenge \in Seq(Challenges) /\ session \in Seq(Sessions) /\ minted \in Nat
      /\ challenge[i] \in Challenges
  BY <1>1 DEF AuthInv, AuthTyped
<1>3. m \in Sessions /\ m.token = minted + 1 /\ m.from = i
  BY <1>1, <1>2 DEF Sessions
<1>4. r.step = "answer" /\ r.session = s /\ r.token = minted + 1
  OBVIOUS
<1>5. /\ signing' = [signing EXCEPT ![c] = r] /\ signing[c].step # "answer"
      /\ challenge' = [challenge EXCEPT ![i].consumed = TRUE]
      /\ session' = Append(session, m) /\ minted' = minted + 1
      /\ usedCodes' = usedCodes \union {signing[c].code}
      /\ crossed'
            = IF challenge[i].code # signing[c].code THEN crossed \union {i} ELSE crossed
      /\ codesSent' = codesSent /\ heldTokens' = heldTokens
            /\ lostAnswers' = lostAnswers /\ honoured' = honoured
      /\ UNCHANGED Auth!cacheVars
  BY DEF Auth!Claim, Auth!To
<1> HIDE DEF m, r
<1>6. /\ session' \in Seq(Sessions) /\ DOMAIN session' = DOMAIN session \union {s}
      /\ s \notin DOMAIN session /\ session'[s] = m
      /\ \A t \in DOMAIN session : session'[t] = session[t]
  BY <1>2, <1>3, <1>5
<1> HIDE DEF s
<1> DEFINE n == [challenge[i] EXCEPT !.consumed = TRUE]
<1>7. n \in Challenges /\ n.consumed /\ n.code = challenge[i].code
  BY <1>2 DEF Challenges
<1>8. challenge' = [challenge EXCEPT ![i] = n]
  BY <1>5
<1> HIDE DEF n, i
<1>9. /\ challenge' \in Seq(Challenges) /\ DOMAIN challenge' = DOMAIN challenge
      /\ \A j \in DOMAIN challenge : challenge'[j] = IF j = i THEN n ELSE challenge[j]
  BY <1>2, <1>7, <1>8, RowWritten
<1>10. SessionsStarted'
  <2>1. \A t \in DOMAIN session : session[t].from \in DOMAIN challenge
                                  /\ challenge[session[t].from].consumed
    BY DEF AuthInv, SessionsStarted
  <2>2. \A t \in DOMAIN session : session[t].from # i
    BY <1>1, <2>1
  <2>3. \A t \in DOMAIN session' :
           session'[t].from \in DOMAIN challenge' /\ challenge'[session'[t].from].consumed
    BY <1>1, <1>3, <1>6, <1>7, <1>9, <2>1
  <2>4. \A t, u \in DOMAIN session : session[t].from = session[u].from => t = u
    BY DEF AuthInv, SessionsStarted
  <2>5. \A t, u \in DOMAIN session' : session'[t].from = session'[u].from => t = u
    BY <1>3, <1>6, <2>2, <2>4
  <2> QED BY <2>3, <2>5 DEF SessionsStarted
<1>11. CodesUsed'
  BY <1>1, <1>5, <1>7, <1>9 DEF AuthInv, CodesUsed
<1>12. /\ s \in DOMAIN session' /\ session'[s].token = minted + 1 /\ OnlyWrites(s)
  BY <1>3, <1>6 DEF OnlyWrites
<1> QED BY <1>4, <1>5, <1>6, <1>9, <1>10, <1>11, <1>12, NewTokenKeeps

LEMMA RotateKeeps ==
    ASSUME AuthInv, NEW c \in AnyCalls, Auth!Rotate(c), Auth!Current(signing[c].session, signing[c].token)
    PROVE  AuthInv'
<1> DEFINE s == signing[c].session
           m == [session[s] EXCEPT !.token = minted + 1]
           r == [op |-> "refresh", step |-> "answer", session |-> s, token |-> minted + 1]
<1>1. s \in DOMAIN session /\ session[s].token = signing[c].token
  BY DEF Auth!Rotate, Auth!Current, AuthInv, SigningFits
<1>2. session \in Seq(Sessions) /\ minted \in Nat /\ session[s] \in Sessions
  BY <1>1 DEF AuthInv, AuthTyped
<1> HIDE DEF s
<1>3. m \in Sessions /\ m.token = minted + 1 /\ m.from = session[s].from
  <2>1. minted + 1 \in Nat
    BY <1>2
  <2> QED BY <1>2, <2>1 DEF Sessions
<1>4. r.step = "answer" /\ r.session = s /\ r.token = minted + 1
  OBVIOUS
<1>5. /\ signing' = [signing EXCEPT ![c] = r] /\ signing[c].step # "answer"
      /\ session' = [session EXCEPT ![s] = m] /\ minted' = minted + 1
      /\ honoured' = honoured \union {<<session[s].token, minted + 1>>}
      /\ UNCHANGED <<challenge, usedCodes, crossed>> /\ UNCHANGED Auth!cacheVars
      /\ codesSent' = codesSent /\ heldTokens' = heldTokens /\ lostAnswers' = lostAnswers
  BY <1>1 DEF Auth!Rotate, Auth!To, Auth!codeVars, s
<1> HIDE DEF m, r
<1>6. /\ session' \in Seq(Sessions) /\ DOMAIN session' = DOMAIN session
      /\ \A t \in DOMAIN session : session'[t] = IF t = s THEN m ELSE session[t]
  BY <1>2, <1>3, <1>5, RowWritten
<1>7. \A t \in DOMAIN session : session'[t].from = session[t].from
  BY <1>3, <1>6
<1>8. SessionsStarted' /\ CodesUsed' /\ challenge' \in Seq(Challenges)
  BY <1>5, <1>6, <1>7 DEF AuthInv, AuthTyped, SessionsStarted, CodesUsed
<1>9. /\ s \in DOMAIN session' /\ session'[s].token = minted + 1
      /\ OnlyWrites(s)
  BY <1>1, <1>3, <1>6 DEF OnlyWrites
<1>10. s \in DOMAIN session
           /\ honoured' = honoured \union {<<session[s].token, minted + 1>>}
  BY <1>1, <1>5
<1>11. s \in DOMAIN session' /\ session'[s].token = minted + 1 /\ session' \in Seq(Sessions)
  BY <1>6, <1>9
<1>12. signing' = [signing EXCEPT ![c] = r] /\ signing[c].step # "answer"
  BY <1>5
<1> QED BY <1>4, <1>5, <1>8, <1>9, <1>10, <1>11, <1>12, NewTokenKeeps

-----------------------------------------------------------------------------
(* The client has the token, or an answer is lost.                          *)
LEMMA AnswerEnds ==
    ASSUME AuthInv, NEW c \in AnyCalls, signing' = [signing EXCEPT ![c] = Auth!Idle],
           UNCHANGED <<session, minted, honoured>>, UNCHANGED Auth!codeVars,
           heldTokens \subseteq heldTokens', lostAnswers \subseteq lostAnswers',
           signing[c].step = "answer" =>
               signing[c].token \in heldTokens' \/ signing[c].session \in lostAnswers',
           cachedSessions' \intersect closedSessions' \subseteq raced'
    PROVE  AuthInv'
<1>1. Auth!Idle.step = "idle"
  BY DEF Auth!Idle
<1>2. /\ DOMAIN signing' = AnyCalls /\ signing'[c] = Auth!Idle
      /\ \A d \in AnyCalls \ {c} : signing'[d] = signing[d]
  BY OneCall
<1>3. \A d \in AnyCalls : SigningFits(d)'
  BY <1>1, CallsStay
<1>4. AuthTyped' /\ SessionsStarted' /\ TokensFresh' /\ CodesUsed'
  BY <1>2 DEF AuthInv, AuthTyped, SessionsStarted, TokensFresh, CodesUsed, Auth!codeVars
<1>5. TokensKnown'
  <2> SUFFICES ASSUME NEW s \in DOMAIN session, ~session[s].revoked, s \notin lostAnswers',
                      session[s].token \notin heldTokens'
               PROVE  session[s].token \in Auth!InFlight'
    BY DEF TokensKnown
  <2>1. session[s].token \in Auth!InFlight
    BY DEF AuthInv, TokensKnown
  <2>2. PICK d \in AnyCalls : signing[d].step = "answer"
            /\ signing[d].token = session[s].token
    BY <2>1 DEF Auth!InFlight
  <2>3. s = signing[d].session
    BY <2>2 DEF AuthInv, SigningFits
  <2>4. d # c
    BY <2>2, <2>3
  <2> QED BY <1>2, <2>2, <2>4 DEF Auth!InFlight
<1> QED BY <1>3, <1>4, <1>5 DEF AuthInv

(* Sessions are revoked.                                                    *)
LEMMA RevokeKeeps ==
    ASSUME AuthInv, session' \in Seq(Sessions), DOMAIN session' = DOMAIN session,
           \A s \in DOMAIN session :
              /\ session'[s].token = session[s].token /\ session'[s].from = session[s].from
              /\ session[s].revoked => session'[s].revoked,
           UNCHANGED <<minted, heldTokens, lostAnswers, honoured>>,
           UNCHANGED Auth!codeVars, UNCHANGED Auth!cacheVars, DOMAIN signing' = AnyCalls,
           \A c \in AnyCalls : signing'[c].step \in {"rotate", "answer", "write"} =>
               signing'[c] = signing[c],
           Auth!InFlight \subseteq Auth!InFlight'
    PROVE  AuthInv'
<1>1. AuthTyped' /\ CodesUsed'
  BY DEF AuthInv, AuthTyped, CodesUsed, Auth!codeVars
<1>2. SessionsStarted'
  BY DEF AuthInv, SessionsStarted, Auth!codeVars
<1>3. TokensFresh'
  BY DEF AuthInv, TokensFresh
<1>4. \A c \in AnyCalls : SigningFits(c)'
  BY DEF AuthInv, SigningFits
<1>5. TokensKnown'
  BY DEF AuthInv, TokensKnown
<1> QED BY <1>1, <1>2, <1>3, <1>4, <1>5 DEF AuthInv, Auth!cacheVars

LEMMA LogoutKeeps ==
    ASSUME AuthInv, NEW c \in AnyCalls, NEW s \in DOMAIN session, Auth!Logout(c, s)
    PROVE  AuthInv'
<1> DEFINE m == [session[s] EXCEPT !.revoked = TRUE]
           r == [op |-> "logout", step |-> "uncache", session |-> s]
<1>1. session \in Seq(Sessions) /\ session[s] \in Sessions
  BY DEF AuthInv, AuthTyped
<1>2. m \in Sessions /\ m.token = session[s].token /\ m.from = session[s].from /\ m.revoked
  BY <1>1 DEF Sessions
<1>3. /\ signing' = [signing EXCEPT ![c] = r] /\ signing[c].step # "answer"
      /\ session' = [session EXCEPT ![s] = m]
      /\ UNCHANGED <<minted, heldTokens, lostAnswers, honoured>>
      /\ UNCHANGED Auth!codeVars /\ UNCHANGED Auth!cacheVars
  BY DEF Auth!Logout, Auth!Begin, Auth!Idle
<1>4. r.step = "uncache"
  OBVIOUS
<1> HIDE DEF m, r
<1>5. /\ session' \in Seq(Sessions) /\ DOMAIN session' = DOMAIN session
      /\ \A t \in DOMAIN session : session'[t] = IF t = s THEN m ELSE session[t]
  BY <1>1, <1>2, <1>3
<1>6. \A t \in DOMAIN session :
         /\ session'[t].token = session[t].token /\ session'[t].from = session[t].from
         /\ session[t].revoked => session'[t].revoked
  BY <1>2, <1>5
<1>7. /\ DOMAIN signing' = AnyCalls /\ Auth!InFlight \subseteq Auth!InFlight'
      /\ \A d \in AnyCalls : signing'[d].step \in {"rotate", "answer", "write"}
            => signing'[d] = signing[d]
  BY <1>3, <1>4, OneCall, AnswersStay
<1> QED BY <1>3, <1>5, <1>6, <1>7, RevokeKeeps

LEMMA SuspendKeeps ==
    ASSUME AuthInv, Auth!Suspend
    PROVE  AuthInv'
<1>1. session \in Seq(Sessions) /\ \A s \in DOMAIN session : session[s] \in Sessions
  BY DEF AuthInv, AuthTyped
<1>2. session' = [s \in DOMAIN session |-> [session[s] EXCEPT !.revoked = TRUE]]
  BY DEF Auth!Suspend
<1>3. \A s \in DOMAIN session :
         /\ session'[s] \in Sessions
         /\ session'[s].token = session[s].token /\ session'[s].from = session[s].from
         /\ session'[s].revoked
  BY <1>1, <1>2 DEF Sessions
<1>4. session' \in Seq(Sessions) /\ DOMAIN session' = DOMAIN session
  BY <1>1, <1>2, <1>3
<1>5. UNCHANGED <<minted, heldTokens, lostAnswers, honoured, signing>>
          /\ UNCHANGED Auth!codeVars /\ UNCHANGED Auth!cacheVars
  BY DEF Auth!Suspend
<1>6. DOMAIN signing' = AnyCalls /\ Auth!InFlight \subseteq Auth!InFlight'
  BY <1>5 DEF AuthInv, AuthTyped, Auth!InFlight
<1> QED BY <1>3, <1>4, <1>5, <1>6, RevokeKeeps

-----------------------------------------------------------------------------
LEMMA SigningFails ==
    ASSUME AuthInv, NEW c \in AnyCalls, Auth!Fail(c) \/ Auth!Receive(c)
    PROVE  AuthInv'
<1>1. /\ signing' = [signing EXCEPT ![c] = Auth!Idle]
      /\ UNCHANGED <<session, minted,
            honoured>> /\ UNCHANGED Auth!codeVars /\ UNCHANGED Auth!cacheVars
      /\ heldTokens \subseteq heldTokens' /\ lostAnswers \subseteq lostAnswers'
      /\ signing[c].step = "answer"
            => signing[c].token \in heldTokens' \/ signing[c].session \in lostAnswers'
  BY DEF Auth!Fail, Auth!Receive, Auth!To
<1>2. cachedSessions' \intersect closedSessions' \subseteq raced'
  BY <1>1 DEF AuthInv, Auth!cacheVars
<1> QED BY <1>1, <1>2, AnswerEnds

LEMMA CacheKeeps ==
    ASSUME AuthInv, NEW c \in AnyCalls, Auth!Uncache(c) \/ Auth!Load(c)
    PROVE  AuthInv'
<1>1. /\ signing' = [signing EXCEPT ![c] = Auth!Idle] /\ signing[c].step # "answer"
      /\ UNCHANGED Auth!codeVars /\ UNCHANGED Auth!tokenVars
  BY DEF Auth!Uncache, Auth!Load, Auth!To
<1>2. cachedSessions \intersect closedSessions \subseteq raced
  BY DEF AuthInv
<1>3. cachedSessions' \intersect closedSessions' \subseteq raced'
  BY <1>2 DEF Auth!Uncache, Auth!Load
<1> QED BY <1>1, <1>3, AnswerEnds DEF Auth!tokenVars

LEMMA CachedExpires ==
    ASSUME AuthInv, NEW s, Auth!ExpireCached(s) \/ UNCHANGED Auth!vars
    PROVE  AuthInv'
<1>1. UNCHANGED <<signing, challenge, session, minted, heldTokens, usedCodes, crossed, honoured, codesSent, lostAnswers>>
  BY DEF Auth!ExpireCached, Auth!Tick, Auth!vars, Auth!codeVars, Auth!tokenVars
<1>2. cachedSessions \intersect closedSessions \subseteq raced
  BY DEF AuthInv
<1>3. cachedSessions' \intersect closedSessions' \subseteq raced'
  BY <1>2 DEF Auth!ExpireCached, Auth!vars
<1>4. DOMAIN signing' = AnyCalls /\ Auth!InFlight \subseteq Auth!InFlight'
          /\ \A c \in AnyCalls : SigningFits(c)'
  BY <1>1 DEF AuthInv, AuthTyped, SigningFits, Auth!InFlight
<1> QED BY <1>1, <1>3, <1>4, AuthQuiet DEF AuthInv, AuthTyped

LEMMA AuthBeginsCall ==
    ASSUME AuthInv, NEW c \in AnyCalls,
           \/ Auth!BeginRequest(c)
           \/ \E i \in DOMAIN challenge : Auth!BeginVerify(c, i)
           \/ \E s \in DOMAIN session : Auth!BeginLoad(c, s)
                 \/ \E t \in heldTokens : Auth!BeginRefresh(c, s, t)
    PROVE  AuthInv'
<1>1. CASE Auth!BeginRequest(c)
  BY <1>1, BeginsKeep DEF Auth!BeginRequest
<1>2. ASSUME NEW i \in DOMAIN challenge, Auth!BeginVerify(c, i) PROVE AuthInv'
  BY <1>2, BeginsKeep DEF Auth!BeginVerify
<1>3. ASSUME NEW s \in DOMAIN session, Auth!BeginLoad(c, s) PROVE AuthInv'
  BY <1>3, BeginsKeep DEF Auth!BeginLoad
<1>4. ASSUME NEW s \in DOMAIN session, NEW t \in heldTokens, Auth!BeginRefresh(c, s, t) PROVE AuthInv'
  BY <1>4, BeginsKeep DEF Auth!BeginRefresh
<1> QED BY <1>1, <1>2, <1>3, <1>4

LEMMA AuthStepKeeps ==
    ASSUME AuthInv, [Auth!Next]_Auth!vars
    PROVE  AuthInv'
<1>1. CASE UNCHANGED Auth!vars
  BY <1>1, CachedExpires
<1>2. ASSUME NEW s \in DOMAIN session, Auth!ExpireCached(s) PROVE AuthInv'
  BY <1>2, CachedExpires
<1>3. ASSUME NEW i \in DOMAIN challenge, Auth!Cool(i) PROVE AuthInv'
  BY <1>3, CoolKeeps
<1>4. CASE Auth!Suspend
  BY <1>4, SuspendKeeps
<1>5. ASSUME NEW c \in AnyCalls,
             \/ Auth!BeginRequest(c)
             \/ \E i \in DOMAIN challenge : Auth!BeginVerify(c, i)
             \/ \E s \in DOMAIN session : Auth!BeginLoad(c, s)
                   \/ \E t \in heldTokens : Auth!BeginRefresh(c, s, t)
      PROVE  AuthInv'
  BY <1>5, AuthBeginsCall
<1>6. ASSUME NEW c \in AnyCalls, Auth!Send(c) \/ Auth!Issue(c) PROVE AuthInv'
  BY <1>6, SendKeeps, ChallengeIssued
<1>7. ASSUME NEW c \in AnyCalls, Auth!Claim(c) \/ Auth!Rotate(c) PROVE AuthInv'
  BY <1>7, ClaimKeeps, RotateKeeps DEF Auth!Claim, Auth!Rotate
<1>8. ASSUME NEW c \in AnyCalls,
             Auth!Receive(c) \/ Auth!Fail(c) \/ Auth!Uncache(c)
                 \/ Auth!Load(c) PROVE AuthInv'
  BY <1>8, SigningFails, CacheKeeps
<1>9. ASSUME NEW c \in AnyCalls, NEW s \in DOMAIN session, Auth!Logout(c, s) PROVE AuthInv'
  BY <1>9, LogoutKeeps
<1> QED BY <1>1, <1>2, <1>3, <1>4, <1>5, <1>6, <1>7, <1>8, <1>9 DEF Auth!Next

LEMMA AuthSteps ==
    ASSUME focus = "auth", [Next]_<<focus, everything>>
    PROVE  [Auth!Next]_Auth!vars
<1>1. CASE UNCHANGED <<focus, everything>>
  BY <1>1 DEF everything, Auth!vars
<1>2. CASE Next
  BY <1>2 DEF Next
<1> QED BY <1>1, <1>2

LEMMA AuthKept == Spec => [](focus = "auth" => AuthInv)
<1>1. Init => (focus = "auth" => AuthInv)
  BY AuthBegins DEF Init
<1>2. (focus = "auth" => AuthInv) /\ [Next]_<<focus, everything>>
        => (focus = "auth" => AuthInv)'
  <2> SUFFICES ASSUME focus = "auth" => AuthInv, [Next]_<<focus, everything>>,
                      focus' = "auth"
               PROVE  AuthInv'
    OBVIOUS
  <2>1. focus = "auth" /\ AuthInv
    BY DEF Next
  <2>2. [Auth!Next]_Auth!vars
    BY <2>1, AuthSteps
  <2> QED BY <2>1, <2>2, AuthStepKeeps
<1> QED BY <1>1, <1>2, PTL DEF Spec

-----------------------------------------------------------------------------
(* Sign-in by Telegram, for any calls, accounts and numbers: a code guessed  *)
(* wrong is counted with the guesses under way.                              *)

login == v1
issued == v2
loginUsers == v3
telegramOf == v4
logging == v5
entered == v7
USE DEF login, issued, loginUsers, telegramOf, logging, entered

-----------------------------------------------------------------------------
LoginRows ==
    [app : {"known", "unknown", "never"}, tg : LoginTelegrams \union {Telegram!None},
     phone : LoginPhones \union {Telegram!None},
     status : {"pending_bot", "awaiting_contact", "code_issued", "failed", "consumed"},
     code : Nat, tries : Nat, cool : BOOLEAN, expired : BOOLEAN, consumed : BOOLEAN]
LoginCodes == [to : SUBSET [tg : LoginTelegrams, phone : LoginPhones], misses : Nat]
Logins == [row : Nat, code : Nat, tg : LoginTelegrams, phone : LoginPhones, user : LoginPhones]

LoginsTyped ==
    /\ login \in Seq(LoginRows)
    /\ issued \in Seq(LoginCodes)
    /\ entered \in Seq(Logins)
    /\ telegramOf \in [LoginTelegrams -> LoginPhones \union {Telegram!None}]
    /\ DOMAIN logging = AnyCalls

(* A code was sent to who is named here.                                    *)
SentTo(code, tg, phone) ==
    /\ code \in DOMAIN issued /\ tg \in LoginTelegrams /\ phone \in LoginPhones
    /\ [tg |-> tg, phone |-> phone] \in issued[code].to

(* A login session that waits for its code knows how often the code was     *)
(* guessed wrong; one with a verdict has ended.                             *)
RowFits(s) ==
    /\ login[s].code \in 0 .. Len(issued)
    /\ login[s].status = "code_issued" =>
          /\ SentTo(login[s].code, login[s].tg, login[s].phone)
          /\ issued[login[s].code].misses <= login[s].tries
    /\ login[s].status \in {"failed", "consumed"} => login[s].consumed

CodesApart ==
    \A s, t \in DOMAIN login : login[s].code # 0 /\ login[s].code = login[t].code => s = t

(* The user was let in before by the Telegram account.                      *)
KnownBy(t, user) == \E j \in DOMAIN entered : entered[j].tg = t /\ entered[j].user = user

LoginFits(c) ==
    /\ logging[c].at \in {"link", "issue", "shut", "miss", "match", "conflict", "enter"} =>
          logging[c].row \in DOMAIN login
    /\ logging[c].at = "link" =>
          logging[c].tg \in LoginTelegrams
              /\ logging[c].phone \in LoginPhones \union {Telegram!None}
    /\ logging[c].at = "issue"
          => logging[c].tg \in LoginTelegrams /\ logging[c].phone \in LoginPhones
    /\ logging[c].at = "miss" =>
          /\ logging[c].tries \in Nat /\ logging[c].code \in DOMAIN issued
          /\ \A s \in DOMAIN login : login[s].code = logging[c].code => s = logging[c].row
    /\ logging[c].at \in {"match", "enter"} => SentTo(logging[c].code, logging[c].tg,
          logging[c].phone)
    /\ logging[c].at = "enter" =>
          /\ logging[c].user \in LoginPhones
          /\ logging[c].user = logging[c].phone \/ KnownBy(logging[c].tg, logging[c].user)

(* A session lets in once, as its code was sent.                            *)
InsFit ==
    /\ \A i, j \in DOMAIN entered : entered[i].row = entered[j].row => i = j
    /\ \A i \in DOMAIN entered :
          /\ SentTo(entered[i].code, entered[i].tg, entered[i].phone)
          /\ entered[i].user = entered[i].phone
                \/ \E j \in 1 .. i - 1 : entered[j].tg = entered[i].tg
                      /\ entered[j].user = entered[i].user
          /\ entered[i].row \in DOMAIN login /\ login[entered[i].row].consumed

AccountsFit ==
    /\ \A t \in LoginTelegrams : telegramOf[t] # Telegram!None => KnownBy(t, telegramOf[t])
    /\ \A t, u \in LoginTelegrams : telegramOf[t] = telegramOf[u]
          => t = u \/ telegramOf[t] = Telegram!None

(* The guesses of a code that are under way.                                *)
Missing(k) == {c \in AnyCalls : logging[c].at = "miss" /\ logging[c].code = k}

GuessesBounded ==
    \A k \in DOMAIN issued :
        issued[k].misses + Cardinality(Missing(k)) < MaxLoginAttempts + Cardinality(AnyCalls)

TelegramInv ==
    /\ LoginsTyped
    /\ \A s \in DOMAIN login : RowFits(s)
    /\ CodesApart
    /\ \A c \in AnyCalls : LoginFits(c)
    /\ InsFit
    /\ AccountsFit
    /\ GuessesBounded

-----------------------------------------------------------------------------
LEMMA GuessesCounted == Telegram!Cardinality(AnyCalls) = Cardinality(AnyCalls)
BY DEF Telegram!Cardinality, Cardinality

LEMMA LoginsHoldFollows ==
    ASSUME TelegramInv PROVE Telegram!LoginsHold
<1>1. ASSUME NEW k \in DOMAIN issued PROVE issued[k].misses < MaxLoginAttempts + Cardinality(AnyCalls)
  <2>1. IsFiniteSet(Missing(k))
    BY GuessesFit, FS_Subset DEF Missing
  <2>2. Cardinality(Missing(k)) \in Nat /\ Cardinality(AnyCalls) \in Nat
    BY <2>1, GuessesFit, FS_CardinalityType
  <2>3. issued[k] \in LoginCodes
    BY DEF TelegramInv, LoginsTyped
  <2>4. issued[k].misses + Cardinality(Missing(k)) < MaxLoginAttempts + Cardinality(AnyCalls)
    BY DEF TelegramInv, GuessesBounded
  <2> QED BY <2>2, <2>3, <2>4, GuessesFit DEF LoginCodes
<1> QED BY <1>1, GuessesCounted DEF TelegramInv, RowFits, InsFit, SentTo, AccountsFit,
        Telegram!LoginsHold

LEMMA TelegramBegins ==
    ASSUME Telegram!Init PROVE TelegramInv
BY DEF Telegram!Init, TelegramInv, LoginsTyped, CodesApart, LoginFits, InsFit, AccountsFit,
       GuessesBounded, Telegram!Idle

-----------------------------------------------------------------------------
(* Steps that issue no code, find no guess wrong and let nobody in: the     *)
(* rows keep their codes, and a row that ends stays so.                     *)
RowsQuiet ==
    /\ login' \in Seq(LoginRows) /\ DOMAIN login \subseteq DOMAIN login'
    /\ \A s \in DOMAIN login :
          /\ login'[s].code = login[s].code /\ login'[s].tries = login[s].tries
          /\ login[s].consumed => login'[s].consumed
          /\ login'[s].status = "code_issued" =>
                /\ login[s].status = "code_issued"
                /\ login'[s].tg = login[s].tg /\ login'[s].phone = login[s].phone
          /\ login'[s].status \in {"failed", "consumed"} =>
                login'[s].consumed \/ login'[s].status = login[s].status
    /\ \A s \in DOMAIN login' \ DOMAIN login :
          login'[s].code = 0
              /\ login'[s].status \notin {"code_issued", "failed", "consumed"}

CallsQuiet ==
    /\ DOMAIN logging' = AnyCalls
    /\ \A d \in AnyCalls : logging'[d] = logging[d] \/ (logging'[d].at # "miss"
          /\ LoginFits(d)')

LEMMA QuietKeeps ==
    ASSUME TelegramInv, RowsQuiet, CallsQuiet, UNCHANGED <<issued, telegramOf, entered>>
    PROVE  TelegramInv'
<1>1. LoginsTyped'
  BY DEF TelegramInv, LoginsTyped, RowsQuiet, CallsQuiet
<1>2. \A x, y, z : SentTo(x, y, z)' <=> SentTo(x, y, z)
  BY DEF SentTo
<1>3. ASSUME NEW s \in DOMAIN login' PROVE RowFits(s)'
  <2>1. CASE s \in DOMAIN login
    <3>1. RowFits(s)
      BY <2>1 DEF TelegramInv
    <3>2. /\ login'[s].code = login[s].code /\ login'[s].tries = login[s].tries
          /\ login[s].consumed => login'[s].consumed
          /\ login'[s].status = "code_issued" =>
                /\ login[s].status = "code_issued"
                /\ login'[s].tg = login[s].tg /\ login'[s].phone = login[s].phone
          /\ login'[s].status \in {"failed", "consumed"} =>
                login'[s].consumed \/ login'[s].status = login[s].status
      BY <2>1 DEF RowsQuiet
    <3> QED BY <1>2, <3>1, <3>2 DEF RowFits
  <2>2. CASE s \notin DOMAIN login
    <3>1. Len(issued) \in Nat
      BY DEF TelegramInv, LoginsTyped
    <3> QED BY <2>2, <3>1 DEF RowsQuiet, RowFits
  <2> QED BY <2>1, <2>2
<1>4. CodesApart'
  BY DEF TelegramInv, CodesApart, RowsQuiet
<1>5. ASSUME NEW d \in AnyCalls PROVE LoginFits(d)'
  <2>1. CASE logging'[d] = logging[d]
    <3>1. LoginFits(d)
      BY DEF TelegramInv
    <3>2. \A t, u : KnownBy(t, u)' <=> KnownBy(t, u)
      BY DEF KnownBy
    <3>3. logging[d].at = "miss" =>
             \A s \in DOMAIN login' : login'[s].code = logging[d].code => s = logging[d].row
      <4>1. logging[d].at = "miss" => logging[d].code # 0
        BY <3>1 DEF LoginFits, TelegramInv, LoginsTyped
      <4> QED BY <3>1, <4>1 DEF LoginFits, RowsQuiet
    <3>4. DOMAIN login \subseteq DOMAIN login'
      BY DEF RowsQuiet
    <3> QED BY <1>2, <2>1, <3>1, <3>2, <3>3, <3>4 DEF LoginFits
  <2> QED BY <2>1 DEF CallsQuiet
<1>6. InsFit'
  BY <1>2 DEF TelegramInv, InsFit, RowsQuiet
<1>7. AccountsFit'
  BY DEF TelegramInv, AccountsFit, KnownBy
<1>8. ASSUME NEW k \in DOMAIN issued
      PROVE  issued[k].misses + Cardinality(Missing(k)') < MaxLoginAttempts + Cardinality(AnyCalls)
  <2>1. Missing(k)' \subseteq Missing(k)
    BY DEF Missing, CallsQuiet
  <2>2. IsFiniteSet(Missing(k)) /\ Cardinality(AnyCalls) \in Nat
    BY GuessesFit, FS_Subset, FS_CardinalityType DEF Missing
  <2>3. /\ Cardinality(Missing(k)') <= Cardinality(Missing(k))
        /\ Cardinality(Missing(k)') \in Nat /\ Cardinality(Missing(k)) \in Nat
    BY <2>1, <2>2, FS_Subset, FS_CardinalityType
  <2>4. issued[k] \in LoginCodes
    BY DEF TelegramInv, LoginsTyped
  <2>5. issued[k].misses + Cardinality(Missing(k)) < MaxLoginAttempts + Cardinality(AnyCalls)
    BY DEF TelegramInv, GuessesBounded
  <2> QED BY <2>2, <2>3, <2>4, <2>5, GuessesFit DEF LoginCodes
<1>9. GuessesBounded'
  BY <1>8 DEF GuessesBounded
<1> QED BY <1>1, <1>3, <1>4, <1>5, <1>6, <1>7, <1>9 DEF TelegramInv, CallsQuiet
-----------------------------------------------------------------------------
(* One row is written.                                                      *)
LEMMA RowIsQuiet ==
    ASSUME TelegramInv, NEW s \in DOMAIN login, NEW r \in LoginRows,
           login' = [login EXCEPT ![s] = r],
           r.code = login[s].code, r.tries = login[s].tries,
               login[s].consumed => r.consumed,
           r.status = "code_issued" =>
              login[s].status = "code_issued" /\ r.tg = login[s].tg
                  /\ r.phone = login[s].phone,
           r.status \in {"failed", "consumed"} => r.consumed \/ r.status = login[s].status
    PROVE  RowsQuiet
<1>1. login \in Seq(LoginRows) /\ s \in 1 .. Len(login)
  BY DEF TelegramInv, LoginsTyped
<1>2. /\ login' \in Seq(LoginRows) /\ DOMAIN login' = DOMAIN login
      /\ \A t \in DOMAIN login : login'[t] = IF t = s THEN r ELSE login[t]
  BY <1>1, ExceptSeq
<1> QED BY <1>2 DEF RowsQuiet

(* A row is added.                                                          *)
LEMMA NewRowIsQuiet ==
    ASSUME TelegramInv, NEW r \in LoginRows, login' = Append(login, r),
           r.code = 0, r.status \notin {"code_issued", "failed", "consumed"}
    PROVE  RowsQuiet /\ Len(login) + 1 \in DOMAIN login'
<1>1. login \in Seq(LoginRows)
  BY DEF TelegramInv, LoginsTyped
<1>2. /\ login' \in Seq(LoginRows) /\ DOMAIN login' = DOMAIN login \union {Len(login) + 1}
      /\ \A t \in DOMAIN login : login'[t] = login[t]
      /\ login'[Len(login) + 1] = r
  BY <1>1
<1> QED BY <1>2 DEF RowsQuiet

LEMMA SameRowsAreQuiet ==
    ASSUME TelegramInv, login' = login PROVE RowsQuiet
BY DEF TelegramInv, LoginsTyped, RowsQuiet

(* One request goes on.                                                     *)
LEMMA RequestIsQuiet ==
    ASSUME TelegramInv, NEW c \in AnyCalls, NEW r, logging' = [logging EXCEPT ![c] = r],
           r.at # "miss",
           logging'[c] = r => LoginFits(c)'
    PROVE  CallsQuiet
<1>1. DOMAIN logging' = AnyCalls
          /\ \A d \in AnyCalls : logging'[d] = IF d = c THEN r ELSE logging[d]
  BY DEF TelegramInv, LoginsTyped
<1>2. ASSUME NEW d \in AnyCalls
      PROVE  logging'[d] = logging[d] \/ (logging'[d].at # "miss" /\ LoginFits(d)')
  BY <1>1
<1> QED BY <1>1, <1>2 DEF CallsQuiet

LEMMA EndIsQuiet ==
    ASSUME TelegramInv, NEW c \in AnyCalls,
           logging' = [logging EXCEPT ![c] = Telegram!Idle] PROVE CallsQuiet
<1>1. Telegram!Idle.at = "idle"
  BY DEF Telegram!Idle
<1>2. logging'[c] = Telegram!Idle => LoginFits(c)'
  BY <1>1 DEF LoginFits
<1> QED BY <1>1, <1>2, RequestIsQuiet

LEMMA SameCallsAreQuiet ==
    ASSUME TelegramInv, logging' = logging PROVE CallsQuiet
<1>1. DOMAIN logging' = AnyCalls
  BY DEF TelegramInv, LoginsTyped
<1>2. ASSUME NEW d \in AnyCalls PROVE logging'[d] = logging[d]
  OBVIOUS
<1> QED BY <1>1, <1>2 DEF CallsQuiet

-----------------------------------------------------------------------------
(* A fresh row, and what a row may become without a code.                   *)
LEMMA FreshRow ==
    ASSUME NEW app \in {"known", "unknown", "never"},
           NEW t \in LoginTelegrams \union {Telegram!None},
           NEW status \in {"pending_bot", "awaiting_contact"}
    PROVE  /\ Telegram!Row(app, t, status) \in LoginRows
           /\ Telegram!Row(app, t, status).code = 0
           /\ Telegram!Row(app, t, status).status = status
BY DEF Telegram!Row, LoginRows, Telegram!None

LEMMA StartKeeps ==
    ASSUME TelegramInv, Telegram!Start PROVE TelegramInv'
<1> DEFINE r == Telegram!Row("known", Telegram!None, "pending_bot")
<1>1. r \in LoginRows /\ r.code = 0 /\ r.status = "pending_bot"
  BY FreshRow
<1>2. login' = Append(login, r) /\ UNCHANGED <<issued, telegramOf, logging, entered>>
  BY DEF Telegram!Start
<1> HIDE DEF r
<1> QED BY <1>1, <1>2, NewRowIsQuiet, SameCallsAreQuiet, QuietKeeps

(* What changes of a row besides its verdict and its code.                  *)
LEMMA MarkKeeps ==
    ASSUME TelegramInv, NEW s \in DOMAIN login,
           \/ login' = [login EXCEPT ![s].app = "known"]
           \/ login' = [login EXCEPT ![s].expired = TRUE]
           \/ login' = [login EXCEPT ![s].cool = FALSE],
           UNCHANGED <<issued, telegramOf, logging, entered>>
    PROVE  TelegramInv'
<1> DEFINE a == [login[s] EXCEPT !.app = "known"]
           b == [login[s] EXCEPT !.expired = TRUE]
           d == [login[s] EXCEPT !.cool = FALSE]
<1>1. login[s] \in LoginRows
  BY DEF TelegramInv, LoginsTyped
<1>2. ASSUME NEW r \in {a, b, d}
      PROVE  /\ r \in LoginRows /\ r.code = login[s].code /\ r.tries = login[s].tries
             /\ r.consumed = login[s].consumed /\ r.status = login[s].status
             /\ r.tg = login[s].tg /\ r.phone = login[s].phone
  BY <1>1, <1>2 DEF LoginRows
<1>3. PICK r \in {a, b, d} : login' = [login EXCEPT ![s] = r]
  OBVIOUS
<1> HIDE DEF a, b, d
<1>4. RowsQuiet
  BY <1>2, <1>3, RowIsQuiet
<1> QED BY <1>4, SameCallsAreQuiet, QuietKeeps

LEMMA LoginFails ==
    ASSUME TelegramInv, NEW c \in AnyCalls, Telegram!Fail(c) PROVE TelegramInv'
BY SameRowsAreQuiet, EndIsQuiet, QuietKeeps DEF Telegram!Fail

(* A request begins that finds the rows as they are.                        *)
LEMMA LoginBegins ==
    ASSUME TelegramInv, NEW c \in AnyCalls, NEW r, Telegram!Begin(c, r),
           UNCHANGED <<login, issued, telegramOf, entered>>,
           r.at # "miss", logging'[c] = r => LoginFits(c)'
    PROVE  TelegramInv'
<1>1. logging' = [logging EXCEPT ![c] = r]
  BY DEF Telegram!Begin
<1> QED BY <1>1, RequestIsQuiet, SameRowsAreQuiet, QuietKeeps

LEMMA BeginLinkKeeps ==
    ASSUME TelegramInv, NEW c \in AnyCalls, NEW t \in LoginTelegrams,
           NEW s \in DOMAIN login, Telegram!BeginLink(c, s, t)
    PROVE  TelegramInv'
<1> DEFINE r == [at |-> "link", row |-> s, tg |-> t, phone |-> telegramOf[t]]
<1>1. Telegram!Begin(c, r) /\ UNCHANGED <<login, issued, telegramOf, entered>>
  BY DEF Telegram!BeginLink
<1>2. telegramOf[t] \in LoginPhones \union {Telegram!None}
  BY DEF TelegramInv, LoginsTyped
<1>3. r.at = "link" /\ r.row = s /\ r.tg = t /\ r.phone = telegramOf[t]
  OBVIOUS
<1> HIDE DEF r
<1>4. logging'[c] = r => LoginFits(c)'
  BY <1>1, <1>2, <1>3 DEF LoginFits
<1> QED BY <1>1, <1>3, <1>4, LoginBegins

(* An issue may begin for any session, account and number.                  *)
LEMMA IssueBegins ==
    ASSUME TelegramInv, NEW c \in AnyCalls, NEW s \in DOMAIN login,
           NEW t \in LoginTelegrams, NEW p \in LoginPhones,
           Telegram!Begin(c, [at |-> "issue", row |-> s, tg |-> t, phone |-> p]),
           UNCHANGED <<login, issued, telegramOf, entered>>
    PROVE  TelegramInv'
<1> DEFINE r == [at |-> "issue", row |-> s, tg |-> t, phone |-> p]
<1>1. r.at = "issue" /\ r.row = s /\ r.tg = t /\ r.phone = p /\ Telegram!Begin(c, r)
  OBVIOUS
<1> HIDE DEF r
<1>2. logging'[c] = r => LoginFits(c)'
  BY <1>1 DEF LoginFits
<1> QED BY <1>1, <1>2, LoginBegins

LEMMA IssuingIsQuiet ==
    ASSUME TelegramInv, NEW c \in AnyCalls, NEW s \in DOMAIN login',
           NEW t \in LoginTelegrams,
           NEW p \in LoginPhones \union {Telegram!None}, Telegram!Issuing(c, s, t, p)
    PROVE  CallsQuiet
<1> DEFINE r == [at |-> "issue", row |-> s, tg |-> t, phone |-> p]
<1>1. CASE p = Telegram!None
  BY <1>1, EndIsQuiet DEF Telegram!Issuing
<1>2. CASE p # Telegram!None
  <2>1. r.at = "issue" /\ r.row = s /\ r.tg = t /\ r.phone = p
    OBVIOUS
  <2>2. logging' = [logging EXCEPT ![c] = r] /\ p \in LoginPhones
    BY <1>2 DEF Telegram!Issuing
  <2> HIDE DEF r
  <2>3. logging'[c] = r => LoginFits(c)'
    BY <2>1, <2>2 DEF LoginFits
  <2> QED BY <2>1, <2>2, <2>3, RequestIsQuiet
<1> QED BY <1>1, <1>2

LEMMA LinkKeeps ==
    ASSUME TelegramInv, NEW c \in AnyCalls, Telegram!Link(c) PROVE TelegramInv'
<1> DEFINE s == logging[c].row
           t == logging[c].tg
           p == logging[c].phone
           status == IF p = Telegram!None THEN "awaiting_contact" ELSE "pending_bot"
           r == [login[s] EXCEPT !.tg = t, !.status = status]
<1>1. s \in DOMAIN login /\ t \in LoginTelegrams /\ p \in LoginPhones \union {Telegram!None}
  BY DEF Telegram!Link, TelegramInv, LoginFits
<1>2. login[s] \in LoginRows
  BY <1>1 DEF TelegramInv, LoginsTyped
<1>3. login' = [login EXCEPT ![s].tg = t, ![s].status = status]
          /\ Telegram!Issuing(c, s, t, p)
      /\ UNCHANGED <<issued, telegramOf, entered>>
  BY DEF Telegram!Link
<1> HIDE DEF s, t, p
<1>4. login' = [login EXCEPT ![s] = r]
  BY <1>1, <1>2, <1>3 DEF LoginRows
<1>5. /\ r \in LoginRows /\ r.code = login[s].code /\ r.tries = login[s].tries
      /\ r.consumed = login[s].consumed
      /\ r.status \notin {"code_issued", "failed", "consumed"}
  BY <1>1, <1>2 DEF LoginRows
<1> HIDE DEF r
<1>6. RowsQuiet
  BY <1>1, <1>4, <1>5, RowIsQuiet
<1>7. CallsQuiet
  BY <1>1, <1>3, <1>6, IssuingIsQuiet DEF RowsQuiet
<1> QED BY <1>3, <1>6, <1>7, QuietKeeps

LEMMA LoginCreated ==
    ASSUME TelegramInv, NEW c \in AnyCalls, NEW t \in LoginTelegrams,
           NEW app \in {"unknown", "never"},
           Telegram!Create(c, t, app)
    PROVE  TelegramInv'
<1> DEFINE r == Telegram!Row(app, t, Telegram!Opening(t))
<1>1. r \in LoginRows /\ r.code = 0 /\ r.status \notin {"code_issued", "failed", "consumed"}
  BY FreshRow DEF Telegram!Opening
<1>2. /\ login' = Append(login, r) /\ Telegram!Issuing(c, Len(login) + 1, t, telegramOf[t])
      /\ UNCHANGED <<issued, telegramOf, entered>>
  BY DEF Telegram!Create
<1> HIDE DEF r
<1>3. RowsQuiet /\ Len(login) + 1 \in DOMAIN login'
  BY <1>1, <1>2, NewRowIsQuiet
<1>4. telegramOf[t] \in LoginPhones \union {Telegram!None}
  BY DEF TelegramInv, LoginsTyped
<1>5. CallsQuiet
  BY <1>2, <1>3, <1>4, IssuingIsQuiet
<1> QED BY <1>2, <1>3, <1>5, QuietKeeps

LEMMA PlainStartKeeps ==
    ASSUME TelegramInv, NEW c \in AnyCalls, NEW t \in LoginTelegrams,
           Telegram!PlainStart(c, t)
    PROVE  TelegramInv'
<1>1. CASE Telegram!Create(c, t, "never")
  BY <1>1, LoginCreated
<1>2. CASE /\ Telegram!Linked(t)
          /\ UNCHANGED <<login, issued, loginUsers, telegramOf, entered>>
           /\ \E s \in Telegram!Waiting(t, {"code_issued"}) :
                 Telegram!Begin(c, [at |-> "issue", row |-> s, tg |-> t, phone |-> telegramOf[t]])
  <2>1. telegramOf[t] \in LoginPhones
    BY <1>2 DEF TelegramInv, LoginsTyped, Telegram!Linked
  <2>2. \A s \in Telegram!Waiting(t, {"code_issued"}) : s \in DOMAIN login
    BY DEF Telegram!Waiting
  <2> QED BY <1>2, <2>1, <2>2, IssueBegins
<1> QED BY <1>1, <1>2 DEF Telegram!PlainStart

LEMMA ContactKeeps ==
    ASSUME TelegramInv, NEW c \in AnyCalls, NEW t \in LoginTelegrams,
           NEW p \in LoginPhones, Telegram!Contact(c, t, p)
    PROVE  TelegramInv'
<1>1. \A s \in Telegram!Waiting(t, {"awaiting_contact", "code_issued"}) : s \in DOMAIN login
  BY DEF Telegram!Waiting
<1> QED BY <1>1, IssueBegins DEF Telegram!Contact

(* A session ends with a verdict.                                           *)
LEMMA EndingKeeps ==
    ASSUME TelegramInv, NEW c \in AnyCalls,
           Telegram!Shut(c) \/ Telegram!Conflict(c) PROVE TelegramInv'
<1> DEFINE s == logging[c].row
           r == [login[s] EXCEPT !.consumed = TRUE, !.status = "failed"]
<1>1. s \in DOMAIN login
  BY DEF Telegram!Shut, Telegram!Conflict, TelegramInv, LoginFits
<1>2. login[s] \in LoginRows
  BY <1>1 DEF TelegramInv, LoginsTyped
<1>3. /\ login' = login
          \/ login' = [login EXCEPT ![s].consumed = TRUE, ![s].status = "failed"]
      /\ logging' = [logging EXCEPT ![c] = Telegram!Idle] /\ UNCHANGED <<issued,
            telegramOf, entered>>
  BY DEF Telegram!Shut, Telegram!Conflict
<1> HIDE DEF s
<1>4. login' = login \/ login' = [login EXCEPT ![s] = r]
  BY <1>1, <1>2, <1>3 DEF LoginRows
<1>5. /\ r \in LoginRows /\ r.code = login[s].code /\ r.tries = login[s].tries
      /\ r.consumed /\ r.status = "failed"
  BY <1>2 DEF LoginRows
<1> HIDE DEF r
<1>6. RowsQuiet
  BY <1>1, <1>4, <1>5, RowIsQuiet, SameRowsAreQuiet
<1> QED BY <1>3, <1>6, EndIsQuiet, QuietKeeps
(* Without new codes and logins these are as they were.                     *)
LEMMA NothingNew ==
    ASSUME UNCHANGED <<issued, entered>>
    PROVE  /\ \A x, y, z : SentTo(x, y, z)' <=> SentTo(x, y, z)
           /\ \A t, u : KnownBy(t, u)' <=> KnownBy(t, u)
BY DEF SentTo, KnownBy

LEMMA MatchedKeeps ==
    ASSUME TelegramInv, NEW c \in AnyCalls, Telegram!Match(c) PROVE TelegramInv'
<1> DEFINE t == logging[c].tg
           p == logging[c].phone
           a == [at |-> "conflict", row |-> logging[c].row]
           b == [at |-> "enter", row |-> logging[c].row, tg |-> t, phone |-> p, code |-> logging[c].code,
                 user |-> IF telegramOf[t] # Telegram!None THEN telegramOf[t] ELSE p]
<1>1. /\ logging[c].row \in DOMAIN login /\ SentTo(logging[c].code, t, p)
      /\ t \in LoginTelegrams /\ p \in LoginPhones
  BY DEF Telegram!Match, TelegramInv, LoginFits, SentTo
<1>2. \E r \in {a, b} : logging' = [logging EXCEPT ![c] = r]
  <2> HIDE DEF a, b
  <2> QED BY DEF Telegram!Match, a, b
<1>3. UNCHANGED <<login, issued, telegramOf, entered>>
  BY DEF Telegram!Match
<1>4. telegramOf[t] \in LoginPhones \union {Telegram!None}
          /\ (telegramOf[t] # Telegram!None => KnownBy(t, telegramOf[t]))
  BY <1>1 DEF TelegramInv, LoginsTyped, AccountsFit
<1>5. CASE logging' = [logging EXCEPT ![c] = a]
  <2>1. a.at = "conflict" /\ a.row = logging[c].row
    OBVIOUS
  <2> HIDE DEF a
  <2>2. logging'[c] = a => LoginFits(c)'
    BY <1>1, <1>3, <2>1 DEF LoginFits
  <2>3. CallsQuiet
    BY <1>5, <2>1, <2>2, RequestIsQuiet
  <2> QED BY <1>3, <2>3, SameRowsAreQuiet, QuietKeeps
<1>6. CASE logging' = [logging EXCEPT ![c] = b]
  <2>1. /\ b.at = "enter" /\ b.row = logging[c].row /\ b.tg = t /\ b.phone = p
        /\ b.code = logging[c].code
              /\ b.user = IF telegramOf[t] # Telegram!None THEN telegramOf[t] ELSE p
    OBVIOUS
  <2> HIDE DEF b, t, p
  <2>2. SentTo(b.code, b.tg, b.phone)
    BY <1>1, <2>1
  <2>3. b.user \in LoginPhones /\ (b.user = b.phone \/ KnownBy(b.tg, b.user))
    BY <1>1, <1>4, <2>1
  <2>4. logging'[c] = b => LoginFits(c)'
    BY <1>1, <1>3, <2>1, <2>2, <2>3, NothingNew DEF LoginFits
  <2>5. CallsQuiet
    BY <1>6, <2>1, <2>4, RequestIsQuiet
  <2> QED BY <1>3, <2>5, SameRowsAreQuiet, QuietKeeps
<1> QED BY <1>2, <1>5, <1>6

-----------------------------------------------------------------------------
(* Guesses: one more call than there were is under way at most.             *)
LEMMA MissingFinite ==
    ASSUME NEW k
    PROVE  /\ IsFiniteSet(Missing(k)) /\ IsFiniteSet(Missing(k)')
           /\ Cardinality(Missing(k)) \in Nat /\ Cardinality(Missing(k)') \in Nat
           /\ Cardinality(Missing(k)) <= Cardinality(AnyCalls)
           /\ Cardinality(Missing(k)') <= Cardinality(AnyCalls)
           /\ Cardinality(AnyCalls) \in Nat
<1>1. Missing(k) \subseteq AnyCalls /\ Missing(k)' \subseteq AnyCalls
  BY DEF Missing
<1> QED BY <1>1, GuessesFit, FS_Subset, FS_CardinalityType

LEMMA MissBegins ==
    ASSUME TelegramInv, NEW c \in AnyCalls, NEW s \in DOMAIN login,
           login[s].status = "code_issued", login[s].tries < MaxLoginAttempts,
           Telegram!Begin(c, [at |-> "miss", row |-> s, tries |-> login[s].tries, code |-> login[s].code]),
           UNCHANGED <<login, issued, telegramOf, entered>>
    PROVE  TelegramInv'
<1> DEFINE r == [at |-> "miss", row |-> s, tries |-> login[s].tries, code |-> login[s].code]
           k == login[s].code
<1>1. /\ login[s] \in LoginRows /\ issued \in Seq(LoginCodes) /\ RowFits(s)
      /\ k \in DOMAIN issued
  <2>1. login \in Seq(LoginRows) /\ issued \in Seq(LoginCodes) /\ RowFits(s)
    BY DEF TelegramInv, LoginsTyped
  <2>2. login[s] \in LoginRows
    BY <2>1
  <2>3. k \in DOMAIN issued
    BY <2>1 DEF RowFits, SentTo
  <2> QED BY <2>1, <2>2, <2>3
<1>2. r.at = "miss" /\ r.row = s /\ r.tries = login[s].tries /\ r.code = k
  OBVIOUS
<1>3. logging' = [logging EXCEPT ![c] = r]
  BY DEF Telegram!Begin
<1> HIDE DEF r, k
<1>4. DOMAIN logging' = AnyCalls
          /\ \A d \in AnyCalls : logging'[d] = IF d = c THEN r ELSE logging[d]
  BY <1>3 DEF TelegramInv, LoginsTyped
<1>5. LoginsTyped'
  BY <1>4 DEF TelegramInv, LoginsTyped
<1>6. (\A x \in DOMAIN login : RowFits(x))' /\ CodesApart' /\ InsFit' /\ AccountsFit'
  <2>1. /\ \A x \in DOMAIN login : RowFits(x)
        /\ CodesApart /\ InsFit /\ AccountsFit
    BY DEF TelegramInv
  <2>2. \A x \in DOMAIN login' : RowFits(x)'
    BY <2>1, NothingNew DEF RowFits
  <2>3. CodesApart'
    BY <2>1 DEF CodesApart
  <2>4. InsFit'
    BY <2>1, NothingNew DEF InsFit
  <2>5. AccountsFit'
    BY <2>1, NothingNew DEF AccountsFit
  <2> QED BY <2>2, <2>3, <2>4, <2>5
<1>7. ASSUME NEW d \in AnyCalls PROVE LoginFits(d)'
  <2>1. CASE d = c
    <3>1. r.tries \in Nat
      BY <1>1, <1>2 DEF LoginRows
    <3>2. \A x \in DOMAIN login : login[x].code = k => x = s
      BY <1>1 DEF TelegramInv, CodesApart, k
    <3> QED BY <1>1, <1>2, <1>4, <2>1, <3>1, <3>2 DEF LoginFits
  <2>2. CASE d # c
    <3>1. logging'[d] = logging[d] /\ LoginFits(d)
      BY <1>4, <2>2 DEF TelegramInv
    <3> QED BY <3>1 DEF LoginFits, SentTo, KnownBy
  <2> QED BY <2>1, <2>2
<1>8. ASSUME NEW j \in DOMAIN issued
      PROVE  issued[j].misses + Cardinality(Missing(j)') < MaxLoginAttempts + Cardinality(AnyCalls)
  <2>1. issued[j].misses \in Nat
    <3>1. issued[j] \in LoginCodes
      BY <1>1
    <3> QED BY <3>1 DEF LoginCodes
  <2>2. CASE j = k
    <3>1. issued[j].misses <= login[s].tries /\ login[s].tries \in Nat
      BY <1>1, <2>2 DEF RowFits, LoginRows, k
    <3> QED BY GuessesFit, <2>1, <3>1, MissingFinite
  <2>3. CASE j # k
    <3>1. Missing(j)' \subseteq Missing(j)
      BY <1>2, <1>4, <2>3 DEF Missing
    <3>2. Cardinality(Missing(j)') <= Cardinality(Missing(j))
      BY <3>1, MissingFinite, FS_Subset
    <3>3. issued[j].misses + Cardinality(Missing(j)) < MaxLoginAttempts + Cardinality(AnyCalls)
      BY DEF TelegramInv, GuessesBounded
    <3> QED BY GuessesFit, <2>1, <3>2, <3>3, MissingFinite
  <2> QED BY <2>2, <2>3
<1>9. GuessesBounded'
  BY <1>8 DEF GuessesBounded
<1> QED BY <1>5, <1>6, <1>7, <1>9 DEF TelegramInv

LEMMA BeginVerifyKeeps ==
    ASSUME TelegramInv, NEW c \in AnyCalls, NEW s \in DOMAIN login,
           Telegram!BeginVerify(c, s)
    PROVE  TelegramInv'
<1> DEFINE a == [at |-> "shut", row |-> s]
           b == [at |-> "match", row |-> s, tg |-> login[s].tg, phone |-> login[s].phone,
                 code |-> login[s].code]
<1>1. login[s].status = "code_issued" /\ UNCHANGED <<login, issued, telegramOf, entered>>
  BY DEF Telegram!BeginVerify
<1>2. CASE Telegram!Begin(c, a)
  <2>1. a.at = "shut" /\ a.row = s
    OBVIOUS
  <2> HIDE DEF a
  <2>2. logging'[c] = a => LoginFits(c)'
    BY <1>1, <2>1 DEF LoginFits
  <2> QED BY <1>1, <1>2, <2>1, <2>2, LoginBegins
<1>3. CASE Telegram!Begin(c, b)
  <2>1. b.at = "match" /\ b.row = s /\ b.tg = login[s].tg /\ b.phone = login[s].phone
        /\ b.code = login[s].code
    OBVIOUS
  <2> HIDE DEF b
  <2>2. SentTo(b.code, b.tg, b.phone)
    BY <1>1, <2>1 DEF TelegramInv, RowFits
  <2>3. logging'[c] = b => LoginFits(c)'
    BY <1>1, <2>1, <2>2, NothingNew DEF LoginFits
  <2> QED BY <1>1, <1>3, <2>1, <2>3, LoginBegins
<1>4. CASE /\ login[s].tries < MaxLoginAttempts
           /\ Telegram!Begin(c, [at |-> "miss", row |-> s, tries |-> login[s].tries,
                 code |-> login[s].code])
  BY <1>1, <1>4, MissBegins
<1> QED BY <1>2, <1>3, <1>4 DEF Telegram!BeginVerify
-----------------------------------------------------------------------------
(* Codes and logins stay; no session takes a code that a guess is made for. *)
NothingLost ==
    /\ DOMAIN login' = DOMAIN login /\ DOMAIN issued \subseteq DOMAIN issued'
    /\ \A x, y, z : SentTo(x, y, z) => SentTo(x, y, z)'
    /\ \A t, u : KnownBy(t, u) => KnownBy(t, u)'
    /\ \A s \in DOMAIN login : login'[s].code = login[s].code
          \/ login'[s].code \notin DOMAIN issued

LEMMA LoginEnds ==
    ASSUME TelegramInv, NEW c \in AnyCalls,
           logging' = [logging EXCEPT ![c] = Telegram!Idle], NothingLost
    PROVE  /\ DOMAIN logging' = AnyCalls
           /\ \A d \in AnyCalls : LoginFits(d)'
           /\ \A k : /\ Missing(k)' = Missing(k) \ {c}
                     /\ Cardinality(Missing(k)') <= Cardinality(Missing(k))
<1>1. DOMAIN logging' = AnyCalls
          /\ \A d \in AnyCalls : logging'[d] = IF d = c THEN Telegram!Idle ELSE logging[d]
  BY DEF TelegramInv, LoginsTyped
<1>2. Telegram!Idle.at = "idle"
  BY DEF Telegram!Idle
<1>3. ASSUME NEW d \in AnyCalls PROVE LoginFits(d)'
  <2>1. CASE d = c
    BY <1>1, <1>2, <2>1 DEF LoginFits
  <2>2. CASE d # c
    <3>1. logging'[d] = logging[d] /\ LoginFits(d)
      BY <1>1, <2>2 DEF TelegramInv
    <3>2. logging[d].at = "miss" =>
             /\ logging[d].code \in DOMAIN issued'
             /\ \A x \in DOMAIN login' : login'[x].code = logging[d].code
                   => x = logging[d].row
      BY <3>1 DEF LoginFits, NothingLost
    <3> QED BY <3>1, <3>2 DEF LoginFits, NothingLost
  <2> QED BY <2>1, <2>2
<1>4. ASSUME NEW k
      PROVE  /\ Missing(k)' = Missing(k) \ {c}
             /\ Cardinality(Missing(k)') <= Cardinality(Missing(k))
  <2>1. Missing(k)' = Missing(k) \ {c}
    BY <1>1, <1>2 DEF Missing
  <2>2. Missing(k)' \subseteq Missing(k) /\ IsFiniteSet(Missing(k))
    BY <2>1, MissingFinite
  <2> QED BY <2>1, <2>2, FS_Subset
<1> QED BY <1>1, <1>3, <1>4

(* The bound of a code's guesses, where no guess was made.                  *)
LEMMA GuessesStay ==
    ASSUME TelegramInv, issued' \in Seq(LoginCodes), DOMAIN issued \subseteq DOMAIN issued',
           \A k \in DOMAIN issued : issued'[k].misses = issued[k].misses,
           \A k \in DOMAIN issued' \ DOMAIN issued : issued'[k].misses = 0,
           \A k : Cardinality(Missing(k)') <= Cardinality(Missing(k))
    PROVE  GuessesBounded'
<1>1. ASSUME NEW k \in DOMAIN issued'
      PROVE  issued'[k].misses + Cardinality(Missing(k)') < MaxLoginAttempts + Cardinality(AnyCalls)
  <2>1. issued'[k] \in LoginCodes
    OBVIOUS
  <2>2. CASE k \in DOMAIN issued
    <3>1. issued'[k].misses = issued[k].misses /\ issued'[k].misses \in Nat
      BY <2>1, <2>2 DEF LoginCodes
    <3>2. issued[k].misses + Cardinality(Missing(k)) < MaxLoginAttempts + Cardinality(AnyCalls)
      BY <2>2 DEF TelegramInv, GuessesBounded
    <3>3. Cardinality(Missing(k)') <= Cardinality(Missing(k))
      OBVIOUS
    <3> QED BY GuessesFit, <3>1, <3>2, <3>3, MissingFinite
  <2>3. CASE k \notin DOMAIN issued
    BY GuessesFit, <2>3, MissingFinite
  <2> QED BY <2>2, <2>3
<1> QED BY <1>1 DEF GuessesBounded

(* The code of the last minute is sent to one more.                         *)
LEMMA SameCodeKeeps ==
    ASSUME TelegramInv, NEW c \in AnyCalls, NEW s \in DOMAIN login,
           login[s].status = "code_issued",
           NEW to \in [tg : LoginTelegrams, phone : LoginPhones],
           issued' = [issued EXCEPT ![login[s].code].to = @ \union {to}],
           logging' = [logging EXCEPT ![c]
               = Telegram!Idle], UNCHANGED <<login, telegramOf, entered>>
    PROVE  TelegramInv'
<1> DEFINE k == login[s].code
           m == [issued[k] EXCEPT !.to = @ \union {to}]
<1>1. issued \in Seq(LoginCodes) /\ k \in DOMAIN issued
  BY DEF TelegramInv, LoginsTyped, RowFits, SentTo
<1>2. issued[k] \in LoginCodes
  BY <1>1
<1>3. m \in LoginCodes /\ m.misses = issued[k].misses /\ issued[k].to \subseteq m.to
  BY <1>2 DEF LoginCodes
<1>4. issued' = [issued EXCEPT ![k] = m]
  BY <1>1, <1>2 DEF LoginCodes
<1> HIDE DEF k, m
<1>5. /\ issued' \in Seq(LoginCodes) /\ DOMAIN issued' = DOMAIN issued
          /\ Len(issued') = Len(issued)
      /\ \A j \in DOMAIN issued : issued'[j] = IF j = k THEN m ELSE issued[j]
  <2>1. k \in 1 .. Len(issued)
    BY <1>1
  <2>2. issued \in Seq(LoginCodes) /\ m \in LoginCodes
    BY <1>1, <1>3
  <2>3. /\ [issued EXCEPT ![k] = m] \in Seq(LoginCodes)
        /\ Len([issued EXCEPT ![k] = m]) = Len(issued)
        /\ \A j \in 1 .. Len(issued) : [issued EXCEPT ![k] = m][j] = IF j
              = k THEN m ELSE issued[j]
    BY <2>1, <2>2, ExceptSeq
  <2> QED BY <1>1, <1>4, <2>3
<1>6. \A j \in DOMAIN issued : issued'[j].misses = issued[j].misses
          /\ issued[j].to \subseteq issued'[j].to
  BY <1>3, <1>5
<1>7. NothingLost
  BY <1>5, <1>6 DEF NothingLost, SentTo, KnownBy
<1>8. /\ DOMAIN logging' = AnyCalls /\ \A d \in AnyCalls : LoginFits(d)'
      /\ \A j : Cardinality(Missing(j)') <= Cardinality(Missing(j))
  BY <1>7, LoginEnds
<1>9. GuessesBounded'
  BY <1>5, <1>6, <1>8, GuessesStay
<1>10. LoginsTyped'
  BY <1>5, <1>8 DEF TelegramInv, LoginsTyped
<1>11. ASSUME NEW x \in DOMAIN login' PROVE RowFits(x)'
  <2>1. RowFits(x)
    BY DEF TelegramInv
  <2>2. login[x].status = "code_issued" =>
           /\ SentTo(login[x].code, login[x].tg, login[x].phone)'
           /\ issued'[login[x].code].misses <= login[x].tries
    BY <1>6, <1>7, <2>1 DEF RowFits, SentTo, NothingLost
  <2> QED BY <1>5, <2>1, <2>2 DEF RowFits
<1>12. CodesApart'
  BY DEF TelegramInv, CodesApart
<1>13. InsFit'
  BY <1>7 DEF TelegramInv, InsFit, NothingLost
<1>14. AccountsFit'
  BY <1>7 DEF TelegramInv, AccountsFit, NothingLost
<1> QED BY <1>8, <1>9, <1>10, <1>11, <1>12, <1>13, <1>14 DEF TelegramInv

(* A new code, of the session's own.                                        *)
LEMMA NewCodeKeeps ==
    ASSUME TelegramInv, NEW c \in AnyCalls, NEW s \in DOMAIN login,
           NEW t \in LoginTelegrams, NEW p \in LoginPhones,
           NEW to, to = [tg |-> t, phone |-> p],
           NEW m \in LoginCodes, issued' = Append(issued, m), m.to = {to}, m.misses = 0,
           NEW r \in LoginRows, login' = [login EXCEPT ![s] = r], r.status = "code_issued",
           r.tg = t, r.phone = p, r.code = Len(issued) + 1, r.tries = 0,
               r.consumed = login[s].consumed,
           logging' = [logging EXCEPT ![c]
               = Telegram!Idle], UNCHANGED <<telegramOf, entered>>
    PROVE  TelegramInv'
<1> DEFINE n == Len(issued) + 1
<1>1. issued \in Seq(LoginCodes) /\ login \in Seq(LoginRows) /\ s \in 1 .. Len(login)
  BY DEF TelegramInv, LoginsTyped
<1>2. /\ issued' \in Seq(LoginCodes) /\ DOMAIN issued' = DOMAIN issued \union {n}
      /\ n \notin DOMAIN issued /\ Len(issued') = n
      /\ \A j \in DOMAIN issued : issued'[j] = issued[j]
      /\ issued'[n] = m
  BY <1>1
<1>3. /\ login' \in Seq(LoginRows) /\ DOMAIN login' = DOMAIN login
      /\ \A x \in DOMAIN login : login'[x] = IF x = s THEN r ELSE login[x]
  BY <1>1, ExceptSeq
<1>4. r.code = n
  OBVIOUS
<1>5. n # 0 /\ 0 .. Len(issued) \subseteq 0 .. n /\ n \in 0 .. n
          /\ n \notin 0 .. Len(issued)
  BY <1>1
<1> HIDE DEF n
<1>6. NothingLost
  BY <1>2, <1>3, <1>4 DEF NothingLost, SentTo, KnownBy
<1>7. /\ DOMAIN logging' = AnyCalls /\ \A d \in AnyCalls : LoginFits(d)'
       /\ \A j : Cardinality(Missing(j)') <= Cardinality(Missing(j))
  BY <1>6, LoginEnds
<1>8. GuessesBounded'
  BY <1>2, <1>7, GuessesStay
<1>9. LoginsTyped'
  BY <1>2, <1>3, <1>7 DEF TelegramInv, LoginsTyped
<1>10. n \in DOMAIN issued' /\ to \in issued'[n].to
  BY <1>2
<1>11. ASSUME NEW x \in DOMAIN login' PROVE RowFits(x)'
  <2>1. CASE x = s
    <3>1. /\ login'[x].code = n /\ login'[x].tg = t /\ login'[x].phone = p
          /\ login'[x].status = "code_issued" /\ login'[x].tries = 0
      BY <1>3, <1>4, <2>1
    <3>2. issued'[n].misses <= 0
      BY <1>2
    <3> QED BY <1>2, <1>5, <1>10, <3>1, <3>2 DEF RowFits, SentTo
  <2>2. CASE x # s
    <3>1. login'[x] = login[x] /\ RowFits(x)
      BY <1>3, <2>2 DEF TelegramInv
    <3>2. login[x].status = "code_issued" =>
             /\ login[x].code \in DOMAIN issued
             /\ issued'[login[x].code].misses <= login[x].tries
      BY <1>2, <3>1 DEF RowFits, SentTo
    <3> QED BY <1>2, <1>5, <1>6, <3>1, <3>2 DEF RowFits, NothingLost
  <2> QED BY <2>1, <2>2
<1>12. CodesApart'
  <2>1. \A x \in DOMAIN login : login[x].code # n
    BY <1>5 DEF TelegramInv, RowFits
  <2>2. ASSUME NEW x \in DOMAIN login
        PROVE  login'[x].code = IF x = s THEN n ELSE login[x].code
    <3>1. CASE x = s
      BY <1>3, <1>4, <3>1
    <3>2. CASE x # s
      BY <1>3, <3>2
    <3> QED BY <3>1, <3>2
  <2>3. \A x, y \in DOMAIN login : login[x].code # 0 /\ login[x].code = login[y].code =>
            x = y
    BY DEF TelegramInv, CodesApart
  <2> QED BY <1>3, <2>1, <2>2, <2>3 DEF CodesApart
<1>13. InsFit'
  <2>1. \A x \in DOMAIN login : login[x].consumed => login'[x].consumed
    BY <1>3
  <2> QED BY <1>6, <2>1 DEF TelegramInv, InsFit, NothingLost
<1>14. AccountsFit'
  BY <1>6 DEF TelegramInv, AccountsFit, NothingLost
<1> QED BY <1>7, <1>8, <1>9, <1>11, <1>12, <1>13, <1>14 DEF TelegramInv

LEMMA IssueKeeps ==
    ASSUME TelegramInv, NEW c \in AnyCalls, Telegram!Issue(c) PROVE TelegramInv'
<1> DEFINE s == logging[c].row
           t == logging[c].tg
           p == logging[c].phone
           to == [tg |-> t, phone |-> p]
<1>1. s \in DOMAIN login /\ t \in LoginTelegrams /\ p \in LoginPhones
  BY DEF Telegram!Issue, TelegramInv, LoginFits
<1>2. to \in [tg : LoginTelegrams, phone : LoginPhones]
  BY <1>1
<1>3. logging' = [logging EXCEPT ![c] = Telegram!Idle] /\ UNCHANGED <<telegramOf, entered>>
  BY DEF Telegram!Issue
<1>4. CASE /\ login[s].status = "code_issued" /\ login' = login
           /\ issued' = [issued EXCEPT ![login[s].code].to = @ \union {to}]
  <2> HIDE DEF s, to
  <2> QED BY <1>1, <1>2, <1>3, <1>4, SameCodeKeeps
<1>5. CASE /\ issued' = Append(issued, [to |-> {to}, misses |-> 0])
           /\ login' = [login EXCEPT ![s] = [@ EXCEPT !.status = "code_issued",
                 !.tg = to.tg,
                                         !.phone = to.phone, !.code = Len(issued) + 1,
                                         !.tries = 0, !.cool = TRUE]]
  <2> DEFINE m == [to |-> {to}, misses |-> 0]
             n == Len(issued) + 1
             r == [login[s] EXCEPT !.status = "code_issued", !.tg = t, !.phone
                 = p, !.code = n,
                                 !.tries = 0, !.cool = TRUE]
  <2>1. issued' = Append(issued, m) /\ login' = [login EXCEPT ![s] = r]
            /\ to = [tg |-> t, phone |-> p]
    BY <1>5
  <2> HIDE DEF s, t, p, to
  <2>2. m \in LoginCodes /\ m.to = {to} /\ m.misses = 0
    BY <1>2 DEF LoginCodes
  <2>3. login[s] \in LoginRows /\ n \in Nat
    BY <1>1 DEF TelegramInv, LoginsTyped
  <2> HIDE DEF m, n
  <2>4. /\ r \in LoginRows /\ r.status = "code_issued" /\ r.tg = t /\ r.phone = p
            /\ r.code = n
        /\ r.tries = 0 /\ r.consumed = login[s].consumed
    BY <1>1, <2>3 DEF LoginRows
  <2> HIDE DEF r
  <2> QED BY <1>1, <1>3, <2>1, <2>2, <2>4, NewCodeKeeps DEF n
<1> QED BY <1>4, <1>5 DEF Telegram!Issue
-----------------------------------------------------------------------------
(* A guess that was wrong.                                                  *)
LEMMA CountedMissKeeps ==
    ASSUME TelegramInv, NEW c \in AnyCalls, Telegram!Miss(c),
           Telegram!Unused(logging[c].row)
    PROVE  TelegramInv'
<1> DEFINE s == logging[c].row
           k == logging[c].code
           limited == logging[c].tries + 1 >= MaxLoginAttempts
           status == IF limited THEN "failed" ELSE login[s].status
           tries == login[s].tries + 1
           r == [login[s] EXCEPT !.tries = tries, !.consumed = limited, !.status = status]
           m == [issued[k] EXCEPT !.misses = @ + 1]
<1>1. /\ s \in DOMAIN login /\ k \in DOMAIN issued /\ logging[c].at = "miss"
      /\ \A x \in DOMAIN login : login[x].code = k => x = s
  BY DEF Telegram!Miss, TelegramInv, LoginFits
<1>2. issued \in Seq(LoginCodes) /\ login \in Seq(LoginRows) /\ s \in 1 .. Len(login)
          /\ k \in 1 .. Len(issued)
  BY <1>1 DEF TelegramInv, LoginsTyped
<1>3. login[s] \in LoginRows /\ issued[k] \in LoginCodes
  BY <1>2
<1>4. /\ login' = [login EXCEPT ![s].tries = login[s].tries + 1, ![s].consumed
          = limited, ![s].status = status]
      /\ issued' = [issued EXCEPT ![k].misses = @ + 1]
      /\ logging' = [logging EXCEPT ![c] = Telegram!Idle] /\ UNCHANGED <<telegramOf,
            entered>>
  BY DEF Telegram!Miss, Telegram!Tried
<1>5. login[s].status = "code_issued" /\ ~login[s].consumed
  BY DEF Telegram!Unused
<1> HIDE DEF s, k, limited
<1>6. login' = [login EXCEPT ![s] = r] /\ issued' = [issued EXCEPT ![k] = m]
  <2>1. login' = [login EXCEPT ![s] = r]
    BY <1>2, <1>3, <1>4 DEF LoginRows
  <2>2. issued' = [issued EXCEPT ![k] = m]
    BY <1>2, <1>3, <1>4 DEF LoginCodes
  <2> QED BY <2>1, <2>2
<1>7. /\ r \in LoginRows /\ r.code = login[s].code /\ r.tries = login[s].tries + 1
      /\ r.tg = login[s].tg /\ r.phone = login[s].phone
      /\ r.status \in {"code_issued", "failed"} /\ (r.status = "failed" => r.consumed)
  <2>1. limited \in BOOLEAN
    BY DEF limited
  <2>2. status \in {"code_issued", "failed"} /\ (status = "failed" => limited)
    BY <1>5
  <2>3. login[s] \in LoginRows /\ tries \in Nat
    BY <1>3 DEF LoginRows
  <2> HIDE DEF status, tries
  <2>4. r \in LoginRows
    BY <2>1, <2>2, <2>3 DEF LoginRows
  <2>5. /\ r.code = login[s].code /\ r.tries = tries /\ r.tg = login[s].tg
        /\ r.phone = login[s].phone /\ r.status = status /\ r.consumed = limited
    BY <2>3 DEF LoginRows
  <2> QED BY <2>2, <2>4, <2>5 DEF tries
<1>8. m \in LoginCodes /\ m.misses = issued[k].misses + 1 /\ m.to = issued[k].to
  BY <1>3 DEF LoginCodes
<1> HIDE DEF r, m
<1>9. /\ login' \in Seq(LoginRows) /\ DOMAIN login' = DOMAIN login
      /\ \A x \in DOMAIN login : login'[x] = IF x = s THEN r ELSE login[x]
  BY <1>2, <1>6, <1>7, ExceptSeq
<1>10. /\ issued' \in Seq(LoginCodes) /\ DOMAIN issued' = DOMAIN issued
           /\ Len(issued') = Len(issued)
       /\ \A j \in DOMAIN issued : issued'[j] = IF j = k THEN m ELSE issued[j]
  BY <1>2, <1>6, <1>8, ExceptSeq
<1>11. \A x, y, z : SentTo(x, y, z)' <=> SentTo(x, y, z)
  BY <1>8, <1>10 DEF SentTo
<1>12. NothingLost
  BY <1>4, <1>7, <1>9, <1>10, <1>11 DEF NothingLost, KnownBy
<1>13. /\ DOMAIN logging' = AnyCalls /\ \A d \in AnyCalls : LoginFits(d)'
       /\ \A j : /\ Missing(j)' = Missing(j) \ {c}
                 /\ Cardinality(Missing(j)') <= Cardinality(Missing(j))
  BY <1>4, <1>12, LoginEnds
<1>14. LoginsTyped'
  BY <1>4, <1>9, <1>10, <1>13 DEF TelegramInv, LoginsTyped
<1>15. ASSUME NEW j \in DOMAIN issued
       PROVE  issued'[j].misses + Cardinality(Missing(j)') < MaxLoginAttempts + Cardinality(AnyCalls)
  <2>1. issued[j].misses + Cardinality(Missing(j)) < MaxLoginAttempts + Cardinality(AnyCalls)
    BY DEF TelegramInv, GuessesBounded
  <2>2. issued[j].misses \in Nat
    <3>1. issued[j] \in LoginCodes
      BY <1>2
    <3> QED BY <3>1 DEF LoginCodes
  <2>3. CASE j = k
    <3>1. c \in Missing(j) /\ IsFiniteSet(Missing(j))
      BY <1>1, <2>3, MissingFinite DEF Missing, k
    <3>2. Cardinality(Missing(j)') = Cardinality(Missing(j)) - 1
      BY <1>13, <3>1, FS_RemoveElement
    <3>3. issued'[j].misses = issued[j].misses + 1
      BY <1>8, <1>10, <2>3
    <3> QED BY GuessesFit, <2>1, <2>2, <3>2, <3>3, MissingFinite
  <2>4. CASE j # k
    <3>1. issued'[j] = issued[j] /\ Cardinality(Missing(j)') <= Cardinality(Missing(j))
      BY <1>10, <1>13, <2>4
    <3> QED BY GuessesFit, <2>1, <2>2, <3>1, MissingFinite
  <2> QED BY <2>3, <2>4
<1>16. GuessesBounded'
  BY <1>10, <1>15 DEF GuessesBounded
<1>17. ASSUME NEW x \in DOMAIN login' PROVE RowFits(x)'
  <2>1. x \in DOMAIN login /\ RowFits(x)
    BY <1>9 DEF TelegramInv
  <2>2. CASE x = s
    <3>1. login'[x] = r
      BY <1>9, <2>1, <2>2
    <3>2. /\ login[s].code \in 0 .. Len(issued) /\ login[s].code \in DOMAIN issued
          /\ SentTo(login[s].code, login[s].tg, login[s].phone)
          /\ issued[login[s].code].misses <= login[s].tries
      BY <1>5, <2>1, <2>2 DEF RowFits, SentTo
    <3>3. issued'[login[s].code].misses <= login[s].tries + 1
      <4>1. issued[login[s].code] \in LoginCodes /\ login[s].tries \in Nat
        BY <1>2, <1>3, <3>2 DEF LoginRows
      <4>2. issued[login[s].code].misses \in Nat
        BY <4>1 DEF LoginCodes
      <4>3. CASE login[s].code = k
        <5>1. issued'[k].misses = issued[k].misses + 1
          BY <1>8, <1>10, <3>2, <4>3
        <5> QED BY <3>2, <4>1, <4>2, <4>3, <5>1
      <4>4. CASE login[s].code # k
        <5>1. issued'[login[s].code] = issued[login[s].code]
          BY <1>10, <3>2, <4>4
        <5> QED BY <3>2, <4>1, <4>2, <5>1
      <4> QED BY <4>3, <4>4
    <3> QED BY <1>7, <1>10, <1>11, <3>1, <3>2, <3>3 DEF RowFits
  <2>3. CASE x # s
    <3>1. login'[x] = login[x] /\ login[x].code # k
      BY <1>1, <1>9, <2>1, <2>3
    <3>2. login[x].status = "code_issued" => issued'[login[x].code] = issued[login[x].code]
      BY <1>10, <2>1, <3>1 DEF RowFits, SentTo
    <3> QED BY <1>10, <1>11, <2>1, <3>1, <3>2 DEF RowFits
  <2> QED BY <2>2, <2>3
<1>18. CodesApart'
  <2>1. \A x \in DOMAIN login : login'[x].code = login[x].code
    BY <1>7, <1>9
  <2> QED BY <1>9, <2>1 DEF TelegramInv, CodesApart
<1>19. InsFit'
  <2>1. \A x \in DOMAIN login : login[x].consumed => login'[x].consumed
    BY <1>5, <1>9
  <2> QED BY <1>4, <1>9, <1>11, <2>1 DEF TelegramInv, InsFit
<1>20. AccountsFit'
  BY <1>4 DEF TelegramInv, AccountsFit, KnownBy
<1> QED BY <1>13, <1>14, <1>16, <1>17, <1>18, <1>19, <1>20 DEF TelegramInv

LEMMA MissKeeps ==
    ASSUME TelegramInv, NEW c \in AnyCalls, Telegram!Miss(c) PROVE TelegramInv'
<1>1. CASE ~Telegram!Unused(logging[c].row)
  <2>1. UNCHANGED <<login, issued, telegramOf, entered>>
            /\ logging' = [logging EXCEPT ![c] = Telegram!Idle]
    BY <1>1 DEF Telegram!Miss
  <2> QED BY <2>1, SameRowsAreQuiet, EndIsQuiet, QuietKeeps
<1> QED BY <1>1, CountedMissKeeps

(* Somebody is let in.                                                      *)
LEMMA LetInKeeps ==
    ASSUME TelegramInv, NEW c \in AnyCalls, Telegram!Enter(c),
           Telegram!Unused(logging[c].row),
           \A u \in LoginTelegrams \ {logging[c].tg} : telegramOf[u] # logging[c].user
    PROVE  TelegramInv'
<1> DEFINE s == logging[c].row
           t == logging[c].tg
           p == logging[c].phone
           k == logging[c].code
           user == logging[c].user
           r == [login[s] EXCEPT !.consumed = TRUE, !.status = "consumed"]
           e == [row |-> s, code |-> k, tg |-> t, phone |-> p, user |-> user]
<1>1. /\ s \in DOMAIN login /\ SentTo(k, t, p) /\ user \in LoginPhones
          /\ (user = p \/ KnownBy(t, user))
  BY DEF Telegram!Enter, TelegramInv, LoginFits
<1>2. login \in Seq(LoginRows) /\ s \in 1 .. Len(login) /\ entered \in Seq(Logins)
  BY <1>1 DEF TelegramInv, LoginsTyped
<1>3. login[s] \in LoginRows
  BY <1>2
<1>4. /\ login' = [login EXCEPT ![s].consumed = TRUE, ![s].status = "consumed"]
      /\ telegramOf' = [telegramOf EXCEPT ![t] = user] /\ entered' = Append(entered, e)
      /\ logging' = [logging EXCEPT ![c] = Telegram!Idle] /\ issued' = issued
  BY DEF Telegram!Enter
<1>5. ~login[s].consumed /\ \A u \in LoginTelegrams \ {t} : telegramOf[u] # user
  BY DEF Telegram!Unused
<1> HIDE DEF s, t, p, k, user
<1>6. login' = [login EXCEPT ![s] = r]
  BY <1>2, <1>3, <1>4 DEF LoginRows
<1>7. /\ r \in LoginRows /\ r.code = login[s].code /\ r.consumed /\ r.status = "consumed"
  BY <1>3 DEF LoginRows
<1>8. /\ e \in Logins /\ e.row = s /\ e.code = k /\ e.tg = t /\ e.phone = p /\ e.user = user
  <2>1. s \in Nat /\ k \in Nat /\ t \in LoginTelegrams /\ p \in LoginPhones
    BY <1>1, <1>2 DEF SentTo, TelegramInv, LoginsTyped
  <2> QED BY <1>1, <2>1 DEF Logins
<1> HIDE DEF r, e
<1>9. /\ login' \in Seq(LoginRows) /\ DOMAIN login' = DOMAIN login
      /\ \A x \in DOMAIN login : login'[x] = IF x = s THEN r ELSE login[x]
  BY <1>2, <1>6, <1>7, ExceptSeq
<1>10. PICK n \in Nat : /\ entered' \in Seq(Logins) /\ DOMAIN entered = 1 .. n
                        /\ DOMAIN entered' = DOMAIN entered \union {n + 1}
                              /\ n + 1 \notin DOMAIN entered
                        /\ \A i \in DOMAIN entered : entered'[i] = entered[i]
                        /\ entered'[n + 1] = e
  <2>1. Len(entered) \in Nat /\ entered' = Append(entered, e) /\ e \in Logins
            /\ entered \in Seq(Logins)
    BY <1>2, <1>4, <1>8
  <2>2. /\ entered' \in Seq(Logins) /\ DOMAIN entered = 1 .. Len(entered)
        /\ DOMAIN entered' = 1 .. Len(entered) + 1
        /\ \A i \in DOMAIN entered : entered'[i] = entered[i]
        /\ entered'[Len(entered) + 1] = e
    BY <2>1
  <2>3. 1 .. Len(entered) + 1 = (1 .. Len(entered)) \union {Len(entered) + 1}
            /\ Len(entered) + 1 \notin 1 .. Len(entered)
    BY <2>1
  <2> QED BY Zenon, <2>1, <2>2, <2>3
<1>11. NothingLost
  BY <1>4, <1>7, <1>9, <1>10 DEF NothingLost, SentTo, KnownBy
<1>12. /\ DOMAIN logging' = AnyCalls /\ \A d \in AnyCalls : LoginFits(d)'
       /\ \A j : Cardinality(Missing(j)') <= Cardinality(Missing(j))
  BY <1>4, <1>11, LoginEnds
<1>13. telegramOf' \in [LoginTelegrams -> LoginPhones \union {Telegram!None}]
       /\ \A u \in LoginTelegrams : telegramOf'[u] = IF u = t THEN user ELSE telegramOf[u]
  BY <1>1, <1>4 DEF TelegramInv, LoginsTyped
<1>14. LoginsTyped'
  BY <1>4, <1>9, <1>10, <1>12, <1>13 DEF TelegramInv, LoginsTyped
<1>15. GuessesBounded'
  <2>1. issued' \in Seq(LoginCodes)
    BY <1>4 DEF TelegramInv, LoginsTyped
  <2> QED BY <1>4, <1>12, <2>1, GuessesStay
<1>16. \A x, y, z : SentTo(x, y, z)' <=> SentTo(x, y, z)
  BY <1>4 DEF SentTo
<1>17. ASSUME NEW x \in DOMAIN login' PROVE RowFits(x)'
  <2>1. x \in DOMAIN login /\ RowFits(x)
    BY <1>9 DEF TelegramInv
  <2>2. CASE x = s
    BY <1>4, <1>7, <1>9, <2>1, <2>2 DEF RowFits
  <2>3. CASE x # s
    BY <1>4, <1>9, <1>16, <2>1, <2>3 DEF RowFits
  <2> QED BY <2>2, <2>3
<1>18. CodesApart'
  <2>1. \A x \in DOMAIN login : login'[x].code = login[x].code
    BY <1>7, <1>9
  <2> QED BY <1>9, <2>1 DEF TelegramInv, CodesApart
<1>19. InsFit'
  <2>1. \A i, j \in DOMAIN entered : entered[i].row = entered[j].row => i = j
    BY DEF TelegramInv, InsFit
  <2>2. \A i \in DOMAIN entered :
           /\ SentTo(entered[i].code, entered[i].tg, entered[i].phone)
           /\ entered[i].user = entered[i].phone
                 \/ \E j \in 1 .. i - 1 : entered[j].tg = entered[i].tg
                       /\ entered[j].user = entered[i].user
           /\ entered[i].row \in DOMAIN login /\ login[entered[i].row].consumed
    BY DEF TelegramInv, InsFit
  <2>3. \A i, j \in DOMAIN entered' : entered'[i].row = entered'[j].row => i = j
    BY <1>5, <1>8, <1>10, <2>1, <2>2
  <2>4. ASSUME NEW i \in DOMAIN entered'
        PROVE  /\ SentTo(entered'[i].code, entered'[i].tg, entered'[i].phone)
               /\ entered'[i].user = entered'[i].phone
                     \/ \E j \in 1 .. i - 1 : entered'[j].tg = entered'[i].tg
                           /\ entered'[j].user = entered'[i].user
               /\ entered'[i].row \in DOMAIN login' /\ login'[entered'[i].row].consumed
    <3>1. CASE i = n + 1
      <4>1. entered'[i] = e
        BY <1>10, <3>1
      <4>2. KnownBy(t, user) =>
                \E j \in 1 .. i - 1 : entered'[j].tg = t /\ entered'[j].user = user
        BY <1>10, <3>1 DEF KnownBy
      <4> QED BY <1>1, <1>7, <1>8, <1>9, <4>1, <4>2
    <3>2. CASE i \in DOMAIN entered
      <4>1. 1 .. i - 1 \subseteq DOMAIN entered /\ entered'[i] = entered[i]
        BY <1>10, <3>2
      <4>2. \A j \in 1 .. i - 1 : entered'[j] = entered[j]
        BY <1>10, <4>1
      <4>3. entered[i].row \in DOMAIN login' /\ login'[entered[i].row].consumed
        BY <1>7, <1>9, <2>2, <3>2
      <4> QED BY <2>2, <3>2, <4>1, <4>2, <4>3
    <3> QED BY <1>10, <3>1, <3>2
  <2> QED BY <1>16, <2>3, <2>4 DEF InsFit
<1>20. AccountsFit'
  <2>1. \E j \in DOMAIN entered' : entered'[j].tg = t /\ entered'[j].user = user
    BY <1>8, <1>10
  <2>2. \A u \in LoginTelegrams : telegramOf[u] # Telegram!None => KnownBy(u, telegramOf[u])
    BY DEF TelegramInv, AccountsFit
  <2>3. \A u, v \in LoginTelegrams : telegramOf[u] = telegramOf[v] =>
            u = v \/ telegramOf[u] = Telegram!None
    BY DEF TelegramInv, AccountsFit
  <2>4. \A u \in LoginTelegrams : telegramOf[u] # Telegram!None =>
           \E j \in DOMAIN entered' : entered'[j].tg = u /\ entered'[j].user = telegramOf[u]
    BY <1>10, <2>2 DEF KnownBy
  <2>5. \A u \in LoginTelegrams : telegramOf'[u] # Telegram!None =>
           \E j \in DOMAIN entered' : entered'[j].tg = u
               /\ entered'[j].user = telegramOf'[u]
    BY <1>13, <2>1, <2>4
  <2>6. \A u, v \in LoginTelegrams : telegramOf'[u] = telegramOf'[v] =>
            u = v \/ telegramOf'[u] = Telegram!None
    BY <1>5, <1>13, <2>3
  <2> QED BY <2>5, <2>6 DEF AccountsFit, KnownBy
<1> QED BY <1>12, <1>14, <1>15, <1>17, <1>18, <1>19, <1>20 DEF TelegramInv

LEMMA EnterKeeps ==
    ASSUME TelegramInv, NEW c \in AnyCalls, Telegram!Enter(c) PROVE TelegramInv'
<1>1. CASE UNCHANGED <<login, telegramOf, entered>>
  <2>1. issued' = issued /\ logging' = [logging EXCEPT ![c] = Telegram!Idle]
    BY DEF Telegram!Enter
  <2> QED BY <1>1, <2>1, SameRowsAreQuiet, EndIsQuiet, QuietKeeps
<1>2. CASE /\ Telegram!Unused(logging[c].row)
           /\ \A u \in LoginTelegrams \ {logging[c].tg} : telegramOf[u] # logging[c].user
  BY <1>2, LetInKeeps
<1> QED BY <1>1, <1>2 DEF Telegram!Enter

LEMMA TelegramStepKeeps ==
    ASSUME TelegramInv, [Telegram!Next]_Telegram!vars PROVE TelegramInv'
<1>1. CASE UNCHANGED Telegram!vars
  BY <1>1, SameRowsAreQuiet, SameCallsAreQuiet, QuietKeeps DEF Telegram!vars
<1>2. CASE Telegram!Start
  BY <1>2, StartKeeps
<1>3. CASE \E p \in LoginPhones : Telegram!SignUp(p)
  BY <1>3, SameRowsAreQuiet, SameCallsAreQuiet, QuietKeeps DEF Telegram!SignUp
<1>4. ASSUME NEW s \in DOMAIN login,
             Telegram!StartLater(s) \/ Telegram!Expire(s)
                 \/ Telegram!Cool(s) PROVE TelegramInv'
  BY <1>4, MarkKeeps DEF Telegram!StartLater, Telegram!Expire, Telegram!Cool
<1>5. ASSUME NEW c \in AnyCalls, NEW t \in LoginTelegrams,
             \/ \E s \in DOMAIN login : Telegram!BeginLink(c, s, t)
             \/ Telegram!Create(c, t, "unknown") \/ Telegram!PlainStart(c, t)
             \/ \E p \in LoginPhones : Telegram!Contact(c, t, p)
      PROVE  TelegramInv'
  BY <1>5, BeginLinkKeeps, LoginCreated, PlainStartKeeps, ContactKeeps
<1>6. ASSUME NEW c \in AnyCalls, NEW s \in DOMAIN login, Telegram!BeginVerify(c, s) PROVE TelegramInv'
  BY <1>6, BeginVerifyKeeps
<1>7. ASSUME NEW c \in AnyCalls,
             Telegram!Link(c) \/ Telegram!Issue(c) \/ Telegram!Match(c)
                 \/ Telegram!Fail(c) PROVE TelegramInv'
  BY <1>7, LinkKeeps, IssueKeeps, MatchedKeeps, LoginFails
<1>8. ASSUME NEW c \in AnyCalls,
             Telegram!Shut(c) \/ Telegram!Conflict(c) \/ Telegram!Miss(c)
                 \/ Telegram!Enter(c) PROVE TelegramInv'
  BY <1>8, EndingKeeps, MissKeeps, EnterKeeps
<1> QED BY <1>1, <1>2, <1>3, <1>4, <1>5, <1>6, <1>7, <1>8 DEF Telegram!Next

LEMMA TelegramSteps ==
    ASSUME focus = "telegram", [Next]_<<focus, everything>>
    PROVE  [Telegram!Next]_Telegram!vars
<1>1. CASE UNCHANGED <<focus, everything>>
  BY <1>1 DEF everything, Telegram!vars
<1>2. CASE Next
  BY <1>2 DEF Next
<1> QED BY <1>1, <1>2

LEMMA TelegramKept == Spec => [](focus = "telegram" => TelegramInv)
<1>1. Init => (focus = "telegram" => TelegramInv)
  BY TelegramBegins DEF Init
<1>2. (focus = "telegram" => TelegramInv) /\ [Next]_<<focus, everything>>
        => (focus = "telegram" => TelegramInv)'
  <2> SUFFICES ASSUME focus = "telegram" => TelegramInv, [Next]_<<focus, everything>>,
                      focus' = "telegram"
               PROVE  TelegramInv'
    OBVIOUS
  <2>1. focus = "telegram" /\ TelegramInv
    BY DEF Next
  <2>2. [Telegram!Next]_Telegram!vars
    BY <2>1, TelegramSteps
  <2> QED BY <2>1, <2>2, TelegramStepKeeps
<1> QED BY <1>1, <1>2, PTL DEF Spec

-----------------------------------------------------------------------------
(* Sign-in by other services, for any calls, identities and contacts.        *)

person == v1
linked == v2
sessionsOf == v3
linking == v4
madeFor == v6
letIn == v7
anyReplaced == v8
askedOf == v9
USE DEF person, linked, sessionsOf, linking, madeFor, letIn, anyReplaced,
        askedOf

-----------------------------------------------------------------------------
Kinds == {"email", "phone"}
Contacts == {Social!None} \union GivenEmails \union GivenPhones
                \union {i.email : i \in SocialIdentities} \union {i.phone : i \in SocialIdentities}
ContactRows == [Kinds -> Contacts]

SocialTyped ==
    /\ person \in Seq(ContactRows)
    /\ madeFor \in Seq(SUBSET SocialIdentities) /\ Len(madeFor) = Len(person)
    /\ linked \in [SocialIdentities -> 0 .. Len(person)]
    /\ DOMAIN letIn = SocialIdentities
    /\ DOMAIN linking = AnyCalls

ContactsUnshared ==
    \A u, v \in DOMAIN person : \A k \in Kinds :
        person[u][k] # Social!None /\ person[u][k] = person[v][k] => u = v

MadeForAccounts == \A u \in DOMAIN madeFor : \A i \in madeFor[u] : linked[i] = u

LetInAsOne ==
    \A i \in SocialIdentities : letIn[i] = (IF linked[i] = 0 THEN {} ELSE {linked[i]})

AskedGiven ==
    \A a \in askedOf : a[1] \in DOMAIN person /\ a[2] \in Kinds
        /\ person[a[1]][a[2]] # Social!None

(* A sign-in knows the account as it is, for accounts stay; an onboarding   *)
(* brings what it has been asked for.                                       *)
LinkingFits(c) ==
    /\ linking[c].at = "sign-in" =>
          /\ linking[c].id \in SocialIdentities
          /\ linking[c].user \in 0 .. Len(person)
          /\ linking[c].known
                => linking[c].user # 0 /\ linked[linking[c].id] = linking[c].user
    /\ linking[c].at = "onboard" =>
          /\ linking[c].user \in DOMAIN person
          /\ linking[c].given \in [Kinds -> Contacts \union {"as it is"}]
          /\ linking[c].required # Social!None =>
                /\ linking[c].required \in Kinds
                /\ linking[c].given[linking[c].required] \notin {Social!None, "as it is"}

SocialInv ==
    /\ SocialTyped
    /\ ContactsUnshared
    /\ MadeForAccounts
    /\ LetInAsOne
    /\ ~anyReplaced
    /\ AskedGiven
    /\ \A c \in AnyCalls : LinkingFits(c)

-----------------------------------------------------------------------------
LEMMA ContactsHoldFollows ==
    ASSUME SocialInv PROVE Social!ContactsHold
<1>1. DOMAIN madeFor = DOMAIN person
  BY DEF SocialInv, SocialTyped
<1>2. \A u \in DOMAIN person : Social!Free(u, person[u].email, person[u].phone)
  BY DEF SocialInv, ContactsUnshared, Social!Free, Social!Owners, Kinds
<1> QED BY <1>1, <1>2 DEF SocialInv, Social!ContactsHold, MadeForAccounts, LetInAsOne,
    AskedGiven

LEMMA SocialBegins ==
    ASSUME Social!Init PROVE SocialInv
BY DEF Social!Init, SocialInv, SocialTyped, ContactsUnshared, MadeForAccounts, LetInAsOne,
       AskedGiven, LinkingFits, Social!Idle

(* The two contacts of a user are a row.                                    *)
LEMMA PairOfContacts ==
    ASSUME NEW S, NEW e \in S, NEW p \in S
    PROVE  [email |-> e, phone |-> p] \in [{"email", "phone"} -> S]
OBVIOUS

LEMMA RowOfContacts ==
    ASSUME NEW e \in Contacts, NEW p \in Contacts
    PROVE  /\ [email |-> e, phone |-> p] \in ContactRows
           /\ [email |-> e, phone |-> p]["email"] = e
           /\ [email |-> e, phone |-> p]["phone"] = p
BY DEF ContactRows, Kinds

(* A contact that is free for u is no other user's.                         *)
LEMMA FreeIsNobodys ==
    ASSUME NEW u, NEW e, NEW p, Social!Free(u, e, p), NEW v \in DOMAIN person, v # u
    PROVE  /\ e # Social!None => person[v]["email"] # e
           /\ p # Social!None => person[v]["phone"] # p
BY DEF Social!Free, Social!Owners

(* The other requests of a step fit as they did.                            *)
(* A request ends and the others fit as they did.                           *)
LEMMA LinkingEnds ==
    ASSUME SocialInv, NEW c, Social!End(c), Len(person) \in Nat, Len(person') \in Nat,
           DOMAIN person = 1 .. Len(person), DOMAIN person' = 1 .. Len(person'),
               Len(person) <= Len(person'),
           \A i \in SocialIdentities : linked[i] # 0 => linked'[i] = linked[i]
    PROVE  DOMAIN linking' = AnyCalls /\ \A d \in AnyCalls : LinkingFits(d)'
<1>1. DOMAIN linking' = AnyCalls
          /\ \A d \in AnyCalls : linking'[d] = linking[d] \/ linking'[d] = Social!Idle
  BY DEF SocialInv, SocialTyped, Social!End
<1>2. ASSUME NEW d \in AnyCalls PROVE LinkingFits(d)'
  <2>1. CASE linking'[d] = Social!Idle
    BY <2>1 DEF LinkingFits, Social!Idle
  <2>2. CASE linking'[d] = linking[d]
    <3>1. LinkingFits(d)
      BY DEF SocialInv
    <3>2. linking[d].at = "sign-in" /\ linking[d].known =>
             linking[d].user # 0 /\ linked'[linking[d].id] = linking[d].user
      BY <3>1 DEF LinkingFits
    <3>3. 0 .. Len(person) \subseteq 0 .. Len(person')
              /\ DOMAIN person \subseteq DOMAIN person'
      OBVIOUS
    <3> QED BY Zenon, <2>2, <3>1, <3>2, <3>3 DEF LinkingFits
  <2> QED BY <1>1, <2>1, <2>2
<1> QED BY <1>1, <1>2

(* A request begins.                                                        *)
LEMMA LinkingBegins ==
    ASSUME SocialInv, NEW c \in AnyCalls, NEW r, Social!Begin(c, r),
           linking' = [linking EXCEPT ![c] = r] => LinkingFits(c)'
    PROVE  SocialInv'
<1>1. UNCHANGED <<person, linked, madeFor, letIn, anyReplaced, askedOf>>
          /\ linking' = [linking EXCEPT ![c] = r]
  BY DEF Social!Begin
<1>2. DOMAIN linking' = AnyCalls /\ \A d \in AnyCalls \ {c} : linking'[d] = linking[d]
  BY <1>1 DEF SocialInv, SocialTyped
<1>3. ASSUME NEW d \in AnyCalls PROVE LinkingFits(d)'
  <2>1. CASE d = c
    BY <1>1, <2>1
  <2>2. CASE d # c
    BY Zenon, <1>1, <1>2, <2>2 DEF SocialInv, LinkingFits
  <2> QED BY <2>1, <2>2
<1>4. SocialTyped' /\ ContactsUnshared' /\ MadeForAccounts' /\ LetInAsOne' /\ AskedGiven'
  BY <1>1, <1>2 DEF SocialInv, SocialTyped, ContactsUnshared, MadeForAccounts, LetInAsOne,
                    AskedGiven
<1> QED BY <1>1, <1>3, <1>4 DEF SocialInv

(* A request ends and nothing else is different.                            *)
LEMMA LinkingOver ==
    ASSUME SocialInv, NEW c, Social!End(c), UNCHANGED <<person, linked, madeFor, letIn, anyReplaced, askedOf>>
    PROVE  SocialInv'
<1>1. Len(person) \in Nat /\ DOMAIN person = 1 .. Len(person)
  BY DEF SocialInv, SocialTyped
<1>2. DOMAIN linking' = AnyCalls /\ \A d \in AnyCalls : LinkingFits(d)'
  BY <1>1, LinkingEnds
<1>3. SocialTyped' /\ ContactsUnshared' /\ MadeForAccounts' /\ LetInAsOne' /\ AskedGiven'
  BY <1>2 DEF SocialInv, SocialTyped, ContactsUnshared, MadeForAccounts, LetInAsOne,
     AskedGiven
<1> QED BY <1>2, <1>3 DEF SocialInv

LEMMA SignInBegins ==
    ASSUME SocialInv, NEW c \in AnyCalls, NEW i \in SocialIdentities,
           Social!BeginSignIn(c, i)
    PROVE  SocialInv'
<1> DEFINE owners == Social!Owners("email", i.email) \union Social!Owners("phone", i.phone)
           w == CHOOSE v \in owners : TRUE
           u == IF linked[i] # 0 THEN linked[i] ELSE IF owners # {} THEN w ELSE 0
           r == [at |-> "sign-in", id |-> i, known |-> linked[i] # 0, user |-> u]
<1>1. Social!Begin(c, r)
  BY DEF Social!BeginSignIn
<1>2. owners # {} => w \in DOMAIN person
  BY DEF Social!Owners
<1>3. u \in 0 .. Len(person) /\ (linked[i] # 0 => u = linked[i])
  BY <1>2 DEF SocialInv, SocialTyped
<1>4. r.at = "sign-in" /\ r.id = i /\ (r.known <=> linked[i] # 0) /\ r.user = u
  OBVIOUS
<1> HIDE DEF r, u
<1>5. linking' = [linking EXCEPT ![c] = r] => LinkingFits(c)'
  <2> SUFFICES ASSUME linking' = [linking EXCEPT ![c] = r] PROVE LinkingFits(c)'
    OBVIOUS
  <2>1. linking'[c] = r /\ UNCHANGED <<person, linked>>
    BY <1>1 DEF SocialInv, SocialTyped, Social!Begin
  <2> QED BY Zenon, <1>3, <1>4, <2>1 DEF LinkingFits
<1> QED BY <1>1, <1>5, LinkingBegins

LEMMA OnboardingBegins ==
    ASSUME SocialInv, NEW c \in AnyCalls, NEW u \in DOMAIN person, NEW provider,
           NEW e \in GivenEmails \union {Social!None, "as it is"},
               NEW p \in GivenPhones \union {Social!None, "as it is"},
           Social!BeginOnboarding(c, u, provider, e, p)
    PROVE  SocialInv'
<1> DEFINE given == [email |-> e, phone |-> p]
           k == Social!Required(provider, person[u])
           r == [at |-> "onboard", user |-> u, given |-> given, required |-> k]
<1>1. Social!Begin(c, r) /\ (k # Social!None => given[k] \notin {Social!None, "as it is"})
  BY Zenon DEF Social!BeginOnboarding, Social!Given
<1>2. given \in [Kinds -> Contacts \union {"as it is"}]
  <2>1. e \in Contacts \union {"as it is"} /\ p \in Contacts \union {"as it is"}
    BY Zenon DEF Contacts
  <2> QED BY Zenon, <2>1, PairOfContacts DEF Kinds
<1>3. k # Social!None => k \in Kinds
  BY Zenon DEF Social!Required, Kinds
<1>4. r.at = "onboard" /\ r.user = u /\ r.given = given /\ r.required = k
  BY Zenon
<1> HIDE DEF r, k, given
<1>5. linking' = [linking EXCEPT ![c] = r] => LinkingFits(c)'
  <2> SUFFICES ASSUME linking' = [linking EXCEPT ![c] = r] PROVE LinkingFits(c)'
    BY Zenon
  <2>1. linking'[c] = r /\ UNCHANGED <<person, linked>>
    BY Zenon, <1>1 DEF SocialInv, SocialTyped, Social!Begin
  <2> QED BY Zenon, <1>1, <1>2, <1>3, <1>4, <2>1 DEF LinkingFits
<1> QED BY Zenon, <1>1, <1>5, LinkingBegins

-----------------------------------------------------------------------------
FreeRow(u, row) ==
    \A k \in Kinds : row[k] = person[u][k]
                     \/ \A v \in DOMAIN person \ {u} : row[k] # Social!None =>
                           person[v][k] # row[k]

(* A user's row is written with contacts that are free for him, and what he *)
(* has been asked for.                                                      *)
LEMMA ContactsWritten ==
    ASSUME SocialInv, NEW u \in DOMAIN person, NEW row \in ContactRows,
           person' = [person EXCEPT ![u] = row], FreeRow(u, row)
    PROVE  /\ person' \in Seq(ContactRows) /\ Len(person') = Len(person)
           /\ DOMAIN person' = DOMAIN person
           /\ \A v \in DOMAIN person : person'[v] = IF v = u THEN row ELSE person[v]
           /\ ContactsUnshared'
<1>1. person \in Seq(ContactRows) /\ u \in 1 .. Len(person)
  BY DEF SocialInv, SocialTyped
<1>2. /\ person' \in Seq(ContactRows) /\ Len(person') = Len(person)
          /\ DOMAIN person' = DOMAIN person
      /\ \A v \in DOMAIN person : person'[v] = IF v = u THEN row ELSE person[v]
  BY <1>1, ExceptSeq
<1>3. ContactsUnshared'
  <2> SUFFICES ASSUME NEW v \in DOMAIN person, NEW w \in DOMAIN person, NEW k \in Kinds,
                      person'[v][k] # Social!None, person'[v][k] = person'[w][k], v # w
               PROVE  FALSE
    BY <1>2 DEF ContactsUnshared
  <2>1. \A x, y \in DOMAIN person : person[x][k] # Social!None
            /\ person[x][k] = person[y][k] => x = y
    BY DEF SocialInv, ContactsUnshared
  <2> QED BY <1>2, <2>1 DEF FreeRow
<1> QED BY <1>2, <1>3

(* A user is added with contacts nobody has.                                *)
LEMMA UserAdded ==
    ASSUME SocialInv, NEW row \in ContactRows, person' = Append(person, row),
           \A k \in Kinds : \A v \in DOMAIN person : row[k] # Social!None =>
               person[v][k] # row[k]
    PROVE  /\ person' \in Seq(ContactRows) /\ Len(person') = Len(person) + 1
           /\ DOMAIN person' = DOMAIN person \union {Len(person) + 1}
                 /\ Len(person) + 1 \notin DOMAIN person
           /\ \A v \in DOMAIN person : person'[v] = person[v]
           /\ ContactsUnshared'
<1>1. person \in Seq(ContactRows)
  BY DEF SocialInv, SocialTyped
<1>2. /\ person' \in Seq(ContactRows) /\ Len(person') = Len(person) + 1
      /\ DOMAIN person' = DOMAIN person \union {Len(person) + 1}
            /\ Len(person) + 1 \notin DOMAIN person
      /\ \A v \in DOMAIN person : person'[v] = person[v]
      /\ person'[Len(person) + 1] = row
  BY <1>1
<1>3. ContactsUnshared'
  <2> SUFFICES ASSUME NEW v \in DOMAIN person', NEW w \in DOMAIN person', NEW k \in Kinds,
                      person'[v][k] # Social!None, person'[v][k] = person'[w][k], v # w
               PROVE  FALSE
    BY DEF ContactsUnshared
  <2>1. \A x, y \in DOMAIN person : person[x][k] # Social!None
            /\ person[x][k] = person[y][k] => x = y
    BY DEF SocialInv, ContactsUnshared
  <2> QED BY <1>2, <2>1
<1> QED BY <1>2, <1>3
(* What a sign-in adds to a row is free.                                    *)
LEMMA AttachedIsFree ==
    ASSUME SocialInv, NEW u \in DOMAIN person, NEW i \in SocialIdentities,
           ~Social!Refused(u, i)
    PROVE  /\ Social!Attached(u, i) \in ContactRows
           /\ \A k \in Kinds :
                 /\ person[u][k] # Social!None => Social!Attached(u, i)[k] = person[u][k]
                 /\ \A v \in DOMAIN person \ {u} :
                       Social!Attached(u, i)[k] # Social!None =>
                           person[v][k] # Social!Attached(u, i)[k]
<1> DEFINE e == Social!Attached(u, i).email
           p == Social!Attached(u, i).phone
<1>1. person[u] \in ContactRows /\ i.email \in Contacts /\ i.phone \in Contacts
  BY DEF SocialInv, SocialTyped, Contacts
<1>2. person[u]["email"] \in Contacts /\ person[u]["phone"] \in Contacts
  BY <1>1 DEF ContactRows, Kinds
<1>3. /\ e = IF person[u]["email"] = Social!None THEN i.email ELSE person[u]["email"]
      /\ p = IF person[u]["phone"] = Social!None THEN i.phone ELSE person[u]["phone"]
      /\ Social!Attached(u, i) = [email |-> e, phone |-> p]
  BY DEF Social!Attached
<1>4. e \in Contacts /\ p \in Contacts /\ Social!Free(u, e, p)
  BY <1>1, <1>2, <1>3 DEF Social!Refused
<1> HIDE DEF e, p
<1>5. /\ Social!Attached(u, i) \in ContactRows
      /\ Social!Attached(u, i)["email"] = e /\ Social!Attached(u, i)["phone"] = p
  BY <1>3, <1>4, RowOfContacts
<1>6. \A v \in DOMAIN person \ {u} :
         (e # Social!None => person[v]["email"] # e) /\ (p # Social!None =>
             person[v]["phone"] # p)
  BY <1>4, FreeIsNobodys
<1> QED BY <1>3, <1>5, <1>6 DEF Kinds

LEMMA LinkedKeeps ==
    ASSUME SocialInv, NEW c \in AnyCalls, Social!SignIn(c), NEW i, i = linking[c].id,
           NEW u, u = linking[c].user,
           u # 0, linking[c].known \/ linked[i] = 0, ~Social!Refused(u, i),
           person' = [person EXCEPT ![u] = Social!Attached(u, i)],
           linked' = [linked EXCEPT ![i] = u],
           letIn' = [letIn EXCEPT ![i] = @ \union {u}],
           anyReplaced' = (anyReplaced \/ \E k \in {"email", "phone"} :
                                             person[u][k] \notin {Social!None, person'[u][k]}),
           madeFor' = madeFor
    PROVE  SocialInv'
<1> DEFINE row == Social!Attached(u, i)
<1>1. /\ i \in SocialIdentities /\ u \in 0 .. Len(person) /\ u # 0
      /\ linked[i] # 0 => linked[i] = u
  BY Zenon DEF Social!SignIn, SocialInv, LinkingFits
<1>2. u \in DOMAIN person /\ Len(person) \in Nat
  BY <1>1 DEF SocialInv, SocialTyped
<1>3. /\ person' = [person EXCEPT ![u] = row] /\ linked' = [linked EXCEPT ![i] = u]
      /\ letIn' = [letIn EXCEPT ![i] = @ \union {u}] /\ askedOf' = askedOf /\ Social!End(c)
      /\ anyReplaced' = (anyReplaced \/ \E k \in Kinds : person[u][k] \notin {Social!None,
            person'[u][k]})
  BY DEF Social!SignIn, Kinds
<1>5. /\ row \in ContactRows
      /\ \A k \in Kinds :
            /\ person[u][k] # Social!None => row[k] = person[u][k]
            /\ \A v \in DOMAIN person \ {u} : row[k] # Social!None => person[v][k] # row[k]
  BY <1>1, <1>2, AttachedIsFree
<1> HIDE DEF row
<1>6. /\ person' \in Seq(ContactRows) /\ Len(person') = Len(person)
          /\ DOMAIN person' = DOMAIN person
      /\ \A v \in DOMAIN person : person'[v] = IF v = u THEN row ELSE person[v]
      /\ ContactsUnshared'
  <2>1. FreeRow(u, row)
    BY <1>5 DEF FreeRow
  <2>2. u \in DOMAIN person /\ row \in ContactRows /\ person' = [person EXCEPT ![u] = row]
    BY <1>2, <1>3, <1>5
  <2> QED BY <2>1, <2>2, ContactsWritten
<1>7. /\ linked' \in [SocialIdentities -> 0 .. Len(person)]
      /\ \A j \in SocialIdentities : linked'[j] = IF j = i THEN u ELSE linked[j]
  <2>1. linked \in [SocialIdentities -> 0 .. Len(person)]
    BY DEF SocialInv, SocialTyped
  <2> QED BY <1>1, <1>3, <2>1
<1>8. \A j \in SocialIdentities : linked[j] # 0 => linked'[j] = linked[j]
  BY <1>1, <1>7
<1>9. DOMAIN linking' = AnyCalls /\ \A d \in AnyCalls : LinkingFits(d)'
  <2>1. DOMAIN person = 1 .. Len(person) /\ Len(person) <= Len(person')
    BY <1>2, <1>6 DEF SocialInv, SocialTyped
  <2> QED BY <1>2, <1>3, <1>6, <1>8, <2>1, LinkingEnds
<1>10. SocialTyped'
  BY <1>3, <1>6, <1>7, <1>9 DEF SocialInv, SocialTyped
<1>11. MadeForAccounts'
  <2>1. \A v \in DOMAIN madeFor : v # 0 /\ \A j \in madeFor[v] : j \in SocialIdentities
            /\ linked[j] = v
    BY DEF SocialInv, SocialTyped, MadeForAccounts
  <2> QED BY <1>8, <2>1 DEF MadeForAccounts
<1>12. LetInAsOne'
  <2>1. \A j \in SocialIdentities : letIn[j] = IF linked[j] = 0 THEN {} ELSE {linked[j]}
    BY DEF SocialInv, LetInAsOne
  <2>2. DOMAIN letIn = SocialIdentities
    BY DEF SocialInv, SocialTyped
  <2>3. \A j \in SocialIdentities : letIn'[j] = IF j
            = i THEN letIn[i] \union {u} ELSE letIn[j]
    BY <1>1, <1>3, <2>2
  <2>4. letIn'[i] = {u}
    BY <1>1, <2>1, <2>3
  <2>5. ASSUME NEW j \in SocialIdentities
        PROVE  letIn'[j] = IF linked'[j] = 0 THEN {} ELSE {linked'[j]}
    <3>1. CASE j = i
      BY <1>1, <1>7, <2>4, <3>1
    <3>2. CASE j # i
      BY <1>7, <2>1, <2>3, <3>2
    <3> QED BY <3>1, <3>2
  <2> QED BY <2>5 DEF LetInAsOne
<1>13. ~anyReplaced'
  <2>1. person'[u] = row /\ ~anyReplaced
    BY <1>2, <1>6 DEF SocialInv
  <2>2. \A k \in Kinds : person[u][k] \in {Social!None, row[k]}
    BY <1>5
  <2> QED BY <1>3, <2>1, <2>2
<1>14. AskedGiven'
  <2>1. person'[u] = row
    BY <1>2, <1>6
  <2>2. \A k \in Kinds : person[u][k] # Social!None => row[k] # Social!None
    BY <1>5
  <2>3. \A v \in DOMAIN person : \A k \in Kinds : person[v][k] # Social!None =>
            person'[v][k] # Social!None
    BY <1>6, <2>1, <2>2
  <2>4. askedOf' = askedOf /\ AskedGiven /\ DOMAIN person' = DOMAIN person
    BY <1>3, <1>6 DEF SocialInv
  <2> QED BY <2>3, <2>4 DEF AskedGiven
<1> QED BY <1>6, <1>9, <1>10, <1>11, <1>12, <1>13, <1>14 DEF SocialInv

(* Somebody new, made for an identity without an account or for a number.   *)
LEMMA MadeKeeps ==
    ASSUME SocialInv, NEW row \in ContactRows, person' = Append(person, row),
           \A k \in Kinds : \A v \in DOMAIN person : row[k] # Social!None =>
               person[v][k] # row[k],
           NEW J \in SUBSET SocialIdentities, madeFor' = Append(madeFor, J),
           \A j \in J : linked[j] = 0,
           linked' = [j \in SocialIdentities |-> IF j \in J THEN Len(person) + 1 ELSE linked[j]],
           \A j \in SocialIdentities :
              letIn'[j] = IF j \in J THEN letIn[j] \union {Len(person) + 1} ELSE letIn[j],
           DOMAIN letIn' = SocialIdentities, anyReplaced' = anyReplaced, askedOf' = askedOf,
           DOMAIN linking' = AnyCalls,
           \A d \in AnyCalls : linking'[d] = linking[d] \/ linking'[d] = Social!Idle
    PROVE  SocialInv'
<1> DEFINE n == Len(person) + 1
<1>1. /\ person' \in Seq(ContactRows) /\ Len(person') = n
      /\ DOMAIN person' = DOMAIN person \union {n} /\ n \notin DOMAIN person
      /\ \A v \in DOMAIN person : person'[v] = person[v]
      /\ ContactsUnshared'
  BY UserAdded
<1>2. /\ madeFor' \in Seq(SUBSET SocialIdentities) /\ Len(madeFor') = n
          /\ DOMAIN madeFor' = DOMAIN madeFor \union {n}
      /\ \A v \in DOMAIN madeFor : madeFor'[v] = madeFor[v] /\ v # n
      /\ madeFor'[n] = J
  BY DEF SocialInv, SocialTyped
<1>3. Len(person) \in Nat /\ n \in Nat /\ n # 0 /\ 0 .. Len(person) \subseteq 0 .. n
  BY DEF SocialInv, SocialTyped
<1> HIDE DEF n
<1>4. /\ linked' \in [SocialIdentities -> 0 .. n]
      /\ \A j \in SocialIdentities : linked'[j] = IF j \in J THEN n ELSE linked[j]
  <2>1. \A j \in SocialIdentities : linked[j] \in 0 .. n
    BY <1>3 DEF SocialInv, SocialTyped
  <2> QED BY <1>3, <2>1 DEF n
<1>5. SocialTyped'
  BY <1>1, <1>2, <1>4 DEF SocialTyped
<1>6. MadeForAccounts'
  <2>1. \A v \in DOMAIN madeFor : v # 0 /\ \A j \in madeFor[v] : j \in SocialIdentities
            /\ linked[j] = v
    BY DEF SocialInv, SocialTyped, MadeForAccounts
  <2> QED BY <1>2, <1>4, <2>1 DEF MadeForAccounts
<1>7. LetInAsOne'
  <2>1. \A j \in SocialIdentities : letIn[j] = IF linked[j] = 0 THEN {} ELSE {linked[j]}
    BY DEF SocialInv, LetInAsOne
  <2>2. \A j \in J : letIn'[j] = {n}
    BY <2>1 DEF n
  <2> QED BY <1>3, <1>4, <2>1, <2>2 DEF LetInAsOne
<1>8. AskedGiven'
  BY <1>1 DEF SocialInv, AskedGiven
<1>9. ASSUME NEW d \in AnyCalls PROVE LinkingFits(d)'
  <2>1. CASE linking'[d] = Social!Idle
    BY <2>1 DEF LinkingFits, Social!Idle
  <2>2. CASE linking'[d] = linking[d]
    <3>1. LinkingFits(d)
      BY DEF SocialInv
    <3>2. linking[d].at = "sign-in" /\ linking[d].known =>
             linking[d].user # 0 /\ linked'[linking[d].id] = linking[d].user
      BY <1>4, <3>1 DEF LinkingFits
    <3> QED BY Zenon, <1>1, <1>3, <2>2, <3>1, <3>2 DEF LinkingFits
  <2> QED BY <2>1, <2>2
<1> QED BY <1>1, <1>5, <1>6, <1>7, <1>8, <1>9 DEF SocialInv
LEMMA CreatedKeeps ==
    ASSUME SocialInv, NEW c \in AnyCalls, Social!SignIn(c), linking[c].at = "sign-in",
           linked[linking[c].id]
               = 0, Social!Free(Len(person) + 1, linking[c].id.email, linking[c].id.phone),
           person' = Append(person, [email |-> linking[c].id.email, phone |-> linking[c].id.phone]),
           linked' = [linked EXCEPT ![linking[c].id] = Len(person) + 1],
           letIn' = [letIn EXCEPT ![linking[c].id] = @ \union {Len(person) + 1}],
           madeFor' = Append(madeFor, {linking[c].id}), anyReplaced' = anyReplaced
    PROVE  SocialInv'
<1> DEFINE i == linking[c].id
           n == Len(person) + 1
           row == [email |-> i.email, phone |-> i.phone]
<1>1. i \in SocialIdentities /\ linked[i] = 0 /\ Social!Free(n, i.email, i.phone)
  BY Zenon DEF SocialInv, LinkingFits
<1>2. /\ person' = Append(person, row) /\ linked' = [linked EXCEPT ![i] = n]
      /\ letIn' = [letIn EXCEPT ![i] = @ \union {n}] /\ madeFor' = Append(madeFor, {i})
      /\ askedOf' = askedOf /\ linking' = [linking EXCEPT ![c] = Social!Idle]
  BY DEF Social!SignIn, Social!End
<1> HIDE DEF i
<1>3. n \notin DOMAIN person
  BY DEF SocialInv, SocialTyped
<1>4. /\ row \in ContactRows /\ row["email"] = i.email /\ row["phone"] = i.phone
  <2>1. i.email \in Contacts /\ i.phone \in Contacts
    BY <1>1 DEF Contacts
  <2> QED BY <2>1, RowOfContacts
<1> HIDE DEF row, n
<1>5. \A k \in Kinds : \A v \in DOMAIN person : row[k] # Social!None =>
          person[v][k] # row[k]
  BY <1>1, <1>3, <1>4, FreeIsNobodys DEF Kinds
<1>6. /\ linked' = [j \in SocialIdentities |-> IF j \in {i} THEN n ELSE linked[j]]
      /\ DOMAIN letIn' = SocialIdentities
      /\ \A j \in SocialIdentities : letIn'[j]
            = IF j \in {i} THEN letIn[j] \union {n} ELSE letIn[j]
      /\ DOMAIN linking' = AnyCalls
            /\ \A d \in AnyCalls : linking'[d] = linking[d] \/ linking'[d] = Social!Idle
  BY <1>1, <1>2 DEF SocialInv, SocialTyped
<1>7. {i} \in SUBSET SocialIdentities /\ \A j \in {i} : linked[j] = 0
  BY <1>1
<1> QED BY <1>2, <1>4, <1>5, <1>6, <1>7, MadeKeeps DEF n

LEMMA SignInKeeps ==
    ASSUME SocialInv, NEW c \in AnyCalls, Social!SignIn(c) PROVE SocialInv'
<1>1. CASE /\ linking[c].user # 0
           /\ linking[c].known \/ linked[linking[c].id] = 0
           /\ ~Social!Refused(linking[c].user, linking[c].id)
           /\ person' = [person EXCEPT ![linking[c].user]
                 = Social!Attached(linking[c].user, linking[c].id)]
           /\ linked' = [linked EXCEPT ![linking[c].id] = linking[c].user]
           /\ letIn' = [letIn EXCEPT ![linking[c].id] = @ \union {linking[c].user}]
           /\ anyReplaced' = (anyReplaced \/ \E k \in {"email", "phone"} :
                                 person[linking[c].user][k] \notin {Social!None, person'[linking[c].user][k]})
           /\ madeFor' = madeFor
  BY <1>1, LinkedKeeps
<1>2. CASE /\ linked[linking[c].id] = 0
           /\ Social!Free(Len(person) + 1, linking[c].id.email, linking[c].id.phone)
           /\ person' = Append(person, [email |-> linking[c].id.email,
                 phone |-> linking[c].id.phone])
           /\ linked' = [linked EXCEPT ![linking[c].id] = Len(person) + 1]
           /\ letIn' = [letIn EXCEPT ![linking[c].id] = @ \union {Len(person) + 1}]
           /\ madeFor' = Append(madeFor, {linking[c].id})
           /\ anyReplaced' = anyReplaced
  <2>1. linking[c].at = "sign-in"
    BY DEF Social!SignIn
  <2> QED BY <1>2, <2>1, CreatedKeeps
<1>3. CASE UNCHANGED <<person, linked, sessionsOf, madeFor, letIn, anyReplaced>>
  <2>1. Social!End(c) /\ askedOf' = askedOf
    BY DEF Social!SignIn
  <2> QED BY <1>3, <2>1, LinkingOver
<1> QED BY <1>1, <1>2, <1>3 DEF Social!SignIn

LEMMA PhoneSignInKeeps ==
    ASSUME SocialInv, NEW p \in GivenPhones, Social!PhoneSignIn(p) PROVE SocialInv'
<1> DEFINE row == [email |-> Social!None, phone |-> p]
<1>1. UNCHANGED <<linked, linking, letIn, anyReplaced, askedOf>>
  BY DEF Social!PhoneSignIn
<1>2. CASE Social!Owners("phone", p) = {} /\ person' = Append(person, row)
          /\ madeFor' = Append(madeFor, {})
  <2>1. row \in ContactRows /\ row["email"] = Social!None /\ row["phone"] = p
    <3>1. Social!None \in Contacts /\ p \in Contacts
      BY DEF Contacts
    <3> QED BY <3>1, RowOfContacts
  <2> HIDE DEF row
  <2>2. \A k \in Kinds : \A v \in DOMAIN person : row[k] # Social!None =>
            person[v][k] # row[k]
    BY <1>2, <2>1 DEF Kinds, Social!Owners
  <2>3. /\ linked'
            = [j \in SocialIdentities |-> IF j \in {} THEN Len(person) + 1 ELSE linked[j]]
        /\ \A j \in SocialIdentities :
              letIn'[j] = IF j \in {} THEN letIn[j] \union {Len(person) + 1} ELSE letIn[j]
        /\ DOMAIN letIn' = SocialIdentities /\ DOMAIN linking' = AnyCalls
        /\ \A d \in AnyCalls : linking'[d] = linking[d] \/ linking'[d] = Social!Idle
    BY <1>1 DEF SocialInv, SocialTyped
  <2>4. {} \in SUBSET SocialIdentities /\ \A j \in {} : linked[j] = 0
    OBVIOUS
  <2> QED BY <1>1, <1>2, <2>1, <2>2, <2>3, <2>4, MadeKeeps
<1>3. CASE UNCHANGED <<person, madeFor>>
  <2>1. SocialTyped' /\ ContactsUnshared' /\ MadeForAccounts' /\ LetInAsOne' /\ AskedGiven'
    BY <1>1, <1>3 DEF SocialInv, SocialTyped, ContactsUnshared, MadeForAccounts, LetInAsOne,
                      AskedGiven
  <2> QED BY Zenon, <1>1, <1>3, <2>1 DEF SocialInv, LinkingFits
<1> QED BY <1>2, <1>3 DEF Social!PhoneSignIn

LEMMA OnboardKeeps ==
    ASSUME SocialInv, NEW c \in AnyCalls, Social!Onboard(c) PROVE SocialInv'
<1> DEFINE u == linking[c].user
           given == linking[c].given
           row == [k \in Kinds |-> IF given[k] = "as it is" THEN person[u][k] ELSE given[k]]
           anew == {k \in Kinds : given[k] # "as it is"}
           r == linking[c].required
<1>1. /\ u \in DOMAIN person /\ given \in [Kinds -> Contacts \union {"as it is"}]
      /\ r # Social!None => r \in Kinds /\ given[r] \notin {Social!None, "as it is"}
  BY Zenon DEF Social!Onboard, SocialInv, LinkingFits
<1>2. Social!End(c) /\ UNCHANGED <<linked, madeFor, letIn, anyReplaced>>
  BY Zenon DEF Social!Onboard
<1>3. CASE ~Social!Free(u, given.email, given.phone)
  BY <1>2, <1>3, LinkingOver DEF Social!Onboard
<1>4. CASE Social!Free(u, given.email, given.phone)
  <2>1. /\ person' = [person EXCEPT ![u] = row]
        /\ askedOf' = {a \in askedOf : ~(a[1] = u /\ a[2] \in anew)} \union {<<u,
              k>> : k \in {r} \ {Social!None}}
    BY Zenon, <1>4 DEF Social!Onboard, Kinds
  <2> HIDE DEF u, given, r
  <2>2. row \in ContactRows
    <3>1. person \in Seq(ContactRows) /\ u \in DOMAIN person
      BY Zenon, <1>1 DEF SocialInv, SocialTyped
    <3>2. person[u] \in ContactRows
      BY <3>1
    <3> QED BY Zenon, <1>1, <3>2 DEF ContactRows
  <2>3. \A k \in Kinds : row[k] = IF given[k] = "as it is" THEN person[u][k] ELSE given[k]
    OBVIOUS
  <2> HIDE DEF row
  <2>4. FreeRow(u, row)
    <3>1. given["email"] # Social!None =>
              \A v \in DOMAIN person \ {u} : person[v]["email"] # given["email"]
      BY <1>4, FreeIsNobodys
    <3>2. given["phone"] # Social!None =>
              \A v \in DOMAIN person \ {u} : person[v]["phone"] # given["phone"]
      BY <1>4, FreeIsNobodys
    <3> QED BY Zenon, <2>3, <3>1, <3>2 DEF Kinds, FreeRow
  <2>5. /\ person' \in Seq(ContactRows) /\ Len(person') = Len(person)
            /\ DOMAIN person' = DOMAIN person
        /\ \A v \in DOMAIN person : person'[v] = IF v = u THEN row ELSE person[v]
        /\ ContactsUnshared'
    BY Zenon, <1>1, <2>1, <2>2, <2>4, ContactsWritten
  <2>6. DOMAIN linking' = AnyCalls /\ \A d \in AnyCalls : LinkingFits(d)'
    <3>1. DOMAIN person = 1 .. Len(person) /\ Len(person) \in Nat
              /\ Len(person) <= Len(person')
      BY <2>5 DEF SocialInv, SocialTyped
    <3> QED BY <1>2, <2>5, <3>1, LinkingEnds
  <2>7. AskedGiven'
    <3> SUFFICES ASSUME NEW a \in askedOf'
                 PROVE  a[1] \in DOMAIN person /\ a[2] \in Kinds
                        /\ person'[a[1]][a[2]] # Social!None
      BY <2>5 DEF AskedGiven
    <3>1. CASE a \in askedOf /\ ~(a[1] = u /\ a[2] \in anew)
      <4>1. a[1] \in DOMAIN person /\ a[2] \in Kinds /\ person[a[1]][a[2]] # Social!None
        BY Zenon, <3>1 DEF SocialInv, AskedGiven
      <4> QED BY Zenon, <2>3, <2>5, <3>1, <4>1
    <3>2. CASE r # Social!None /\ a = <<u, r>>
      <4>1. a[1] = u /\ a[2] = r
        BY <3>2
      <4> QED BY Zenon, <1>1, <2>3, <2>5, <3>2, <4>1
    <3> QED BY Zenon, <2>1, <3>1, <3>2
  <2> QED BY <1>2, <2>5, <2>6, <2>7 DEF SocialInv, SocialTyped, MadeForAccounts, LetInAsOne
<1> QED BY <1>3, <1>4

LEMMA SocialStepKeeps ==
    ASSUME SocialInv, [Social!Next]_Social!vars PROVE SocialInv'
<1>1. ASSUME NEW c \in AnyCalls, NEW i \in SocialIdentities, Social!BeginSignIn(c, i) PROVE SocialInv'
  BY <1>1, SignInBegins
<1>2. ASSUME NEW c \in AnyCalls, Social!SignIn(c) PROVE SocialInv'
  BY <1>2, SignInKeeps
<1>3. ASSUME NEW c \in AnyCalls, NEW u \in DOMAIN person, NEW provider \in sessionsOf[u],
             NEW e \in GivenEmails \union {Social!None, "as it is"},
             NEW p \in GivenPhones \union {Social!None, "as it is"},
             Social!BeginOnboarding(c, u, provider, e, p)
      PROVE  SocialInv'
  BY Zenon, <1>3, OnboardingBegins
<1>4. ASSUME NEW c \in AnyCalls, Social!Onboard(c) PROVE SocialInv'
  BY <1>4, OnboardKeeps
<1>5. ASSUME NEW p \in GivenPhones, Social!PhoneSignIn(p) PROVE SocialInv'
  BY <1>5, PhoneSignInKeeps
<1>6. CASE UNCHANGED Social!vars
  <2>1. UNCHANGED <<person, linked, madeFor, letIn, anyReplaced, askedOf, linking>>
    BY <1>6 DEF Social!vars
  <2>2. SocialTyped' /\ ContactsUnshared' /\ MadeForAccounts' /\ LetInAsOne' /\ AskedGiven'
    BY <2>1 DEF SocialInv, SocialTyped, ContactsUnshared, MadeForAccounts, LetInAsOne,
       AskedGiven
  <2> QED BY Zenon, <2>1, <2>2 DEF SocialInv, LinkingFits
<1> QED BY Zenon, <1>1, <1>2, <1>3, <1>4, <1>5, <1>6 DEF Social!Next

LEMMA SocialSteps ==
    ASSUME focus = "social", [Next]_<<focus, everything>>
    PROVE  [Social!Next]_Social!vars
<1>1. CASE UNCHANGED <<focus, everything>>
  BY <1>1 DEF everything, Social!vars
<1>2. CASE Next
  BY <1>2 DEF Next
<1> QED BY <1>1, <1>2

LEMMA SocialKept == Spec => [](focus = "social" => SocialInv)
<1>1. Init => (focus = "social" => SocialInv)
  BY SocialBegins DEF Init
<1>2. (focus = "social" => SocialInv) /\ [Next]_<<focus, everything>>
        => (focus = "social" => SocialInv)'
  <2> SUFFICES ASSUME focus = "social" => SocialInv, [Next]_<<focus, everything>>,
                      focus' = "social"
               PROVE  SocialInv'
    OBVIOUS
  <2>1. focus = "social" /\ SocialInv
    BY DEF Next
  <2>2. [Social!Next]_Social!vars
    BY <2>1, SocialSteps
  <2> QED BY <2>1, <2>2, SocialStepKeeps
<1> QED BY <1>1, <1>2, PTL DEF Spec

-----------------------------------------------------------------------------
(* Whatever way a user signs in: a code starts one session and a refresh     *)
(* token is honoured once; a Telegram login lets in whom its code was sent   *)
(* to, once; an identity has one user, and nobody shares a contact.          *)
THEOREM SignInsHold == Spec => []SignInHolds
<1>1. (focus = "auth" => AuthInv) => SessionsHold
  BY SessionsHoldFollows DEF SessionsHold
<1>2. (focus = "telegram" => TelegramInv) => LoginsHold
  BY LoginsHoldFollows DEF LoginsHold
<1>3. (focus = "social" => SocialInv) => ContactsHold
  BY ContactsHoldFollows DEF ContactsHold
<1>4. /\ focus = "auth" => AuthInv
      /\ focus = "telegram" => TelegramInv
      /\ focus = "social" => SocialInv
      => SignInHolds
  BY <1>1, <1>2, <1>3 DEF SignInHolds
<1> QED BY <1>4, AuthKept, TelegramKept, SocialKept, PTL

-----------------------------------------------------------------------------
(* Tickets, their limits, and the draw of a drop, for any rewards, tickets,  *)
(* limits and calls.                                                         *)

granted == v1
ticket == v2
drop == v3
snapshot == v4
winner == v5
draws == v6
entering == v7
entriesLeft == v8
twins == v9
crowded == v10
late == v11
revived == v12
choices == v13
outrun == v14
USE DEF granted, ticket, drop, snapshot, winner, draws, entering, entriesLeft,
        twins, crowded, late, revived, choices, outrun

-----------------------------------------------------------------------------
LEMMA TicketsCounted == \A S : Drop!Cardinality(S) = Cardinality(S)
BY DEF Drop!Cardinality, Cardinality

TicketRows == [st : Drop!Status, in : BOOLEAN, age : Nat]
WinnerRows == [reserve : BOOLEAN, pos : Int]

DropsTyped ==
    /\ granted \in SUBSET DropRewards
    /\ ticket \in [Drop!Tickets -> TicketRows]
    /\ snapshot \in SUBSET Drop!Tickets /\ late \in SUBSET Drop!Tickets
    /\ winner \in [DOMAIN winner -> WinnerRows] /\ DOMAIN winner \in SUBSET snapshot
    /\ draws \in Nat /\ choices \in Nat
    /\ entriesLeft.calls \in 0 .. MaxDropCalls
    /\ entriesLeft \in [calls : Int, cancels : Int]
    /\ DOMAIN entering = AnyCalls
    /\ twins \in BOOLEAN /\ crowded \in BOOLEAN /\ outrun \in BOOLEAN

(* Tickets that count against the limits but for those revived, and those    *)
(* that wait for a draw.                                                     *)
Standing == Drop!With({"active", "used", "winner"}) \ revived
Waiting == Drop!Assigned \intersect Drop!With({"active"})

(* What a grant has counted holds until other tickets are granted.           *)
GrantFits(k) ==
    entering[k].op = "grant" =>
        /\ entering[k].reward \in DropRewards /\ entering[k].age \in Nat
        /\ entering[k].saw \in SUBSET granted
        /\ \/ twins \/ granted # entering[k].saw
           \/ /\ Cardinality(Standing) + Cardinality(TicketsFor[entering[k].reward]) <= MonthTickets
              /\ Cardinality(Drop!OfTask(TaskFor[entering[k].reward]))
                    + Cardinality(TicketsFor[entering[k].reward])
                 <= TaskLimitOf[TaskFor[entering[k].reward]]

Listed(k) == entering[k].op = "apply" /\ entering[k].at = "listed"

(* What an application is about to assign fits with what is assigned.        *)
ApplyFits(k) ==
    entering[k].op = "apply" =>
        /\ entering[k].at \in {"begun", "counted"} => entering[k].n \in Nat
        /\ entering[k].at = "counted" =>
              /\ entering[k].saw \in SUBSET Drop!Tickets
              /\ Cardinality(entering[k].saw) + entering[k].n <= UserTickets
        /\ entering[k].at = "listed" =>
              /\ entering[k].list \in SUBSET Drop!Tickets
              /\ crowded \/ Cardinality(Drop!Assigned \union entering[k].list) <= UserTickets

ListsNested ==
    crowded \/ \A k, l \in AnyCalls :
        Listed(k) /\ Listed(l) =>
            entering[k].list \subseteq entering[l].list
                \/ entering[l].list \subseteq entering[k].list

(* A draw has read every ticket that waits, but for late ones.               *)
DrawFits(k) ==
    entering[k].op = "draw" /\ entering[k].at = "listed" =>
        /\ entering[k].list \in SUBSET Drop!Tickets
        /\ \A t \in entering[k].list : ticket[t].st # "none"
        /\ Waiting \subseteq entering[k].list \union late

(* What a choice has read is still so, or has been done by another, or the   *)
(* index refuses it: unless two others have overtaken it.                    *)
Fresh(up, down, pos, last) ==
    /\ winner[up].reserve /\ ~winner[down].reserve
    /\ winner[down].pos = pos
    /\ last = Drop!Max({winner[u].pos : u \in DOMAIN winner \ Drop!Places}) + 1
Settled(up, down, pos, last) ==
    /\ ~winner[up].reserve /\ winner[up].pos = pos
    /\ winner[down].reserve /\ winner[down].pos = last
Clashes(up, down, pos, last) ==
    \E v \in DOMAIN winner \ {up, down} :
        \/ winner[v].pos = pos /\ ~winner[v].reserve
        \/ winner[v].pos = last /\ winner[v].reserve
Stands(up, down, pos, last) ==
    \/ Fresh(up, down, pos, last)
    \/ Settled(up, down, pos, last)
    \/ Clashes(up, down, pos, last)

ChooseFits(k) ==
    entering[k].op = "choose" =>
        /\ entering[k].draws \in Nat /\ entering[k].draws <= draws
        /\ entering[k].choices \in Nat /\ entering[k].choices <= choices
        /\ entering[k].draws = draws =>
              /\ entering[k].up \in DOMAIN winner /\ entering[k].down \in DOMAIN winner
              /\ entering[k].up # entering[k].down
              /\ entering[k].pos \in Int /\ entering[k].last \in Int
              /\ choices = entering[k].choices =>
                    Fresh(entering[k].up, entering[k].down, entering[k].pos, entering[k].last)
              /\ \/ outrun \/ choices > entering[k].choices + 1
                 \/ Stands(entering[k].up, entering[k].down, entering[k].pos, entering[k].last)

EntryFits(k) == GrantFits(k) /\ ApplyFits(k) /\ DrawFits(k) /\ ChooseFits(k)

TicketsKnown ==
    /\ \A t \in Drop!Tickets :
          /\ ticket[t].st # "none" => \E r \in granted : t \in TicketsFor[r]
          /\ ticket[t].in => ticket[t].st \in {"active", "used", "winner"}
    /\ \A t \in snapshot : ticket[t].st # "none"

DrawKnown ==
    /\ draws = 0 => Drop!With({"used", "winner"}) = {} /\ DOMAIN winner = {}
    /\ Drop!DrawIsWhole

DropInv ==
    /\ DropsTyped
    /\ TicketsKnown
    /\ Drop!LimitKept
    /\ crowded \/ Cardinality(Drop!Assigned) <= UserTickets
    /\ ListsNested
    /\ DrawKnown
    /\ \A k \in AnyCalls : EntryFits(k)

-----------------------------------------------------------------------------
(* Numbers of tickets.                                                       *)

LEMMA MaxIsTheGreatest ==
    ASSUME NEW S \in SUBSET Int, IsFiniteSet(S), S # {}
    PROVE  Drop!Max(S) \in S /\ \A y \in S : y <= Drop!Max(S)
<1> DEFINE above(m) == {k \in S : k > m}
           T == {above(m) : m \in S}
<1>1. T \subseteq FiniteSubsetsOf(S)
  BY FS_Subset DEF FiniteSubsetsOf
<1>2. T # {}
  OBVIOUS
<1>3. IsWellFoundedOn(StrictSubsetOrdering(S), FiniteSubsetsOf(S))
  BY FS_StrictSubsetOrderingWellFounded
<1>4. \E x \in T : \A y \in T : <<y, x>> \notin StrictSubsetOrdering(S)
  <2> HIDE DEF T
  <2> QED BY <1>1, <1>2, <1>3, WFMin
<1>5. PICK m \in S : \A n \in S : <<above(n), above(m)>> \notin StrictSubsetOrdering(S)
  BY <1>4
<1>6. \A n \in S : n <= m
  <2> SUFFICES ASSUME NEW n \in S, ~(n <= m) PROVE FALSE
    OBVIOUS
  <2>1. n > m /\ m \in Int /\ n \in Int
    OBVIOUS
  <2>2. above(n) \subseteq above(m)
    <3>1. \A k \in S : k \in Int /\ (k > n => k > m)
      BY <2>1
    <3> QED BY <3>1
  <2>3. n \in above(m) /\ n \notin above(n)
    BY <2>1
  <2>4. above(n) \in SUBSET S /\ above(m) \in SUBSET S
    OBVIOUS
  <2> HIDE DEF above
  <2>5. <<above(n), above(m)>> \in StrictSubsetOrdering(S)
    BY <2>2, <2>3, <2>4 DEF StrictSubsetOrdering
  <2> QED BY <2>5, <1>5
<1>7. \E x \in S : \A y \in S : x >= y
  BY <1>6
<1> QED BY <1>7 DEF Drop!Max

LEMMA TicketsFinite == IsFiniteSet(Drop!Tickets) /\ Drop!Tickets \in SUBSET Nat
BY DropsFit DEF Drop!Tickets

(* The first n are no more than n.                                           *)
LEMMA FirstsAreFew ==
    ASSUME NEW S, IsFiniteSet(S), NEW key \in [S -> Int], NEW n \in Nat,
           \A t, u \in S : key[t] = key[u] => t = u
    PROVE  Cardinality(Drop!Firsts(n, S, key)) <= n
<1> DEFINE F == Drop!Firsts(n, S, key)
<1>1. F \in SUBSET S /\ IsFiniteSet(F)
  BY TicketsCounted, FS_Subset DEF Drop!Firsts
<1>2. CASE F = {}
  BY <1>2, FS_EmptySet
<1>3. CASE F # {}
  <2> DEFINE K == {key[t] : t \in F}
  <2>1. IsFiniteSet(K) /\ K \in SUBSET Int /\ K # {}
    <3>1. [t \in F |-> key[t]] \in Surjection(F, K)
      BY DEF Surjection
    <3>2. IsFiniteSet(K)
      <4> HIDE DEF K, F
      <4> QED BY <3>1, <1>1, FS_Surjection
    <3>3. \A t \in F : key[t] \in Int
      BY <1>1
    <3> QED BY <3>2, <3>3, <1>3
  <2>2. PICK m \in F : \A t \in F : key[t] <= key[m]
    <3> HIDE DEF K
    <3>1. Drop!Max(K) \in K /\ \A y \in K : y <= Drop!Max(K)
      BY <2>1, MaxIsTheGreatest
    <3> QED BY <3>1 DEF K
  <2>3. Cardinality({u \in S : key[u] < key[m]}) < n
    BY TicketsCounted, <2>2 DEF Drop!Firsts
  <2>4. F \subseteq {u \in S : key[u] < key[m]} \union {m}
    <3>1. \A t \in F : t \in S /\ (t = m \/ key[t] < key[m])
      <4> SUFFICES ASSUME NEW t \in F, t # m PROVE key[t] < key[m]
        BY <1>1
      <4>1. key[t] \in Int /\ key[m] \in Int /\ key[t] # key[m] /\ key[t] <= key[m]
        BY <1>1, <2>2
      <4> QED BY <4>1
    <3> QED BY <3>1
  <2> DEFINE L == {u \in S : key[u] < key[m]}
  <2>5. IsFiniteSet(L) /\ Cardinality(L) \in Nat
    BY FS_Subset, FS_CardinalityType
  <2>6. m \notin L /\ IsFiniteSet(L \union {m})
            /\ Cardinality(L \union {m}) = Cardinality(L) + 1
    <3>1. m \notin L
      BY <1>1, <2>2
    <3> HIDE DEF L
    <3> QED BY <3>1, <2>5, FS_AddElement
  <2>7. Cardinality(F) <= Cardinality(L \union {m})
    <3> HIDE DEF F, L
    <3> QED BY <2>4, <2>6, FS_Subset DEF L
  <2>8. Cardinality(F) \in Nat
    BY <1>1, FS_CardinalityType
  <2> QED BY <2>3, <2>5, <2>6, <2>7, <2>8
<1> QED BY <1>2, <1>3

(* The order by age is strict.                                               *)
LEMMA AgesDiffer ==
    ASSUME NEW m \in Nat, NEW a \in Nat, NEW b \in Nat, NEW t \in 0 .. m, NEW u \in 0 .. m,
           a * (m + 1) + t = b * (m + 1) + u
    PROVE  t = u
<1>1. ASSUME NEW x \in Nat, NEW y \in Nat, NEW v \in 0 .. m, NEW w \in 0 .. m, x < y
      PROVE  x * (m + 1) + v < y * (m + 1) + w
  <2>1. PICK d \in Nat : y = x + 1 + d
    <3>1. y - x - 1 \in Nat /\ y = x + 1 + (y - x - 1)
      BY <1>1
    <3> QED BY <3>1
  <2>2. y * (m + 1) = x * (m + 1) + (m + 1) + d * (m + 1)
    BY <2>1
  <2>3. x * (m + 1) \in Nat /\ d * (m + 1) \in Nat /\ y * (m + 1) \in Nat
    BY <2>1
  <2> HIDE <2>1
  <2> QED BY <2>2, <2>3
<1>2. ~(a < b) /\ ~(b < a)
  <2>1. a < b => a * (m + 1) + t < b * (m + 1) + u
    BY <1>1
  <2>2. b < a => b * (m + 1) + u < a * (m + 1) + t
    BY <1>1
  <2>3. a * (m + 1) \in Nat /\ b * (m + 1) \in Nat
    OBVIOUS
  <2> QED BY <2>1, <2>2, <2>3
<1>3. a = b
  BY <1>2
<1>4. a * (m + 1) \in Nat
  OBVIOUS
<1> QED BY <1>3, <1>4

-----------------------------------------------------------------------------
(* What changes with the steps.                                              *)

LEMMA GrantsKept ==
    ASSUME DropInv, NEW k \in AnyCalls, entering'[k] = entering[k], granted' = granted,
           twins' = twins, Standing' \subseteq Standing, IsFiniteSet(Standing)
    PROVE  GrantFits(k)'
<1>1. Cardinality(Standing') <= Cardinality(Standing) /\ Cardinality(Standing) \in Nat
        /\ Cardinality(Standing') \in Nat
  BY FS_Subset, FS_CardinalityType
<1>2. GrantFits(k)
  BY DEF DropInv, EntryFits
<1>3. \A r \in DropRewards : Drop!OfTask(TaskFor[r])' = Drop!OfTask(TaskFor[r])
  BY DEF Drop!OfTask
<1>4. \A r \in DropRewards : Cardinality(TicketsFor[r]) \in Nat
  BY DropsFit, TicketsFinite, FS_Subset, FS_CardinalityType DEF Drop!Tickets
<1>5. CASE entering[k].op = "grant"
  <2> DEFINE r == entering[k].reward
             n == Cardinality(TicketsFor[r])
             s == Cardinality(Standing)
  <2>1. r \in DropRewards /\ n \in Nat
    BY <1>2, <1>4, <1>5 DEF GrantFits
  <2>2. Cardinality(Standing') + n <= MonthTickets
            \/ ~(Cardinality(Standing) + n <= MonthTickets)
    BY <1>1, <2>1, DropsFit
  <2>3. Cardinality(Drop!OfTask(TaskFor[r])') = Cardinality(Drop!OfTask(TaskFor[r]))
    BY <1>3, <2>1
  <2> QED BY <1>2, <1>5, <2>1, <2>2, <2>3 DEF GrantFits
<1> QED BY <1>5 DEF GrantFits

LEMMA AppliesKept ==
    ASSUME DropInv, NEW k \in AnyCalls, entering'[k] = entering[k], crowded' = crowded,
           Drop!Assigned' \subseteq Drop!Assigned
    PROVE  ApplyFits(k)'
<1>1. ApplyFits(k)
  BY DEF DropInv, EntryFits
<1>2. CASE Listed(k) /\ ~crowded
  <2>1. Drop!Assigned' \union entering[k].list
            \subseteq Drop!Assigned \union entering[k].list
    OBVIOUS
  <2>2. IsFiniteSet(Drop!Assigned \union entering[k].list)
    BY <1>1, <1>2, TicketsFinite, FS_Subset, FS_Union DEF ApplyFits, Listed, Drop!Assigned
  <2>3. Cardinality(Drop!Assigned' \union entering[k].list)
            <= Cardinality(Drop!Assigned \union entering[k].list)
    BY <2>1, <2>2, FS_Subset
  <2>4. Cardinality(Drop!Assigned' \union entering[k].list) \in Nat
          /\ Cardinality(Drop!Assigned \union entering[k].list) \in Nat
    BY <2>1, <2>2, FS_Subset, FS_CardinalityType
  <2>5. Cardinality(Drop!Assigned' \union entering[k].list) <= UserTickets
    BY <1>1, <1>2, <2>3, <2>4, DropsFit DEF ApplyFits, Listed
  <2>6. (Drop!Assigned \union entering[k].list)' = Drop!Assigned' \union entering[k].list
    OBVIOUS
  <2> QED BY <1>1, <1>2, <2>5, <2>6 DEF ApplyFits, Listed
<1> QED BY <1>1, <1>2 DEF ApplyFits, Listed

LEMMA DrawsKept ==
    ASSUME DropInv, NEW k \in AnyCalls, entering'[k] = entering[k],
           \A t \in Drop!Tickets : ticket[t].st # "none" => ticket'[t].st # "none",
           Waiting' \subseteq Waiting \union late', Waiting' \intersect late \subseteq late'
    PROVE  DrawFits(k)'
BY DEF DropInv, EntryFits, DrawFits

LEMMA ChoicesKept ==
    ASSUME DropInv, NEW k \in AnyCalls, entering'[k] = entering[k],
           UNCHANGED <<winner, draws, choices, outrun>>
    PROVE  ChooseFits(k)'
<1>1. ChooseFits(k)
  BY DEF DropInv, EntryFits
<1>2. Drop!Places' = Drop!Places
  BY DEF Drop!Places
<1>3. \A up, down, pos, last :
          /\ Fresh(up, down, pos, last) => Fresh(up, down, pos, last)'
          /\ Stands(up, down, pos, last) => Stands(up, down, pos, last)'
  BY <1>2 DEF Fresh, Settled, Clashes, Stands
<1> QED BY <1>1, <1>3 DEF ChooseFits, Fresh, Settled, Clashes, Stands, Drop!Places

(* A step of one call alone.                                                 *)
Shared == <<granted, ticket, drop, snapshot, winner, draws, twins, crowded, late, revived,
            choices, outrun>>

LEMMA SharedKept ==
    ASSUME UNCHANGED Shared
    PROVE  /\ Standing' = Standing /\ Drop!Assigned' = Drop!Assigned /\ Waiting' = Waiting
           /\ Drop!LimitKept <=> Drop!LimitKept'
           /\ TicketsKnown <=> TicketsKnown'
           /\ DrawKnown <=> DrawKnown'
BY TicketsCounted DEF Shared, Standing, Drop!Assigned, Waiting, Drop!LimitKept,
    TicketsKnown, DrawKnown,
   Drop!DrawIsWhole,
       Drop!With, Drop!OfTask, Drop!Places, Drop!Firsts

LEMMA StandingFinite ==
    IsFiniteSet(Standing) /\ IsFiniteSet(Drop!Assigned)
      /\ Standing \in SUBSET Drop!Tickets /\ Drop!Assigned \in SUBSET Drop!Tickets
<1>1. Standing \in SUBSET Drop!Tickets /\ Drop!Assigned \in SUBSET Drop!Tickets
  BY DEF Standing, Drop!Assigned, Drop!With
<1> QED BY <1>1, TicketsFinite, FS_Subset

LEMMA AloneKeeps ==
    ASSUME DropInv, NEW k \in AnyCalls, UNCHANGED Shared,
           DOMAIN entering' = AnyCalls,
               \A l \in AnyCalls \ {k} : entering'[l] = entering[l],
           entriesLeft'.calls \in 0 .. MaxDropCalls, entriesLeft' \in [calls : Int, cancels : Int],
           ~Listed(k)', EntryFits(k)'
    PROVE  DropInv'
<1>1. \A l \in AnyCalls : EntryFits(l)'
  <2> SUFFICES ASSUME NEW l \in AnyCalls, l # k PROVE EntryFits(l)'
    OBVIOUS
  <2>1. entering'[l] = entering[l]
    OBVIOUS
  <2>2. granted' = granted /\ twins' = twins /\ crowded' = crowded
          /\ UNCHANGED <<winner, draws, choices,
                outrun>> /\ ticket' = ticket /\ late' = late
    BY DEF Shared
  <2>3. GrantFits(l)' /\ ApplyFits(l)' /\ DrawFits(l)' /\ ChooseFits(l)'
    BY <2>1, <2>2, SharedKept, StandingFinite, GrantsKept, AppliesKept, DrawsKept,
       ChoicesKept
  <2> QED BY <2>3 DEF EntryFits
<1>2. ListsNested'
  <2>1. \A l \in AnyCalls : Listed(l)' =>
            l # k /\ Listed(l) /\ entering'[l].list = entering[l].list
    BY DEF Listed
  <2>2. crowded' = crowded
    BY DEF Shared
  <2> QED BY <2>1, <2>2 DEF DropInv, ListsNested
<1>3. DropsTyped'
  BY DEF DropInv, DropsTyped, Shared
<1>4. Drop!LimitKept' /\ TicketsKnown' /\ DrawKnown'
  BY SharedKept DEF DropInv
<1>5. (crowded \/ Cardinality(Drop!Assigned) <= UserTickets)'
  BY SharedKept DEF DropInv, Shared
<1> QED BY <1>1, <1>2, <1>3, <1>4, <1>5 DEF DropInv

-----------------------------------------------------------------------------
(* Steps of one call.                                                        *)

LEMMA BeginsAlone ==
    ASSUME DropInv, NEW k \in AnyCalls, NEW c, Drop!Begin(k, c), UNCHANGED Shared,
           EntryFits(k)',
           ~Listed(k)'
    PROVE  DropInv'
<1>1. DOMAIN entering' = AnyCalls /\ \A l \in AnyCalls \ {k} : entering'[l] = entering[l]
  BY DEF Drop!Begin, DropInv, DropsTyped
<1>2. entriesLeft'.calls \in 0 .. MaxDropCalls
          /\ entriesLeft' \in [calls : Int, cancels : Int]
  <2>1. entriesLeft \in [calls : Int, cancels : Int]
            /\ entriesLeft.calls \in 0 .. MaxDropCalls /\ entriesLeft.calls > 0
    BY DEF Drop!Begin, DropInv, DropsTyped
  <2>2. entriesLeft' = [entriesLeft EXCEPT !.calls = @ - 1]
    BY DEF Drop!Begin
  <2> QED BY <2>1, <2>2, DropsFit
<1> QED BY <1>1, <1>2, AloneKeeps

LEMMA GoesAlone ==
    ASSUME DropInv, NEW k \in AnyCalls, NEW c, entering' = [entering EXCEPT ![k] = c],
           UNCHANGED Shared,
           UNCHANGED entriesLeft, EntryFits(k)', ~Listed(k)'
    PROVE  DropInv'
<1>1. DOMAIN entering' = AnyCalls /\ \A l \in AnyCalls \ {k} : entering'[l] = entering[l]
  BY DEF DropInv, DropsTyped
<1> QED BY <1>1, AloneKeeps DEF DropInv, DropsTyped

(* An idle call, or one that has read nothing, promises nothing.             *)
LEMMA IdleFits ==
    ASSUME NEW k \in AnyCalls, entering'[k] = Drop!Idle PROVE EntryFits(k)' /\ ~Listed(k)'
BY DEF Drop!Idle, EntryFits, GrantFits, ApplyFits, DrawFits, ChooseFits, Listed

LEMMA CountTicketsKeeps ==
    ASSUME DropInv, NEW k \in AnyCalls, NEW r \in DropRewards, Drop!CountTickets(k, r)
    PROVE  DropInv'
<1> DEFINE c == [op |-> "grant", reward |-> r, saw |-> granted,
                 age |-> MaxDropCalls - entriesLeft.calls]
           n == Cardinality(TicketsFor[r])
<1>1. UNCHANGED Shared /\ Drop!Begin(k, c) /\ entering'[k] = c
  BY TicketsCounted DEF Drop!CountTickets, Shared, Drop!rewardVars, Drop!drawVars,
      Drop!Begin, DropInv,
     DropsTyped
<1>2. MaxDropCalls - entriesLeft.calls \in Nat
  BY DropsFit DEF DropInv, DropsTyped
<1>3. Cardinality(Standing) + n <= MonthTickets
  <2>1. Standing \subseteq Drop!Reserved /\ Drop!Reserved \subseteq Drop!Tickets
    BY DEF Standing, Drop!Reserved, Drop!With
  <2>2. Cardinality(Standing) <= Cardinality(Drop!Reserved)
          /\ Cardinality(Standing) \in Nat /\ Cardinality(Drop!Reserved) \in Nat
    BY <2>1, TicketsFinite, FS_Subset, FS_CardinalityType
  <2>3. Cardinality(Drop!Reserved) + n <= MonthTickets
    BY TicketsCounted DEF Drop!CountTickets
  <2>4. n \in Nat
    BY DropsFit, TicketsFinite, FS_Subset, FS_CardinalityType DEF Drop!Tickets
  <2> HIDE DEF n
  <2> QED BY <2>2, <2>3, <2>4, DropsFit
<1>4. Cardinality(Drop!OfTask(TaskFor[r])) + n <= TaskLimitOf[TaskFor[r]]
  BY TicketsCounted DEF Drop!CountTickets
<1>5. GrantFits(k)'
  <2>1. Standing' = Standing /\ granted' = granted
            /\ Drop!OfTask(TaskFor[r])' = Drop!OfTask(TaskFor[r])
    BY <1>1, SharedKept DEF Shared, Drop!OfTask
  <2>2. granted \in SUBSET granted
    OBVIOUS
  <2> QED BY <1>1, <1>2, <1>3, <1>4, <2>1, <2>2 DEF GrantFits
<1>6. ApplyFits(k)' /\ DrawFits(k)' /\ ChooseFits(k)' /\ ~Listed(k)'
  BY <1>1 DEF ApplyFits, DrawFits, ChooseFits, Listed
<1> QED BY <1>1, <1>5, <1>6, BeginsAlone DEF EntryFits

LEMMA BeginApplyKeeps ==
    ASSUME DropInv, NEW k \in AnyCalls, NEW n \in 1 .. UserTickets, Drop!BeginApply(k, n)
    PROVE  DropInv'
<1> DEFINE c == [op |-> "apply", at |-> "begun", n |-> n]
<1>1. UNCHANGED Shared /\ Drop!Begin(k, c) /\ entering'[k] = c
  BY DEF Drop!BeginApply, Shared, Drop!rewardVars, Drop!drawVars, Drop!Begin, DropInv,
     DropsTyped
<1>2. n \in Nat
  BY DropsFit
<1>3. EntryFits(k)' /\ ~Listed(k)'
  BY <1>1, <1>2 DEF EntryFits, GrantFits, ApplyFits, DrawFits, ChooseFits, Listed
<1> QED BY <1>1, <1>3, BeginsAlone

LEMMA BeginSimpleKeeps ==
    ASSUME DropInv, NEW k \in AnyCalls, Drop!BeginActivate(k) \/ Drop!BeginDraw(k)
    PROVE  DropInv'
<1>1. CASE Drop!BeginActivate(k)
  <2>1. UNCHANGED Shared /\ Drop!Begin(k, [op |-> "activate"])
            /\ entering'[k] = [op |-> "activate"]
    BY <1>1 DEF Drop!BeginActivate, Shared, Drop!rewardVars, Drop!drawVars, Drop!Begin,
       DropInv, DropsTyped
  <2>2. EntryFits(k)' /\ ~Listed(k)'
    BY <2>1 DEF EntryFits, GrantFits, ApplyFits, DrawFits, ChooseFits, Listed
  <2> QED BY <2>1, <2>2, BeginsAlone
<1>2. CASE Drop!BeginDraw(k)
  <2> DEFINE c == [op |-> "draw", at |-> "begun"]
  <2>1. UNCHANGED Shared /\ Drop!Begin(k, c) /\ entering'[k] = c
    BY <1>2 DEF Drop!BeginDraw, Shared, Drop!rewardVars, Drop!drawVars, Drop!Begin,
       DropInv, DropsTyped
  <2>2. EntryFits(k)' /\ ~Listed(k)'
    BY <2>1 DEF EntryFits, GrantFits, ApplyFits, DrawFits, ChooseFits, Listed
  <2> QED BY <2>1, <2>2, BeginsAlone
<1> QED BY <1>1, <1>2

LEMMA AbortKeeps ==
    ASSUME DropInv, NEW k \in AnyCalls, Drop!Abort(k) PROVE DropInv'
<1>1. UNCHANGED Shared /\ UNCHANGED entriesLeft
          /\ entering' = [entering EXCEPT ![k] = Drop!Idle] /\ entering'[k] = Drop!Idle
  BY DEF Drop!Abort, Shared, Drop!drawVars, Drop!End, DropInv, DropsTyped
<1> QED BY <1>1, IdleFits, GoesAlone

LEMMA InDropIsAssigned == ASSUME DropInv PROVE Drop!InDrop = Drop!Assigned
BY DEF DropInv, TicketsKnown, Drop!InDrop, Drop!Assigned, Drop!With

LEMMA CountAssignedKeeps ==
    ASSUME DropInv, NEW k \in AnyCalls, Drop!CountAssigned(k) PROVE DropInv'
<1> DEFINE c == [op |-> "apply", at |-> "counted", n |-> entering[k].n, saw |-> Drop!InDrop]
<1>1. UNCHANGED Shared /\ UNCHANGED entriesLeft
          /\ entering' = [entering EXCEPT ![k] = c] /\ entering'[k] = c
  BY TicketsCounted DEF Drop!CountAssigned, Shared, Drop!rewardVars, Drop!drawVars,
      DropInv, DropsTyped
<1>2. entering[k].n \in Nat
  BY TicketsCounted DEF Drop!CountAssigned, DropInv, EntryFits, ApplyFits
<1>3. Drop!InDrop \in SUBSET Drop!Tickets
          /\ Cardinality(Drop!InDrop) + entering[k].n <= UserTickets
  BY TicketsCounted DEF Drop!CountAssigned, Drop!InDrop, Drop!Assigned
<1>4. EntryFits(k)' /\ ~Listed(k)'
  BY <1>1, <1>2, <1>3 DEF EntryFits, GrantFits, ApplyFits, DrawFits, ChooseFits, Listed
<1> QED BY <1>1, <1>4, GoesAlone

LEMMA ListTicketsKeeps ==
    ASSUME DropInv, NEW k \in AnyCalls, Drop!ListTickets(k) PROVE DropInv'
<1> DEFINE c == [op |-> "draw", at |-> "listed", list |-> Waiting, draws |-> draws]
<1>1. UNCHANGED Shared /\ UNCHANGED entriesLeft
          /\ entering' = [entering EXCEPT ![k] = c] /\ entering'[k] = c
  BY DEF Drop!ListTickets, Shared, Drop!rewardVars, Drop!drawVars, DropInv, DropsTyped,
     Waiting
<1>2. Waiting \in SUBSET Drop!Tickets /\ \A t \in Waiting : ticket'[t].st # "none"
  BY <1>1 DEF Waiting, Drop!With, Drop!Assigned, Shared
<1>3. Waiting' = Waiting
  BY <1>1, SharedKept
<1>4. EntryFits(k)' /\ ~Listed(k)'
  BY <1>1, <1>2, <1>3 DEF EntryFits, GrantFits, ApplyFits, DrawFits, ChooseFits, Listed
<1> QED BY <1>1, <1>4, GoesAlone

LEMMA LastIsInt ==
    ASSUME DropInv, DOMAIN winner \ Drop!Places # {}
    PROVE  Drop!Max({winner[u].pos : u \in DOMAIN winner \ Drop!Places}) \in Int
<1> DEFINE R == DOMAIN winner \ Drop!Places
           P == {winner[u].pos : u \in R}
<1>1. IsFiniteSet(R)
  BY TicketsFinite, FS_Subset DEF DropInv, DropsTyped
<1>2. [u \in R |-> winner[u].pos] \in Surjection(R, P)
  BY DEF Surjection
<1>3. IsFiniteSet(P)
  <2> HIDE DEF P, R
  <2> QED BY <1>1, <1>2, FS_Surjection
<1>4. \A u \in R : winner[u].pos \in Int
  BY DEF DropInv, DropsTyped, WinnerRows
<1>5. P # {} /\ P \in SUBSET Int
  BY <1>4
<1> HIDE DEF P, R
<1>6. Drop!Max(P) \in P
  BY <1>3, <1>5, MaxIsTheGreatest
<1>7. Drop!Max(P) \in Int
  BY <1>5, <1>6
<1> QED BY <1>7 DEF P, R

LEMMA BeginChooseKeeps ==
    ASSUME DropInv, NEW k \in AnyCalls, NEW t \in Drop!Tickets, Drop!BeginChoose(k, t)
    PROVE  DropInv'
<1> DEFINE m == Drop!Max({winner[u].pos : u \in DOMAIN winner \ Drop!Places})
<1>1. PICK u \in Drop!Places :
          Drop!Begin(k, [op |-> "choose", up |-> t, down |-> u, pos |-> winner[u].pos,
                    last |-> m + 1, draws |-> draws, choices |-> choices])
  BY DEF Drop!BeginChoose
<1> DEFINE c == [op |-> "choose", up |-> t, down |-> u, pos |-> winner[u].pos,
                 last |-> m + 1, draws |-> draws, choices |-> choices]
<1>2. UNCHANGED Shared /\ entering'[k] = c
  BY <1>1 DEF Drop!BeginChoose, Shared, Drop!rewardVars, Drop!drawVars, Drop!Begin,
     DropInv, DropsTyped
<1>3. t \in DOMAIN winner \ Drop!Places /\ u \in DOMAIN winner /\ t # u
  BY DEF Drop!BeginChoose, Drop!Places
<1>4. winner[u].pos \in Int /\ m \in Int /\ m + 1 \in Int
  BY <1>3, LastIsInt DEF DropInv, DropsTyped, WinnerRows
<1> HIDE DEF m
<1>5. Fresh(t, u, winner[u].pos, m + 1)
  BY <1>3 DEF Fresh, Drop!Places, m
<1>6. Fresh(t, u, winner[u].pos, m + 1)'
  <2>1. winner' = winner /\ m' = m
    BY <1>2 DEF Shared, m, Drop!Places
  <2>2. Drop!Places' = Drop!Places
    BY <2>1 DEF Drop!Places
  <2> QED BY <1>5, <2>1, <2>2 DEF Fresh
<1>7. ChooseFits(k)'
  <2>1. draws' = draws /\ choices' = choices /\ DOMAIN winner' = DOMAIN winner
          /\ draws \in Nat /\ choices \in Nat
    BY <1>2 DEF Shared, DropInv, DropsTyped
  <2>2. Fresh(entering[k].up, entering[k].down, entering[k].pos, entering[k].last)'
    BY <1>2, <1>6 DEF Shared, Fresh, Drop!Places, m
  <2> QED BY <1>2, <1>3, <1>4, <2>1, <2>2 DEF ChooseFits, Stands
<1>8. GrantFits(k)' /\ ApplyFits(k)' /\ DrawFits(k)' /\ ~Listed(k)'
  BY <1>2 DEF GrantFits, ApplyFits, DrawFits, Listed
<1> QED BY <1>1, <1>2, <1>7, <1>8, BeginsAlone DEF EntryFits

-----------------------------------------------------------------------------
(* Steps that change tickets.                                                *)

LEMMA FreeListsAreFew ==
    ASSUME DropInv, NEW n \in Nat
    PROVE  Cardinality(Drop!Firsts(n, Drop!Free, Drop!ByAge)) <= n
<1>1. IsFiniteSet(Drop!Free) /\ Drop!Free \in SUBSET Drop!Tickets
  <2>1. Drop!Free \in SUBSET Drop!Tickets
    BY DEF Drop!Free, Drop!With
  <2> QED BY <2>1, TicketsFinite, FS_Subset
<1>2. CASE Drop!Free = {}
  <2>1. Drop!Firsts(n, Drop!Free, Drop!ByAge) = {}
    BY TicketsCounted, <1>2 DEF Drop!Firsts
  <2> QED BY <2>1, FS_EmptySet
<1>3. CASE Drop!Free # {}
  <2> DEFINE m == Drop!Max(Drop!Tickets)
             key == [t \in Drop!Free |-> Drop!ByAge[t]]
  <2>1. m \in Nat /\ \A t \in Drop!Tickets : t \in 0 .. m
    <3>1. Drop!Tickets # {} /\ Drop!Tickets \in SUBSET Int
      <4>1. \A t \in Drop!Tickets : t \in Int
        BY TicketsFinite
      <4>2. Drop!Tickets # {}
        BY <1>1, <1>3
      <4> QED BY <4>1, <4>2
    <3>2. m \in Drop!Tickets /\ \A t \in Drop!Tickets : t <= m
      BY <3>1, TicketsFinite, MaxIsTheGreatest
    <3>3. \A t \in Drop!Tickets : t \in Nat
      BY TicketsFinite
    <3> HIDE DEF m
    <3> QED BY <3>2, <3>3
  <2> HIDE DEF m
  <2>2. \A t \in Drop!Tickets : ticket[t].age \in Nat
    BY DEF DropInv, DropsTyped, TicketRows
  <2>3. \A t \in Drop!Tickets : Drop!ByAge[t] = ticket[t].age * (m + 1) + t
    BY DEF Drop!ByAge, m
  <2>4. \A t \in Drop!Tickets : Drop!ByAge[t] \in Int
    BY <2>1, <2>2, <2>3
  <2>5. ASSUME NEW t \in Drop!Tickets, NEW u \in Drop!Tickets, Drop!ByAge[t] = Drop!ByAge[u]
        PROVE  t = u
    <3>1. ticket[t].age * (m + 1) + t = ticket[u].age * (m + 1) + u
      BY <2>3, <2>5
    <3>2. t \in 0 .. m /\ u \in 0 .. m /\ ticket[t].age \in Nat /\ ticket[u].age \in Nat
      BY <2>1, <2>2
    <3> QED BY <3>1, <3>2, <2>1, AgesDiffer
  <2>6. key \in [Drop!Free -> Int] /\ \A t, u \in Drop!Free : key[t] = key[u] => t = u
    BY <1>1, <2>4, <2>5
  <2>7. Drop!Firsts(n, Drop!Free, key) = Drop!Firsts(n, Drop!Free, Drop!ByAge)
    BY TicketsCounted DEF Drop!Firsts
  <2> HIDE DEF key
  <2> QED BY <1>1, <2>6, <2>7, FirstsAreFew
<1> QED BY <1>2, <1>3

LEMMA ListFreeKeeps ==
    ASSUME DropInv, NEW k \in AnyCalls, Drop!ListFree(k) PROVE DropInv'
<1> DEFINE n == entering[k].n
           list == Drop!Firsts(n, Drop!Free, Drop!ByAge)
           c == [op |-> "apply", at |-> "listed", list |-> list]
<1>1. /\ UNCHANGED <<granted, ticket, drop, snapshot, winner, draws, twins, late, revived,
                     choices, outrun, entriesLeft>>
      /\ entering' = [entering EXCEPT ![k] = c] /\ entering'[k] = c
      /\ crowded' = (crowded \/ ~(Drop!InDrop \subseteq entering[k].saw)
            \/ ~Drop!Nested(list))
  BY TicketsCounted DEF Drop!ListFree, Drop!rewardVars, Drop!drawVars, DropInv, DropsTyped
<1>2. n \in Nat /\ entering[k].saw \in SUBSET Drop!Tickets
          /\ Cardinality(entering[k].saw) + n <= UserTickets
  BY TicketsCounted DEF Drop!ListFree, DropInv, EntryFits, ApplyFits
<1>3. list \in SUBSET Drop!Tickets /\ Cardinality(list) <= n
  BY TicketsCounted, <1>2, FreeListsAreFew DEF Drop!Firsts, Drop!Free, Drop!With
<1> HIDE DEF list, n
<1>4. /\ Standing' = Standing /\ Drop!Assigned' = Drop!Assigned /\ Waiting' = Waiting
      /\ Drop!LimitKept' /\ TicketsKnown' /\ DrawKnown'
  BY TicketsCounted, <1>1 DEF DropInv, Standing, Drop!Assigned, Waiting, Drop!LimitKept,
      TicketsKnown,
     DrawKnown,
              Drop!DrawIsWhole, Drop!With, Drop!OfTask, Drop!Places, Drop!Firsts
<1>5. crowded' \in BOOLEAN /\ (~crowded' => ~crowded)
  BY <1>1 DEF DropInv, DropsTyped
<1>6. DropsTyped'
  BY <1>1, <1>5 DEF DropInv, DropsTyped
<1>7. ASSUME NEW l \in AnyCalls, l # k PROVE EntryFits(l)'
  <2>1. entering'[l] = entering[l]
    BY <1>1, <1>7
  <2>2. GrantFits(l)' /\ DrawFits(l)' /\ ChooseFits(l)'
    BY <1>1, <1>4, <2>1, GrantsKept, StandingFinite, DrawsKept, ChoicesKept
  <2>3. ApplyFits(l)'
    BY <1>4, <1>5, <2>1 DEF DropInv, EntryFits, ApplyFits
  <2> QED BY <2>2, <2>3 DEF EntryFits
<1>8. EntryFits(k)'
  <2>1. ~crowded' => Cardinality(Drop!Assigned \union list) <= UserTickets
    <3> SUFFICES ASSUME ~crowded'
                 PROVE  Cardinality(Drop!Assigned \union list) <= UserTickets
      OBVIOUS
    <3>1. Drop!Assigned \union list \subseteq entering[k].saw \union list
      BY <1>1, InDropIsAssigned
    <3>2. IsFiniteSet(entering[k].saw) /\ IsFiniteSet(list)
      BY <1>2, <1>3, TicketsFinite, FS_Subset
    <3>3. IsFiniteSet(entering[k].saw \union list)
              /\ IsFiniteSet(entering[k].saw \intersect list)
            /\ Cardinality(entering[k].saw \union list)
                 = Cardinality(entering[k].saw) + Cardinality(list)
                     - Cardinality(entering[k].saw \intersect list)
      BY <3>2, FS_Union, FS_Intersection
    <3>4. Cardinality(Drop!Assigned \union list) <= Cardinality(entering[k].saw \union list)
            /\ Cardinality(Drop!Assigned \union list) \in Nat
      BY <3>1, <3>3, FS_Subset, FS_CardinalityType
    <3>5. Cardinality(entering[k].saw) \in Nat /\ Cardinality(list) \in Nat
            /\ Cardinality(entering[k].saw \intersect list) \in Nat
      BY <3>2, <3>3, FS_CardinalityType
    <3> QED BY <1>2, <1>3, <3>3, <3>4, <3>5, DropsFit
  <2>2. ApplyFits(k)'
    <3>1. (Drop!Assigned \union entering[k].list)' = Drop!Assigned \union list
      BY <1>1, <1>4
    <3>2. Cardinality(Drop!Assigned \union entering[k].list)'
              = Cardinality(Drop!Assigned \union list)
      BY <3>1
    <3>3. /\ entering'[k].op = "apply" /\ entering'[k].at = "listed"
              /\ entering'[k].list = list
          /\ crowded' \/ Cardinality(Drop!Assigned \union entering[k].list)' <= UserTickets
      BY <1>1, <1>5, <2>1, <3>2
    <3> QED BY <1>3, <3>3 DEF ApplyFits
  <2>3. GrantFits(k)' /\ DrawFits(k)' /\ ChooseFits(k)'
    BY <1>1 DEF GrantFits, DrawFits, ChooseFits
  <2> QED BY <2>2, <2>3 DEF EntryFits
<1>9. ListsNested'
  <2> SUFFICES ASSUME ~crowded', NEW i \in AnyCalls, NEW j \in AnyCalls, Listed(i)',
                      Listed(j)'
              
               PROVE   entering'[i].list \subseteq entering'[j].list
                      \/ entering'[j].list \subseteq entering'[i].list
    BY DEF ListsNested, Listed
  <2>1. Drop!Nested(list) /\ ~crowded
    BY <1>1
  <2>2. entering'[k].list = list
    BY <1>1
  <2>3. \A l \in AnyCalls \ {k} : entering'[l] = entering[l]
    BY <1>1
  <2>4. \A l \in AnyCalls \ {k} : Listed(l)' => Listed(l)
    BY <2>3 DEF Listed
  <2>5. \A l \in AnyCalls \ {k} : Listed(l)' =>
            entering'[l].list \subseteq list \/ list \subseteq entering'[l].list
    BY <2>1, <2>3, <2>4 DEF Drop!Nested, Listed
  <2>6. CASE i # k /\ j # k
    BY <2>1, <2>3, <2>4, <2>6 DEF DropInv, ListsNested
  <2> QED BY <2>2, <2>5, <2>6
<1>10. (crowded \/ Cardinality(Drop!Assigned) <= UserTickets)'
  BY <1>4, <1>5 DEF DropInv
<1> QED BY <1>4, <1>6, <1>7, <1>8, <1>9, <1>10 DEF DropInv

LEMMA AssignedFewer ==
    ASSUME DropInv, Drop!Assigned' \subseteq Drop!Assigned, crowded' = crowded
    PROVE  (crowded \/ Cardinality(Drop!Assigned) <= UserTickets)'
<1>1. Cardinality(Drop!Assigned') <= Cardinality(Drop!Assigned)
          /\ Cardinality(Drop!Assigned) \in Nat
        /\ Cardinality(Drop!Assigned') \in Nat
  BY StandingFinite, FS_Subset, FS_CardinalityType
<1>2. crowded \/ Cardinality(Drop!Assigned) <= UserTickets
  BY DEF DropInv
<1>3. Cardinality(Drop!Assigned)' = Cardinality(Drop!Assigned')
  OBVIOUS
<1> QED BY <1>1, <1>2, <1>3, DropsFit

LEMMA StandingLess ==
    ASSUME DropInv, Standing' \subseteq Standing, twins' = twins, granted' = granted
    PROVE  Drop!LimitKept'
<1>1. Cardinality(Standing') <= Cardinality(Standing) /\ Cardinality(Standing) \in Nat
        /\ Cardinality(Standing') \in Nat
  BY StandingFinite, FS_Subset, FS_CardinalityType
<1>2. twins \/ Cardinality(Standing) <= MonthTickets
  BY TicketsCounted DEF DropInv, Drop!LimitKept, Standing
<1>3. twins \/ Cardinality(Standing') <= MonthTickets
  BY <1>1, <1>2, DropsFit
<1>4. \A r \in DropRewards : Drop!OfTask(TaskFor[r])' = Drop!OfTask(TaskFor[r])
  BY DEF Drop!OfTask
<1> QED BY TicketsCounted, <1>3, <1>4 DEF DropInv, Drop!LimitKept, Standing

(* A step after which no more tickets are assigned, counted or waiting.      *)
LEMMA FewerKeeps ==
    ASSUME DropInv, NEW K, \A l \in AnyCalls : l \notin K => entering'[l] = entering[l],
           \A l \in K : EntryFits(l)' /\ ~Listed(l)', DOMAIN entering' = AnyCalls,
           UNCHANGED <<granted, twins, crowded, winner, draws, choices, outrun>>,
           Standing' \subseteq Standing, Drop!Assigned' \subseteq Drop!Assigned,
           \A t \in Drop!Tickets : ticket[t].st # "none" => ticket'[t].st # "none",
           Waiting' \subseteq Waiting \union late',
               Waiting' \intersect late \subseteq late',
           DropsTyped', TicketsKnown', DrawKnown'
    PROVE  DropInv'
<1>1. ASSUME NEW l \in AnyCalls, l \notin K PROVE EntryFits(l)'
  <2>1. entering'[l] = entering[l]
    BY <1>1
  <2> QED BY <2>1, GrantsKept, AppliesKept, DrawsKept, ChoicesKept, StandingFinite
      DEF EntryFits
<1>2. ListsNested'
  <2>1. \A l \in AnyCalls : Listed(l)' => Listed(l) /\ entering'[l] = entering[l]
    BY DEF Listed
  <2> QED BY <2>1 DEF DropInv, ListsNested
<1> QED BY <1>1, <1>2, AssignedFewer, StandingLess DEF DropInv

LEMMA CancelTicketKeeps ==
    ASSUME DropInv, NEW t \in Drop!Tickets, Drop!CancelTicket(t) PROVE DropInv'
<1>1. /\ UNCHANGED <<granted, twins, crowded, winner, draws, choices, outrun, entering, late,
                     drop, snapshot, revived>>
      /\ ticket' = [ticket EXCEPT ![t].st = "cancelled", ![t].in = FALSE]
      /\ ticket[t].st # "none"
      /\ entriesLeft' = [entriesLeft EXCEPT !.cancels = @ - 1]
  BY DEF Drop!CancelTicket, Drop!rewardVars, Drop!drawVars
<1>2. /\ ticket' \in [Drop!Tickets -> TicketRows]
      /\ ticket'[t].st = "cancelled" /\ ticket'[t].in = FALSE
      /\ \A u \in Drop!Tickets \ {t} : ticket'[u] = ticket[u]
  BY <1>1 DEF DropInv, DropsTyped, TicketRows, Drop!Status
<1>3. entriesLeft'.calls \in 0 .. MaxDropCalls
          /\ entriesLeft' \in [calls : Int, cancels : Int]
  BY <1>1 DEF DropInv, DropsTyped
<1>4. Standing' \subseteq Standing /\ Drop!Assigned' \subseteq Drop!Assigned
          /\ Waiting' \subseteq Waiting
        /\ Drop!With({"used"})' \subseteq Drop!With({"used"})
              /\ Drop!With({"winner"})' \subseteq Drop!With({"winner"})
        /\ Drop!With({"used", "winner"})' \subseteq Drop!With({"used", "winner"})
  BY <1>1, <1>2 DEF Standing, Drop!Assigned, Waiting, Drop!With
<1>5. DropsTyped'
  BY <1>1, <1>2, <1>3 DEF DropInv, DropsTyped
<1>6. TicketsKnown'
  BY <1>1, <1>2 DEF DropInv, DropsTyped, TicketsKnown
<1>7. DrawKnown'
  <2>1. Drop!Places' = Drop!Places
            /\ Drop!Firsts(Prizes, snapshot, Drop!ByHash)'
                  = Drop!Firsts(Prizes, snapshot, Drop!ByHash)
    BY TicketsCounted, <1>1 DEF Drop!Places, Drop!Firsts, Drop!ByHash
  <2>2. \A u \in Drop!Tickets : ticket[u].st \in {"winner", "cancelled"} =>
                             ticket'[u].st \in {"winner", "cancelled"}
    BY <1>2
  <2>3. Drop!Places \subseteq Drop!Tickets
    BY DEF Drop!Places, DropInv, DropsTyped
  <2>4. (Drop!Assigned \intersect Drop!With({"active"}))'
            \subseteq Drop!Assigned \intersect Drop!With({"active"})
    BY <1>4 DEF Waiting
  <2> QED BY TicketsCounted, <1>1, <1>4, <2>1, <2>2, <2>3, <2>4 DEF DropInv, DrawKnown,
          Drop!DrawIsWhole
<1>8. \A u \in Drop!Tickets : ticket[u].st # "none" => ticket'[u].st # "none"
  BY <1>2
<1> DEFINE none == {}
<1>9. /\ DOMAIN entering' = AnyCalls /\ \A l \in AnyCalls : l \notin none =>
          entering'[l] = entering[l]
      /\ \A l \in none : EntryFits(l)' /\ ~Listed(l)'
      /\ Waiting' \subseteq Waiting \union late' /\ Waiting' \intersect late \subseteq late'
  BY <1>1, <1>4 DEF DropInv, DropsTyped
<1> HIDE DEF none
<1> QED BY <1>1, <1>4, <1>5, <1>6, <1>7, <1>8, <1>9, FewerKeeps

LEMMA InsertTicketsKeeps ==
    ASSUME DropInv, NEW k \in AnyCalls, Drop!InsertTickets(k) PROVE DropInv'
<1> DEFINE r == entering[k].reward
           N == TicketsFor[r]
           row == [st |-> "active", in |-> FALSE, age |-> entering[k].age]
<1>1. /\ UNCHANGED <<crowded, winner, draws, choices, outrun, late, drop, snapshot,
                     revived, entriesLeft>>
      /\ granted' = granted \union {r} /\ r \notin granted /\ entering[k].op = "grant"
      /\ twins' = (twins \/ granted # entering[k].saw)
      /\ ticket' = [t \in Drop!Tickets |-> IF t \in N THEN row ELSE ticket[t]]
      /\ entering' = [entering EXCEPT ![k] = Drop!Idle] /\ entering'[k] = Drop!Idle
  BY DEF Drop!InsertTickets, Drop!drawVars, Drop!End, DropInv, DropsTyped
<1>2. r \in DropRewards /\ entering[k].age \in Nat
        /\ (twins \/ granted # entering[k].saw
            \/ /\ Cardinality(Standing) + Cardinality(N) <= MonthTickets
               /\ Cardinality(Drop!OfTask(TaskFor[r])) + Cardinality(N) <= TaskLimitOf[TaskFor[r]])
  BY <1>1 DEF DropInv, EntryFits, GrantFits
<1>3. N \in SUBSET Drop!Tickets /\ IsFiniteSet(N) /\ Cardinality(N) \in Nat
  <2>1. N \in SUBSET Drop!Tickets
    BY <1>2 DEF Drop!Tickets
  <2> QED BY <2>1, TicketsFinite, FS_Subset, FS_CardinalityType
<1> HIDE DEF r, N
<1>4. ticket' \in [Drop!Tickets -> TicketRows]
      /\ \A t \in Drop!Tickets :
             /\ t \in N => ticket'[t].st = "active" /\ ticket'[t].in = FALSE
             /\ t \notin N => ticket'[t] = ticket[t]
  BY <1>1, <1>2 DEF DropInv, DropsTyped, TicketRows, Drop!Status
<1>5. /\ Standing' \subseteq Standing \union N /\ Drop!Assigned' \subseteq Drop!Assigned
      /\ Waiting' \subseteq Waiting
      /\ Drop!With({"used"})' \subseteq Drop!With({"used"})
            /\ Drop!With({"winner"})' \subseteq Drop!With({"winner"})
      /\ Drop!With({"used", "winner"})' \subseteq Drop!With({"used", "winner"})
  BY <1>1, <1>4 DEF Standing, Drop!Assigned, Waiting, Drop!With
<1>6. twins' \in BOOLEAN /\ (~twins' => ~twins /\ granted = entering[k].saw)
  BY <1>1 DEF DropInv, DropsTyped
<1>7. DropsTyped'
  BY <1>1, <1>2, <1>4, <1>6 DEF DropInv, DropsTyped
<1>8. TicketsKnown'
  <2>1. \A t \in Drop!Tickets : t \in N => r \in granted' /\ t \in TicketsFor[r]
    BY <1>1 DEF N
  <2>2. granted \subseteq granted'
    BY <1>1
  <2>3. snapshot \in SUBSET Drop!Tickets
    BY DEF DropInv, DropsTyped
  <2> QED BY <1>1, <1>4, <2>1, <2>2, <2>3 DEF DropInv, TicketsKnown
<1>9. DrawKnown'
  <2>1. Drop!Places' = Drop!Places
            /\ Drop!Firsts(Prizes, snapshot, Drop!ByHash)'
                  = Drop!Firsts(Prizes, snapshot, Drop!ByHash)
    BY TicketsCounted, <1>1 DEF Drop!Places, Drop!Firsts, Drop!ByHash
  <2>2. \A t \in Drop!Places : t \notin N
    <3> SUFFICES ASSUME NEW t \in Drop!Places, t \in N PROVE FALSE
      OBVIOUS
    <3>1. t \in Drop!Tickets /\ ticket[t].st # "none"
      BY TicketsCounted DEF Drop!Places, DropInv, DropsTyped, DrawKnown, Drop!DrawIsWhole
    <3>2. PICK q \in granted : t \in TicketsFor[q]
      BY <3>1 DEF DropInv, TicketsKnown
    <3>3. q \in DropRewards /\ q # r
      BY <1>1 DEF DropInv, DropsTyped
    <3> QED BY <3>2, <3>3, <1>2, DropsFit DEF N
  <2>3. Drop!Places \subseteq Drop!Tickets
    BY DEF Drop!Places, DropInv, DropsTyped
  <2>4. (Drop!Assigned \intersect Drop!With({"active"}))'
            \subseteq Drop!Assigned \intersect Drop!With({"active"})
    BY <1>5 DEF Waiting
  <2> QED BY <1>1, <1>4, <1>5, <2>1, <2>2, <2>3, <2>4 DEF DropInv, DrawKnown,
      Drop!DrawIsWhole
<1>10. Drop!LimitKept'
  <2> SUFFICES ASSUME ~twins'
               PROVE  /\ Cardinality(Standing') <= MonthTickets
                      /\ \A q \in DropRewards : Cardinality(Drop!OfTask(TaskFor[q])') <= TaskLimitOf[TaskFor[q]]
    BY TicketsCounted DEF Drop!LimitKept, Standing
  <2>1. /\ Cardinality(Standing) + Cardinality(N) <= MonthTickets
        /\ Cardinality(Drop!OfTask(TaskFor[r])) + Cardinality(N) <= TaskLimitOf[TaskFor[r]]
    BY <1>2, <1>6
  <2>2. \A A, B : A \subseteq Drop!Tickets /\ B \subseteq A \union N =>
            /\ Cardinality(A) \in Nat /\ Cardinality(B) \in Nat
            /\ Cardinality(B) <= Cardinality(A) + Cardinality(N)
    <3> SUFFICES ASSUME NEW A, NEW B, A \subseteq Drop!Tickets, B \subseteq A \union N
                 PROVE  /\ Cardinality(A) \in Nat /\ Cardinality(B) \in Nat
                        /\ Cardinality(B) <= Cardinality(A) + Cardinality(N)
      OBVIOUS
    <3>1. IsFiniteSet(A) /\ Cardinality(A) \in Nat
      BY TicketsFinite, FS_Subset, FS_CardinalityType
    <3>2. IsFiniteSet(A \union N) /\ Cardinality(A \intersect N) \in Nat
            /\ Cardinality(A \union N)
                  = Cardinality(A) + Cardinality(N) - Cardinality(A \intersect N)
      BY <1>3, <3>1, FS_Union, FS_Intersection, FS_CardinalityType
    <3>3. Cardinality(B) <= Cardinality(A \union N) /\ Cardinality(B) \in Nat
      BY <3>2, FS_Subset, FS_CardinalityType
    <3> QED BY <1>3, <3>1, <3>2, <3>3
  <2>3. Cardinality(Standing') <= MonthTickets
    <3>1. Cardinality(Standing') <= Cardinality(Standing) + Cardinality(N)
            /\ Cardinality(Standing') \in Nat /\ Cardinality(Standing) \in Nat
      BY <1>5, <2>2, StandingFinite
    <3> QED BY <2>1, <3>1, <1>3, DropsFit
  <2>4. ASSUME NEW q \in DropRewards
        PROVE  Cardinality(Drop!OfTask(TaskFor[q])') <= TaskLimitOf[TaskFor[q]]
    <3>1. Drop!OfTask(TaskFor[q]) \subseteq Drop!Tickets
      BY DEF Drop!OfTask, Drop!Tickets, DropInv, DropsTyped
    <3>2. CASE TaskFor[q] = TaskFor[r]
      <4>1. Drop!OfTask(TaskFor[q])' \subseteq Drop!OfTask(TaskFor[r]) \union N
        BY <1>1, <3>2 DEF Drop!OfTask, N
      <4>2. Cardinality(Drop!OfTask(TaskFor[q])')
                <= Cardinality(Drop!OfTask(TaskFor[r])) + Cardinality(N)
              /\ Cardinality(Drop!OfTask(TaskFor[q])') \in Nat
                    /\ Cardinality(Drop!OfTask(TaskFor[r])) \in Nat
        BY <3>1, <3>2, <4>1, <2>2
      <4>3. TaskLimitOf[TaskFor[r]] \in Nat
        BY <1>2, DropsFit
      <4> QED BY <1>3, <2>1, <3>2, <4>2, <4>3
    <3>3. CASE TaskFor[q] # TaskFor[r]
      <4>1. Drop!OfTask(TaskFor[q])' = Drop!OfTask(TaskFor[q])
        BY <1>1, <3>3 DEF Drop!OfTask
      <4>2. Cardinality(Drop!OfTask(TaskFor[q])) <= TaskLimitOf[TaskFor[q]]
        BY TicketsCounted, <1>6 DEF DropInv, Drop!LimitKept
      <4> QED BY <4>1, <4>2
    <3> QED BY <3>2, <3>3
  <2> QED BY <2>3, <2>4
<1>11. \A l \in AnyCalls : EntryFits(l)' /\ (Listed(l)' =>
           Listed(l) /\ entering'[l] = entering[l])
  <2> SUFFICES ASSUME NEW l \in AnyCalls, l # k
              
               PROVE   EntryFits(l)' /\ (Listed(l)' =>
                      Listed(l) /\ entering'[l] = entering[l])
    BY <1>1, IdleFits
  <2>1. entering'[l] = entering[l]
    BY <1>1
  <2>2. GrantFits(l)'
    <3>1. GrantFits(l)
      BY DEF DropInv, EntryFits
    <3>2. entering[l].op = "grant" =>
              entering[l].saw \in SUBSET granted' /\ granted' # entering[l].saw
      BY <1>1, <3>1 DEF GrantFits
    <3> QED BY <2>1, <3>1, <3>2 DEF GrantFits
  <2>3. \A t \in Drop!Tickets : ticket[t].st # "none" => ticket'[t].st # "none"
    BY <1>4
  <2>4. ApplyFits(l)' /\ DrawFits(l)' /\ ChooseFits(l)'
    BY <1>1, <1>5, <2>1, <2>3, AppliesKept, DrawsKept, ChoicesKept
  <2> QED BY <2>1, <2>2, <2>4 DEF EntryFits, Listed
<1>12. ListsNested'
  BY <1>1, <1>11 DEF DropInv, ListsNested
<1> QED BY <1>1, <1>5, <1>7, <1>8, <1>9, <1>10, <1>11, <1>12, AssignedFewer DEF DropInv

LEMMA ActivateKeeps ==
    ASSUME DropInv, NEW k \in AnyCalls, Drop!Activate(k) PROVE DropInv'
<1>1. /\ UNCHANGED <<granted, ticket, snapshot, winner, draws, twins, crowded, late, revived,
                     choices, outrun, entriesLeft>>
      /\ drop' = "active" /\ entering' = [entering EXCEPT ![k] = Drop!Idle]
            /\ entering'[k] = Drop!Idle
  BY DEF Drop!Activate, Drop!rewardVars, Drop!drawVars, Drop!End, DropInv, DropsTyped
<1>2. Standing' = Standing /\ Drop!Assigned' = Drop!Assigned /\ Waiting' = Waiting
  BY <1>1 DEF Standing, Drop!Assigned, Waiting, Drop!With
<1>3. DropsTyped' /\ TicketsKnown' /\ DrawKnown'
  BY TicketsCounted, <1>1 DEF DropInv, DropsTyped, TicketsKnown, DrawKnown,
      Drop!DrawIsWhole, Drop!With,
     Drop!Assigned, Drop!Places,
              Drop!Firsts
<1> DEFINE one == {k}
<1>4. /\ DOMAIN entering' = AnyCalls /\ \A l \in AnyCalls : l \notin one =>
          entering'[l] = entering[l]
      /\ \A l \in one : EntryFits(l)' /\ ~Listed(l)'
  BY <1>1, IdleFits DEF DropInv, DropsTyped
<1>5. \A t \in Drop!Tickets : ticket[t].st # "none" => ticket'[t].st # "none"
  BY <1>1
<1> HIDE DEF one
<1> QED BY <1>1, <1>2, <1>3, <1>4, <1>5, FewerKeeps

LEMMA CancelDropKeeps ==
    ASSUME DropInv, Drop!CancelDrop PROVE DropInv'
<1>1. /\ UNCHANGED <<granted, snapshot, winner, draws, twins, crowded, entering, revived, choices,
                     outrun>>
      /\ drop' = "cancelled"
      /\ entriesLeft' = [entriesLeft EXCEPT !.cancels = @ - 1]
      /\ late' = late \ Drop!With({"active"})
      /\ ticket' = [t \in Drop!Tickets |->
                       IF ticket[t].in /\ ticket[t].st = "active"
                       THEN [ticket[t] EXCEPT !.in = FALSE] ELSE ticket[t]]
  BY DEF Drop!CancelDrop, Drop!rewardVars, Drop!drawVars
<1>2. /\ ticket' \in [Drop!Tickets -> TicketRows]
      /\ \A t \in Drop!Tickets : /\ ticket'[t].st = ticket[t].st
                                 /\ ticket'[t].in => ticket[t].in /\ ticket[t].st # "active"
  <2>1. \A t \in Drop!Tickets : ticket[t] \in TicketRows
    BY DEF DropInv, DropsTyped
  <2>2. \A t \in Drop!Tickets : [ticket[t] EXCEPT !.in = FALSE] \in TicketRows
          /\ [ticket[t] EXCEPT !.in = FALSE].st = ticket[t].st
          /\ [ticket[t] EXCEPT !.in = FALSE].in = FALSE
    BY <2>1 DEF TicketRows
  <2> QED BY <1>1, <2>1, <2>2
<1>3. entriesLeft'.calls \in 0 .. MaxDropCalls
          /\ entriesLeft' \in [calls : Int, cancels : Int]
  BY <1>1 DEF DropInv, DropsTyped
<1>4. \A status : Drop!With(status)' = Drop!With(status)
  BY <1>2 DEF Drop!With
<1>5. Standing' = Standing /\ Drop!Assigned' \subseteq Drop!Assigned /\ Waiting' = {}
  BY <1>1, <1>2, <1>4 DEF Standing, Drop!Assigned, Waiting, Drop!With
<1>6. DropsTyped'
  BY <1>1, <1>2, <1>3 DEF DropInv, DropsTyped
<1>7. TicketsKnown'
  <2>1. snapshot \in SUBSET Drop!Tickets
    BY DEF DropInv, DropsTyped
  <2> QED BY <1>1, <1>2, <2>1 DEF DropInv, TicketsKnown
<1>8. DrawKnown'
  <2>1. Drop!Places' = Drop!Places
            /\ Drop!Firsts(Prizes, snapshot, Drop!ByHash)'
                  = Drop!Firsts(Prizes, snapshot, Drop!ByHash)
    BY TicketsCounted, <1>1 DEF Drop!Places, Drop!Firsts, Drop!ByHash
  <2>2. Drop!Places \subseteq Drop!Tickets
    BY DEF Drop!Places, DropInv, DropsTyped
  <2>3. Drop!With({"used"})' = Drop!With({"used"})
            /\ Drop!With({"winner"})' = Drop!With({"winner"})
          /\ Drop!With({"used", "winner"})' = Drop!With({"used", "winner"})
          /\ Drop!With({"used"}) \intersect late \subseteq late'
    BY <1>1, <1>4 DEF Drop!With
  <2>4. drop' # "finished"
    BY <1>1
  <2> QED BY TicketsCounted, <1>1, <1>2, <2>1, <2>2, <2>3, <2>4 DEF DropInv, DrawKnown,
          Drop!DrawIsWhole
<1> DEFINE none == {}
<1>9. /\ DOMAIN entering' = AnyCalls /\ \A l \in AnyCalls : l \notin none =>
          entering'[l] = entering[l]
      /\ \A l \in none : EntryFits(l)' /\ ~Listed(l)'
  BY <1>1 DEF DropInv, DropsTyped
<1>10. \A t \in Drop!Tickets : ticket[t].st # "none" => ticket'[t].st # "none"
  BY <1>2
<1> HIDE DEF none
<1> QED BY <1>1, <1>5, <1>6, <1>7, <1>8, <1>9, <1>10, FewerKeeps

LEMMA AssignKeeps ==
    ASSUME DropInv, NEW k \in AnyCalls, Drop!Assign(k) PROVE DropInv'
<1> DEFINE new == entering[k].list \intersect Drop!Free
<1>1. /\ UNCHANGED <<granted, drop, snapshot, winner, draws, twins, crowded, revived, choices,
                     outrun, entriesLeft>>
      /\ Listed(k)
      /\ ticket' = [t \in Drop!Tickets |->
                       IF t \in new THEN [ticket[t] EXCEPT !.in = TRUE] ELSE ticket[t]]
      /\ late' = IF drop = "active" /\ ~Drop!Drawing THEN late ELSE late \union new
      /\ entering' = [entering EXCEPT ![k] = Drop!Idle] /\ entering'[k] = Drop!Idle
  BY DEF Drop!Assign, Drop!rewardVars, Drop!drawVars, Drop!End, DropInv, DropsTyped, Listed
<1>2. new \in SUBSET Drop!Tickets /\ \A t \in new : ticket[t].st = "active"
  BY DEF Drop!Free, Drop!With
<1> HIDE DEF new
<1>3. /\ ticket' \in [Drop!Tickets -> TicketRows]
      /\ \A t \in Drop!Tickets : /\ ticket'[t].st = ticket[t].st
                                 /\ ticket'[t].in => ticket[t].in \/ t \in new
                                 /\ t \notin new => ticket'[t] = ticket[t]
  <2>1. \A t \in Drop!Tickets : ticket[t] \in TicketRows
    BY DEF DropInv, DropsTyped
  <2>2. \A t \in Drop!Tickets : [ticket[t] EXCEPT !.in = TRUE] \in TicketRows
          /\ [ticket[t] EXCEPT !.in = TRUE].st = ticket[t].st
    BY <2>1 DEF TicketRows
  <2> QED BY <1>1, <2>1, <2>2
<1>4. \A status : Drop!With(status)' = Drop!With(status)
  BY <1>3 DEF Drop!With
<1>5. Standing' = Standing /\ Drop!Assigned' \subseteq Drop!Assigned \union new
        /\ Waiting' \subseteq Waiting \union new
  BY <1>1, <1>3, <1>4 DEF Standing, Drop!Assigned, Waiting
<1>6. late' \in SUBSET Drop!Tickets /\ late \subseteq late'
          /\ (Drop!Drawing \/ drop # "active" => new \subseteq late')
  BY <1>1, <1>2 DEF DropInv, DropsTyped
<1>7. DropsTyped'
  BY <1>1, <1>3, <1>6 DEF DropInv, DropsTyped
<1>8. TicketsKnown'
  <2>1. snapshot \in SUBSET Drop!Tickets
    BY DEF DropInv, DropsTyped
  <2> QED BY <1>1, <1>2, <1>3, <2>1 DEF DropInv, TicketsKnown
<1>9. DrawKnown'
  <2>1. Drop!Places' = Drop!Places
            /\ Drop!Firsts(Prizes, snapshot, Drop!ByHash)'
                  = Drop!Firsts(Prizes, snapshot, Drop!ByHash)
    BY TicketsCounted, <1>1 DEF Drop!Places, Drop!Firsts, Drop!ByHash
  <2>2. Drop!Places \subseteq Drop!Tickets
    BY DEF Drop!Places, DropInv, DropsTyped
  <2>3. Drop!With({"used"})' = Drop!With({"used"})
            /\ Drop!With({"winner"})' = Drop!With({"winner"})
          /\ Drop!With({"used", "winner"})' = Drop!With({"used", "winner"})
    BY <1>4
  <2>4. drop' = "finished" => (Drop!Assigned \intersect Drop!With({"active"}))'
            \subseteq late'
    BY TicketsCounted, <1>1, <1>5, <1>6 DEF DropInv, DrawKnown, Drop!DrawIsWhole, Waiting
  <2> QED BY <1>1, <1>3, <1>6, <2>1, <2>2, <2>3, <2>4 DEF DropInv, DrawKnown,
      Drop!DrawIsWhole
<1>10. Drop!LimitKept'
  BY <1>1, <1>5, StandingLess
<1> DEFINE Old(l) == Drop!Assigned \union entering[l].list
<1>11. ASSUME NEW l \in AnyCalls, Listed(l), ~crowded
       PROVE  /\ IsFiniteSet(Old(l)) /\ Cardinality(Old(l)) <= UserTickets
              /\ \A A : A \subseteq Old(l) => Cardinality(A) <= UserTickets
  <2>1. entering[l].list \in SUBSET Drop!Tickets /\ Cardinality(Old(l)) <= UserTickets
    BY <1>11 DEF DropInv, EntryFits, ApplyFits, Listed
  <2>2. IsFiniteSet(Old(l)) /\ Cardinality(Old(l)) \in Nat
    BY <2>1, StandingFinite, TicketsFinite, FS_Subset, FS_Union, FS_CardinalityType
  <2> HIDE DEF Old
  <2>3. ASSUME NEW A, A \subseteq Old(l) PROVE Cardinality(A) <= UserTickets
    <3>1. Cardinality(A) <= Cardinality(Old(l)) /\ Cardinality(A) \in Nat
      BY <2>2, <2>3, FS_Subset, FS_CardinalityType
    <3> QED BY <2>1, <2>2, <3>1, DropsFit
  <2> QED BY <2>1, <2>2, <2>3
<1>12. (crowded \/ Cardinality(Drop!Assigned) <= UserTickets)'
  <2>1. new \subseteq entering[k].list
    BY DEF new
  <2>2. Drop!Assigned' \subseteq Old(k)
    BY <1>5, <2>1
  <2>3. ~crowded => Cardinality(Drop!Assigned') <= UserTickets
    BY <1>1, <1>11, <2>2
  <2> QED BY <1>1, <2>3
<1>13. \A l \in AnyCalls : EntryFits(l)' /\ (Listed(l)' =>
           Listed(l) /\ entering'[l] = entering[l])
  <2> SUFFICES ASSUME NEW l \in AnyCalls, l # k
              
               PROVE   EntryFits(l)' /\ (Listed(l)' =>
                      Listed(l) /\ entering'[l] = entering[l])
    BY <1>1, IdleFits
  <2>1. entering'[l] = entering[l]
    BY <1>1
  <2>2. GrantFits(l)' /\ ChooseFits(l)'
    BY <1>1, <1>5, <2>1, GrantsKept, StandingFinite, ChoicesKept
  <2>3. DrawFits(l)'
    <3>1. entering[l].op = "draw" /\ entering[l].at = "listed" =>
              Waiting' \subseteq entering[l].list \union late'
      <4> SUFFICES ASSUME entering[l].op = "draw", entering[l].at = "listed"
                   PROVE  Waiting' \subseteq entering[l].list \union late'
        OBVIOUS
      <4>1. Drop!Drawing
        BY DEF Drop!Drawing
      <4>2. Waiting \subseteq entering[l].list \union late
        BY DEF DropInv, EntryFits, DrawFits
      <4> QED BY <1>5, <1>6, <4>1, <4>2
    <3>2. DrawFits(l)
      BY DEF DropInv, EntryFits
    <3>3. \A t \in Drop!Tickets : ticket'[t].st = ticket[t].st
      BY <1>3
    <3> QED BY <2>1, <3>1, <3>2, <3>3 DEF DrawFits
  <2>4. ApplyFits(l)'
    <3>1. CASE Listed(l) /\ ~crowded
      <4>1. entering[k].list \subseteq entering[l].list
                \/ entering[l].list \subseteq entering[k].list
        BY <1>1, <3>1 DEF DropInv, ListsNested
      <4>2. new \subseteq entering[k].list
        BY DEF new
      <4>3. Drop!Assigned' \union entering[l].list \subseteq Old(l)
              \/ Drop!Assigned' \union entering[l].list \subseteq Old(k)
        BY <1>5, <4>1, <4>2
      <4>4. Cardinality(Drop!Assigned' \union entering[l].list) <= UserTickets
        BY <1>1, <1>11, <3>1, <4>3
      <4>5. Cardinality(Drop!Assigned \union entering[l].list)'
                = Cardinality(Drop!Assigned' \union entering[l].list)
        BY <2>1
      <4>6. ApplyFits(l)
        BY DEF DropInv, EntryFits
      <4> QED BY <2>1, <3>1, <4>4, <4>5, <4>6 DEF ApplyFits, Listed
    <3>2. CASE ~(Listed(l) /\ ~crowded)
      BY <1>1, <2>1, <3>2 DEF DropInv, EntryFits, ApplyFits, Listed
    <3> QED BY <3>1, <3>2
  <2> QED BY <2>1, <2>2, <2>3, <2>4 DEF EntryFits, Listed
<1>14. ListsNested'
  BY <1>1, <1>13 DEF DropInv, ListsNested
<1> QED BY <1>7, <1>8, <1>9, <1>10, <1>12, <1>13, <1>14 DEF DropInv

-----------------------------------------------------------------------------
(* The draw and the choice.                                                  *)

LEMMA DrawKeeps ==
    ASSUME DropInv, NEW k \in AnyCalls, Drop!Draw(k) PROVE DropInv'
<1> DEFINE list == entering[k].list
           selected == Drop!Firsts(Prizes + ReservePlaces, list, Drop!ByHash)
           winning == Drop!Firsts(Prizes, list, Drop!ByHash)
           place(t) == [reserve |-> t \notin winning,
                        pos |-> IF t \in winning THEN Drop!Position(t, selected)
                                ELSE Drop!Position(t, selected) - Prizes]
           row(t) == CASE t \in winning -> [ticket[t] EXCEPT !.st = "winner"]
                       [] t \notin winning /\ ticket[t].in /\ ticket[t].st = "active" ->
                              [ticket[t] EXCEPT !.st = "used"]
                       [] OTHER -> ticket[t]
<1>1. /\ UNCHANGED <<granted, twins, crowded, late, choices, entriesLeft>>
      /\ entering[k].op = "draw" /\ entering[k].at = "listed"
      /\ snapshot' = list /\ draws' = draws + 1 /\ drop' = "finished" /\ outrun' = FALSE
      /\ winner' = [t \in selected |-> place(t)]
      /\ ticket' = [t \in Drop!Tickets |-> row(t)]
      /\ revived' = revived \union (winning \intersect Drop!With({"cancelled"}))
      /\ entering' = [entering EXCEPT ![k] = Drop!Idle] /\ entering'[k] = Drop!Idle
  BY DEF Drop!Draw, Drop!rewardVars, Drop!End, DropInv, DropsTyped
<1>2. /\ list \in SUBSET Drop!Tickets
      /\ \A t \in list : ticket[t].st # "none"
      /\ Waiting \subseteq list \union late
  BY <1>1 DEF DropInv, EntryFits, DrawFits
<1>3. winning \in SUBSET selected /\ selected \in SUBSET list
  <2>1. \A t \in list : Cardinality({u \in list : Drop!ByHash[u] < Drop!ByHash[t]}) \in Nat
    BY <1>2, TicketsFinite, FS_Subset, FS_CardinalityType
  <2>2. \A t \in list : Cardinality({u \in list : Drop!ByHash[u] < Drop!ByHash[t]}) < Prizes
          => Cardinality({u \in list : Drop!ByHash[u] < Drop!ByHash[t]}) < Prizes + ReservePlaces
    <3> TAKE t \in list
    <3> DEFINE n == Cardinality({u \in list : Drop!ByHash[u] < Drop!ByHash[t]})
    <3>1. n \in Nat
      BY <2>1
    <3> HIDE DEF n
    <3>2. n < Prizes => n < Prizes + ReservePlaces
      BY <3>1, DropsFit
    <3> QED BY <3>2 DEF n
  <2> QED BY TicketsCounted, <2>2 DEF Drop!Firsts
<1>4. \A t \in selected : place(t) \in WinnerRows /\ (place(t).reserve <=> t \notin winning)
  <2> SUFFICES ASSUME NEW t \in selected
               PROVE  place(t) \in WinnerRows /\ (place(t).reserve <=> t \notin winning)
    OBVIOUS
  <2>1. Drop!Position(t, selected) \in Nat
    BY TicketsCounted, <1>2, <1>3, TicketsFinite, FS_Subset,
        FS_CardinalityType DEF Drop!Position
  <2>2. PICK p \in Int : p = IF t \in winning THEN Drop!Position(t, selected)
                             ELSE Drop!Position(t, selected) - Prizes
    BY <2>1, DropsFit
  <2>3. PICK b \in BOOLEAN : b = (t \notin winning)
    OBVIOUS
  <2>4. place(t) = [reserve |-> b, pos |-> p]
    BY <2>2, <2>3
  <2> HIDE DEF place
  <2>5. place(t) \in WinnerRows /\ place(t).reserve = b
    BY <2>4 DEF WinnerRows
  <2> QED BY <2>3, <2>5
<1>5. \A t \in Drop!Tickets :
          /\ row(t) \in TicketRows /\ row(t).in = ticket[t].in
          /\ t \in winning => row(t).st = "winner"
          /\ t \notin winning =>
                IF ticket[t].in /\ ticket[t].st = "active" THEN row(t).st = "used"
                ELSE row(t).st = ticket[t].st
  <2> SUFFICES ASSUME NEW t \in Drop!Tickets
               PROVE  /\ row(t) \in TicketRows /\ row(t).in = ticket[t].in
                      /\ t \in winning => row(t).st = "winner"
                      /\ t \notin winning =>
                            IF ticket[t].in
                                /\ ticket[t].st = "active" THEN row(t).st = "used"
                            ELSE row(t).st = ticket[t].st
    OBVIOUS
  <2>1. ticket[t] \in TicketRows
    BY DEF DropInv, DropsTyped
  <2>2. /\ [ticket[t] EXCEPT !.st = "winner"] \in TicketRows
        /\ [ticket[t] EXCEPT !.st = "winner"].st = "winner"
        /\ [ticket[t] EXCEPT !.st = "winner"].in = ticket[t].in
        /\ [ticket[t] EXCEPT !.st = "used"] \in TicketRows
        /\ [ticket[t] EXCEPT !.st = "used"].st = "used"
        /\ [ticket[t] EXCEPT !.st = "used"].in = ticket[t].in
    BY <2>1 DEF TicketRows, Drop!Status
  <2>3. row(t) = IF t \in winning THEN [ticket[t] EXCEPT !.st = "winner"]
                 ELSE IF ticket[t].in /\ ticket[t].st = "active"
                      THEN [ticket[t] EXCEPT !.st = "used"]
                      ELSE ticket[t]
    OBVIOUS
  <2> HIDE DEF row
  <2> QED BY <2>1, <2>2, <2>3
<1> HIDE DEF row, place, winning, selected, list
<1>6. ticket' \in [Drop!Tickets -> TicketRows]
          /\ \A t \in Drop!Tickets : ticket'[t] = row(t)
  BY <1>1, <1>5
<1>7. /\ DOMAIN winner' = selected /\ winner' \in [DOMAIN winner' -> WinnerRows]
      /\ \A t \in selected : winner'[t] = place(t)
  BY <1>1, <1>4
<1>8. Drop!Places' = winning
  BY <1>3, <1>4, <1>7 DEF Drop!Places
<1>9. winning \in SUBSET Drop!Tickets /\ \A t \in winning : ticket[t].st # "none"
  BY <1>2, <1>3
<1>10. /\ Standing' \subseteq Standing /\ Drop!Assigned' = Drop!Assigned /\ Waiting' = {}
       /\ \A t \in Drop!Tickets : ticket[t].st # "none" => ticket'[t].st # "none"
  <2>1. Drop!Assigned' = Drop!Assigned
    BY <1>5, <1>6 DEF Drop!Assigned
  <2>2. \A t \in Drop!Tickets : ticket[t].st # "none" => ticket'[t].st # "none"
    BY <1>5, <1>6
  <2>3. Waiting' = {}
    BY <1>5, <1>6 DEF Waiting, Drop!Assigned, Drop!With
  <2>4. Standing' \subseteq Standing
    <3> SUFFICES ASSUME NEW t \in Standing' PROVE t \in Standing
      OBVIOUS
    <3>1. t \in Drop!Tickets /\ t \notin revived /\ ~(t \in winning
              /\ ticket[t].st = "cancelled")
            /\ row(t).st \in {"active", "used", "winner"}
      BY <1>1, <1>6, <1>9 DEF Standing, Drop!With
    <3>2. ticket[t].st \in Drop!Status
      BY <3>1 DEF DropInv, DropsTyped, TicketRows
    <3>3. ticket[t].st \in {"active", "used", "winner"}
      BY <3>1, <3>2, <1>5, <1>9 DEF Drop!Status
    <3> QED BY <3>1, <3>3 DEF Standing, Drop!With
  <2> QED BY <2>1, <2>2, <2>3, <2>4
<1>11. DropsTyped'
  <2>1. /\ granted \in SUBSET DropRewards /\ late \in SUBSET Drop!Tickets
        /\ draws + 1 \in Nat /\ choices \in Nat
        /\ entriesLeft.calls \in 0 .. MaxDropCalls /\ entriesLeft \in [calls : Int,
              cancels : Int]
        /\ DOMAIN entering' = AnyCalls
        /\ twins \in BOOLEAN /\ crowded \in BOOLEAN
    BY <1>1 DEF DropInv, DropsTyped
  <2>2. DOMAIN winner' \in SUBSET snapshot' /\ snapshot' \in SUBSET Drop!Tickets
    BY <1>1, <1>2, <1>3, <1>7
  <2>3. outrun' \in BOOLEAN
    BY <1>1
  <2> QED BY <1>1, <1>6, <1>7, <2>1, <2>2, <2>3 DEF DropsTyped
<1>12. TicketsKnown'
  <2>1. \A t \in Drop!Tickets : ticket'[t].st # "none" =>
            \E q \in granted : t \in TicketsFor[q]
    <3> SUFFICES ASSUME NEW t \in Drop!Tickets, ticket'[t].st # "none"
                 PROVE  ticket[t].st # "none"
      BY DEF DropInv, TicketsKnown
    <3> QED BY <1>5, <1>6, <1>9
  <2>2. \A t \in Drop!Tickets : ticket'[t].in =>
            ticket'[t].st \in {"active", "used", "winner"}
    BY <1>5, <1>6 DEF DropInv, TicketsKnown
  <2>3. \A t \in snapshot' : ticket'[t].st # "none"
    BY <1>1, <1>2, <1>10
  <2> QED BY <1>1, <2>1, <2>2, <2>3 DEF TicketsKnown
<1>13. DrawKnown'
  <2>1. draws \in Nat /\ draws' # 0
    BY <1>1 DEF DropInv, DropsTyped
  <2>2. Drop!With({"used"})' \subseteq
            snapshot' \union late' \union (IF draws' > 1 THEN Drop!Tickets ELSE {})
    <3> SUFFICES ASSUME NEW t \in Drop!With({"used"})', ~(draws' > 1)
                 PROVE  t \in snapshot' \union late'
      BY DEF Drop!With
    <3>1. draws = 0
      BY <1>1, <2>1
    <3>2. t \in Drop!Tickets /\ row(t).st = "used"
      BY <1>6 DEF Drop!With
    <3>3. ticket[t].st # "used"
      BY <3>1, <3>2 DEF DropInv, DrawKnown, Drop!With
    <3>4. t \in Waiting
      BY <3>2, <3>3, <1>5 DEF Waiting, Drop!Assigned, Drop!With
    <3> QED BY <3>4, <1>1, <1>2
  <2>3. draws' = 1 => Drop!With({"winner"})' \subseteq Drop!Places'
    <3> SUFFICES ASSUME draws' = 1, NEW t \in Drop!With({"winner"})' PROVE t \in winning
      BY <1>8
    <3>1. draws = 0
      BY <1>1, <2>1
    <3>2. t \in Drop!Tickets /\ row(t).st = "winner"
      BY <1>6 DEF Drop!With
    <3>3. ticket[t].st # "winner"
      BY <3>1, <3>2 DEF DropInv, DrawKnown, Drop!With
    <3> QED BY <3>2, <3>3, <1>5
  <2>4. \A t \in Drop!Places' : ticket'[t].st \in {"winner", "cancelled"}
    BY <1>5, <1>6, <1>8, <1>9
  <2>5. Cardinality(Drop!Places') = Cardinality(Drop!Firsts(Prizes, snapshot, Drop!ByHash)')
    BY TicketsCounted, <1>1, <1>8 DEF winning, Drop!Firsts, Drop!ByHash
  <2>6. (Drop!Assigned \intersect Drop!With({"active"}))' \subseteq late'
    BY <1>10 DEF Waiting
  <2> QED BY TicketsCounted, <2>1, <2>2, <2>3, <2>4, <2>5, <2>6 DEF DrawKnown,
          Drop!DrawIsWhole
<1>14. \A l \in AnyCalls : EntryFits(l)' /\ (Listed(l)' =>
           Listed(l) /\ entering'[l] = entering[l])
  <2> SUFFICES ASSUME NEW l \in AnyCalls, l # k
              
               PROVE   EntryFits(l)' /\ (Listed(l)' =>
                      Listed(l) /\ entering'[l] = entering[l])
    BY <1>1, IdleFits
  <2>1. entering'[l] = entering[l]
    BY <1>1
  <2>2. GrantFits(l)' /\ ApplyFits(l)' /\ DrawFits(l)'
    BY <1>1, <1>10, <2>1, GrantsKept, StandingFinite, AppliesKept, DrawsKept
  <2>3. ChooseFits(l)'
    <3>1. ChooseFits(l) /\ draws \in Nat
      BY DEF DropInv, EntryFits, DropsTyped
    <3>2. entering[l].op = "choose" =>
              /\ entering[l].draws \in Nat /\ entering[l].draws <= draws + 1
                    /\ entering[l].draws # draws + 1
              /\ entering[l].choices \in Nat /\ entering[l].choices <= choices
      BY <3>1 DEF ChooseFits
    <3> QED BY <1>1, <2>1, <3>2 DEF ChooseFits
  <2> QED BY <2>1, <2>2, <2>3 DEF EntryFits, Listed
<1>15. ListsNested'
  BY <1>1, <1>14 DEF DropInv, ListsNested
<1>16. Drop!LimitKept' /\ (crowded \/ Cardinality(Drop!Assigned) <= UserTickets)'
  BY <1>1, <1>10, StandingLess, AssignedFewer
<1> QED BY <1>11, <1>12, <1>13, <1>14, <1>15, <1>16 DEF DropInv

(* What Choose does: the index speaks of the winner's rows.                  *)
LEMMA ChosenRows ==
    ASSUME DropInv, NEW k \in AnyCalls, Drop!Choose(k)
    PROVE  LET up == entering[k].up
               down == entering[k].down
               pos == entering[k].pos
               last == entering[k].last
           IN  /\ up \in DOMAIN winner /\ down \in DOMAIN winner /\ up # down
               /\ DOMAIN winner' = DOMAIN winner
               /\ winner' \in [DOMAIN winner' -> WinnerRows]
               /\ ~winner'[up].reserve /\ winner'[up].pos = pos
               /\ winner'[down].reserve /\ winner'[down].pos = last
               /\ \A t \in DOMAIN winner \ {up, down} : winner'[t] = winner[t]
               /\ ~Clashes(up, down, pos, last)
<1> DEFINE up == entering[k].up
           down == entering[k].down
           pos == entering[k].pos
           last == entering[k].last
<1>1. /\ entering[k].op = "choose" /\ entering[k].draws = draws
      /\ winner' = Drop!Swapped(entering[k])
            /\ Drop!OnePerPosition(Drop!Swapped(entering[k]))
  BY DEF Drop!Choose, Drop!SwapWith
<1>2. /\ up \in DOMAIN winner /\ down \in DOMAIN winner /\ up # down
      /\ pos \in Int /\ last \in Int
  BY <1>1 DEF DropInv, EntryFits, ChooseFits
<1>3. \A t \in DOMAIN winner : winner[t] \in WinnerRows
  BY DEF DropInv, DropsTyped
<1> DEFINE raised == [winner[up] EXCEPT !.reserve = FALSE, !.pos = pos]
           lowered == [winner[down] EXCEPT !.reserve = TRUE, !.pos = last]
<1>4. raised \in WinnerRows /\ raised.reserve = FALSE /\ raised.pos = pos
        /\ lowered \in WinnerRows /\ lowered.reserve = TRUE /\ lowered.pos = last
  BY <1>2, <1>3 DEF WinnerRows
<1>5. winner' = [t \in DOMAIN winner |-> IF t = up THEN raised ELSE IF t = down THEN lowered
                                         ELSE winner[t]]
  <2>1. \A t \in DOMAIN winner :
            Drop!Swapped(entering[k])[t] = IF t = up THEN raised ELSE IF t
                = down THEN lowered ELSE winner[t]
    <3> TAKE t \in DOMAIN winner
    <3>1. CASE t = up
      <4>1. t = entering[k].up /\ t # entering[k].down
        BY <1>2, <3>1
      <4>2. Drop!Swapped(entering[k])[t] = [winner[t] EXCEPT !.reserve = FALSE, !.pos = pos]
        BY <4>1 DEF Drop!Swapped
      <4> QED BY <3>1, <4>2
    <3>2. CASE t = down /\ t # up
      BY <3>2 DEF Drop!Swapped
    <3>3. CASE t # down /\ t # up
      BY <3>3 DEF Drop!Swapped
    <3> QED BY <3>1, <3>2, <3>3
  <2>2. Drop!Swapped(entering[k]) = [t \in DOMAIN winner |-> Drop!Swapped(entering[k])[t]]
    BY DEF Drop!Swapped
  <2> HIDE DEF raised, lowered
  <2> QED BY <1>1, <2>1, <2>2
<1> HIDE DEF raised, lowered
<1>6. /\ DOMAIN winner' = DOMAIN winner
      /\ winner' \in [DOMAIN winner' -> WinnerRows]
      /\ ~winner'[up].reserve /\ winner'[up].pos = pos
      /\ winner'[down].reserve /\ winner'[down].pos = last
      /\ \A t \in DOMAIN winner \ {up, down} : winner'[t] = winner[t]
  BY <1>2, <1>3, <1>4, <1>5
<1>7. \A t, u \in DOMAIN winner' :
          t # u => winner'[t].pos # winner'[u].pos
              \/ winner'[t].reserve # winner'[u].reserve
  BY <1>1 DEF Drop!OnePerPosition
<1>8. \A t \in DOMAIN winner : winner'[t].reserve \in BOOLEAN
  BY <1>6 DEF WinnerRows
<1>9. ~Clashes(up, down, pos, last)
  <2> SUFFICES ASSUME NEW v \in DOMAIN winner \ {up, down},
                      \/ winner[v].pos = pos /\ ~winner[v].reserve
                      \/ winner[v].pos = last /\ winner[v].reserve
               PROVE  FALSE
    BY DEF Clashes
  <2> QED BY <1>2, <1>6, <1>7, <1>8
<1> QED BY <1>2, <1>6, <1>9

LEMMA ChooseKeeps ==
    ASSUME DropInv, NEW k \in AnyCalls, Drop!Choose(k) PROVE DropInv'
<1> DEFINE up == entering[k].up
           down == entering[k].down
           pos == entering[k].pos
           last == entering[k].last
<1>1. /\ UNCHANGED <<granted, twins, crowded, late, drop, snapshot, draws, entriesLeft>>
      /\ entering[k].op = "choose" /\ entering[k].draws = draws
      /\ ticket' = [ticket EXCEPT ![up].st = "winner", ![down].st = "used"]
      /\ revived' = revived \union ({up, down} \intersect Drop!With({"cancelled"}))
      /\ choices' = choices + 1 /\ outrun' = (outrun \/ choices > entering[k].choices + 1)
      /\ entering' = [entering EXCEPT ![k] = Drop!Idle] /\ entering'[k] = Drop!Idle
  BY DEF Drop!Choose, Drop!SwapWith, Drop!rewardVars, Drop!End, DropInv, DropsTyped
<1>2. /\ up \in DOMAIN winner /\ down \in DOMAIN winner /\ up # down
      /\ DOMAIN winner' = DOMAIN winner
      /\ winner' \in [DOMAIN winner' -> WinnerRows]
      /\ ~winner'[up].reserve /\ winner'[up].pos = pos
      /\ winner'[down].reserve /\ winner'[down].pos = last
      /\ \A t \in DOMAIN winner \ {up, down} : winner'[t] = winner[t]
      /\ ~Clashes(up, down, pos, last)
  BY ChosenRows
<1>3. /\ outrun \/ choices > entering[k].choices + 1 \/ Stands(up, down, pos, last)
      /\ choices = entering[k].choices => Fresh(up, down, pos, last)
      /\ entering[k].choices \in Nat /\ choices \in Nat /\ entering[k].choices <= choices
  BY <1>1 DEF DropInv, EntryFits, ChooseFits, DropsTyped
<1> HIDE DEF up, down, pos, last
<1>4. up \in Drop!Tickets /\ down \in Drop!Tickets /\ ticket[up].st # "none"
          /\ ticket[down].st # "none"
        /\ DOMAIN winner \in SUBSET Drop!Tickets /\ DOMAIN winner \in SUBSET snapshot
  BY <1>2 DEF DropInv, DropsTyped, TicketsKnown
<1>5. /\ ticket' \in [Drop!Tickets -> TicketRows]
      /\ ticket'[up].st = "winner" /\ ticket'[up].in = ticket[up].in
      /\ ticket'[down].st = "used" /\ ticket'[down].in = ticket[down].in
      /\ \A t \in Drop!Tickets \ {up, down} : ticket'[t] = ticket[t]
  BY ZenonT(40), <1>1, <1>2, <1>4 DEF DropInv, DropsTyped, TicketRows, Drop!Status
<1>6. Drop!Places' = (Drop!Places \ {down}) \union {up}
  <2>1. \A t \in DOMAIN winner \ {up, down} : winner'[t].reserve = winner[t].reserve
    BY <1>2
  <2> QED BY <1>2, <2>1 DEF Drop!Places
<1>7. /\ Standing' \subseteq Standing /\ Drop!Assigned' = Drop!Assigned
          /\ Waiting' \subseteq Waiting
      /\ \A t \in Drop!Tickets : ticket[t].st # "none" => ticket'[t].st # "none"
  <2>1. Drop!Assigned' = Drop!Assigned
    BY <1>4, <1>5 DEF Drop!Assigned
  <2>2. Standing' \subseteq Standing
    <3> SUFFICES ASSUME NEW t \in Standing' PROVE t \in Standing
      OBVIOUS
    <3>1. t \in Drop!Tickets /\ t \notin revived /\ (t \in {up, down} =>
              ticket[t].st # "cancelled")
            /\ ticket'[t].st \in {"active", "used", "winner"}
      BY <1>1 DEF Standing, Drop!With
    <3>2. ticket[t].st \in Drop!Status
      BY <3>1 DEF DropInv, DropsTyped, TicketRows
    <3>3. ticket[t].st \in {"active", "used", "winner"}
      BY <3>1, <3>2, <1>4, <1>5 DEF Drop!Status
    <3> QED BY <3>1, <3>3 DEF Standing, Drop!With
  <2> QED BY <1>4, <1>5, <2>1, <2>2 DEF Waiting, Drop!Assigned, Drop!With
<1>8. DropsTyped'
  <2>1. choices + 1 \in Nat /\ outrun' \in BOOLEAN
    BY <1>1, <1>3 DEF DropInv, DropsTyped
  <2> QED BY <1>1, <1>2, <1>5, <2>1 DEF DropInv, DropsTyped
<1>9. TicketsKnown'
  <2>1. snapshot \in SUBSET Drop!Tickets
    BY DEF DropInv, DropsTyped
  <2> QED BY <1>1, <1>4, <1>5, <1>7, <2>1 DEF DropInv, TicketsKnown
<1>10. outrun' \/ Fresh(up, down, pos, last)
         \/ Settled(up, down, pos, last)
  BY <1>1, <1>2, <1>3 DEF Stands
<1>11. \A t \in DOMAIN winner : winner[t] \in WinnerRows /\ winner'[t] \in WinnerRows
  BY <1>2 DEF DropInv, DropsTyped
(* A choice made by another already changes nothing.                         *)
<1>12. Settled(up, down, pos, last) => winner' = winner
  <2> SUFFICES ASSUME Settled(up, down, pos, last) PROVE winner' = winner
    OBVIOUS
  <2>1. winner'[up] = winner[up] /\ winner'[down] = winner[down]
    BY <1>2, <1>11 DEF Settled, WinnerRows
  <2>2. \A t \in DOMAIN winner : winner'[t] = winner[t]
    BY <1>2, <2>1
  <2> QED BY <1>2, <2>2 DEF DropInv, DropsTyped
<1>13. DrawKnown'
  <2>1. draws # 0
    BY <1>2 DEF DropInv, DrawKnown
  <2>2. Drop!With({"used"})' \subseteq Drop!With({"used"}) \union snapshot
    BY <1>2, <1>4, <1>5 DEF Drop!With
  <2>3. Drop!With({"winner"})' \subseteq (Drop!With({"winner"}) \ {down}) \union {up}
    BY <1>2, <1>4, <1>5 DEF Drop!With
  <2>4. \A t \in Drop!Places' : ticket'[t].st \in {"winner", "cancelled"}
    <3>1. Drop!Places \subseteq Drop!Tickets
      BY <1>4 DEF Drop!Places
    <3> QED BY TicketsCounted, <1>4, <1>5, <1>6, <3>1 DEF DropInv, DrawKnown,
            Drop!DrawIsWhole
  <2>5. ~outrun' => Cardinality(Drop!Places') = Cardinality(Drop!Places)
    <3>1. CASE Settled(up, down, pos, last)
      <4>1. Drop!Places' = Drop!Places
        BY <1>12, <3>1 DEF Drop!Places
      <4> QED BY <4>1
    <3>2. CASE Fresh(up, down, pos, last)
      <4>1. up \notin Drop!Places /\ down \in Drop!Places
        BY <1>2, <3>2 DEF Fresh, Drop!Places
      <4>2. IsFiniteSet(Drop!Places) /\ Cardinality(Drop!Places) \in Nat
        BY <1>4, TicketsFinite, FS_Subset, FS_CardinalityType DEF Drop!Places
      <4>3. IsFiniteSet(Drop!Places \ {down})
                /\ Cardinality(Drop!Places \ {down}) = Cardinality(Drop!Places) - 1
        BY <4>1, <4>2, FS_RemoveElement
      <4>4. up \notin Drop!Places \ {down}
        BY <4>1
      <4>5. Cardinality((Drop!Places \ {down}) \union {up})
                = Cardinality(Drop!Places \ {down}) + 1
        BY <4>3, <4>4, FS_AddElement
      <4> QED BY <1>6, <4>2, <4>3, <4>5
    <3> QED BY <1>10, <3>1, <3>2
  <2>6. Drop!Firsts(Prizes, snapshot, Drop!ByHash)'
            = Drop!Firsts(Prizes, snapshot, Drop!ByHash)
    BY TicketsCounted, <1>1 DEF Drop!Firsts, Drop!ByHash
  <2>7. ~outrun' => ~outrun
    BY <1>1 DEF DropInv, DropsTyped
  <2>8. ~outrun' => Cardinality(Drop!Places')
            = Cardinality(Drop!Firsts(Prizes, snapshot, Drop!ByHash)')
    <3>1. draws > 0
      BY <2>1 DEF DropInv, DropsTyped
    <3> QED BY TicketsCounted, <2>5, <2>6, <2>7, <3>1 DEF DropInv, DrawKnown,
            Drop!DrawIsWhole
  <2>9. drop' = "finished" => (Drop!Assigned \intersect Drop!With({"active"}))'
            \subseteq late'
    BY TicketsCounted, <1>1, <1>7 DEF DropInv, DrawKnown, Drop!DrawIsWhole, Waiting
  <2>10. draws' = 1 => Drop!With({"winner"})' \subseteq Drop!Places'
    BY TicketsCounted, <1>1, <1>6, <2>3 DEF DropInv, DrawKnown, Drop!DrawIsWhole
  <2>11. Drop!With({"used"})' \subseteq
            snapshot' \union late' \union (IF draws' > 1 THEN Drop!Tickets ELSE {})
    BY TicketsCounted, <1>1, <2>2 DEF DropInv, DrawKnown, Drop!DrawIsWhole
  <2> QED BY TicketsCounted, <1>1, <2>1, <2>4, <2>8, <2>9, <2>10, <2>11 DEF DrawKnown,
          Drop!DrawIsWhole
(* One other choice: the index refuses, or it was the same choice.           *)
<1>14. ASSUME NEW l \in AnyCalls, l # k PROVE ChooseFits(l)'
  <2> DEFINE c == entering[l]
  <2>1. entering'[l] = c
    BY <1>1, <1>14
  <2>2. ChooseFits(l)
    BY DEF DropInv, EntryFits
  <2>3. CASE c.op = "choose" /\ c.draws = draws
    <3>1. /\ c.draws \in Nat /\ c.draws <= draws
          /\ c.choices \in Nat /\ c.choices <= choices
          /\ c.up \in DOMAIN winner /\ c.down \in DOMAIN winner /\ c.up # c.down
          /\ c.pos \in Int /\ c.last \in Int
          /\ choices = c.choices => Fresh(c.up, c.down, c.pos, c.last)
      BY <2>2, <2>3 DEF ChooseFits
    <3>2. choices' # c.choices /\ c.choices <= choices'
      BY <1>1, <1>3, <3>1
    <3>3. outrun' \/ choices' > c.choices + 1
            \/ Stands(c.up, c.down, c.pos, c.last)'
      <4> SUFFICES ASSUME ~outrun', ~(choices' > c.choices + 1)
                   PROVE  Stands(c.up, c.down, c.pos, c.last)'
        OBVIOUS
      <4>1. choices = c.choices
        BY <1>1, <1>3, <3>1
      <4>2. Fresh(c.up, c.down, c.pos, c.last)
        BY <3>1, <4>1
      <4>3. CASE Settled(up, down, pos, last)
        <5>1. winner' = winner
          BY <1>12, <4>3
        <5>2. Drop!Places' = Drop!Places
          BY <5>1 DEF Drop!Places
        <5>3. Fresh(c.up, c.down, c.pos, c.last)'
          BY <2>1, <4>2, <5>1, <5>2 DEF Fresh
        <5> QED BY <5>3 DEF Stands
      <4>4. CASE Fresh(up, down, pos, last)
        <5>1. /\ c.last = last
              /\ winner[c.up].reserve /\ ~winner[c.down].reserve
              /\ winner[up].reserve /\ ~winner[down].reserve
              /\ winner[c.down].pos = c.pos /\ winner[down].pos = pos
          BY <4>2, <4>4 DEF Fresh
        <5>2. c.up # down /\ c.down # up
          BY <5>1
        <5>3. CASE c.down # down
          <6>1. down \in DOMAIN winner' \ {c.up, c.down}
            BY <1>2, <5>2, <5>3
          <6>2. Clashes(c.up, c.down, c.pos, c.last)'
            BY <1>2, <2>1, <5>1, <6>1 DEF Clashes
          <6> QED BY <6>2 DEF Stands
        <5>4. CASE c.down = down /\ c.up # up
          <6>1. up \in DOMAIN winner' \ {c.up, c.down}
            BY <1>2, <5>2, <5>4
          <6>2. winner'[up].pos = c.pos
            BY <1>2, <5>1, <5>4
          <6>3. Clashes(c.up, c.down, c.pos, c.last)'
            BY <1>2, <2>1, <6>1, <6>2 DEF Clashes
          <6> QED BY <6>3 DEF Stands
        <5>5. CASE c.down = down /\ c.up = up
          <6>1. Settled(c.up, c.down, c.pos, c.last)'
            BY <1>2, <2>1, <5>1, <5>5 DEF Settled
          <6> QED BY <6>1 DEF Stands
        <5> QED BY <5>3, <5>4, <5>5
      <4> QED BY <1>10, <4>3, <4>4
    <3>4. outrun' \/ choices' > c.choices + 1
            \/ Stands(entering[l].up, entering[l].down, entering[l].pos, entering[l].last)'
      BY <3>3
    <3> QED BY <1>1, <1>2, <2>1, <2>3, <3>1, <3>2, <3>4 DEF ChooseFits
  <2>4. CASE ~(c.op = "choose" /\ c.draws = draws)
    <3>1. c.op = "choose" => /\ c.draws \in Nat /\ c.draws <= draws /\ c.choices \in Nat
                             /\ c.choices <= choices + 1 /\ c.draws # draws
      BY <1>3, <2>2, <2>4 DEF ChooseFits
    <3> QED BY <1>1, <2>1, <3>1 DEF ChooseFits
  <2> QED BY <2>3, <2>4
<1>15. \A l \in AnyCalls : EntryFits(l)' /\ (Listed(l)' =>
           Listed(l) /\ entering'[l] = entering[l])
  <2> SUFFICES ASSUME NEW l \in AnyCalls, l # k
              
               PROVE   EntryFits(l)' /\ (Listed(l)' =>
                      Listed(l) /\ entering'[l] = entering[l])
    BY <1>1, IdleFits
  <2>1. entering'[l] = entering[l]
    BY <1>1
  <2>2. GrantFits(l)' /\ ApplyFits(l)' /\ DrawFits(l)'
    BY <1>1, <1>7, <2>1, GrantsKept, StandingFinite, AppliesKept, DrawsKept
  <2> QED BY <2>1, <2>2, <1>14 DEF EntryFits, Listed
<1>16. ListsNested'
  BY <1>1, <1>15 DEF DropInv, ListsNested
<1>17. Drop!LimitKept' /\ (crowded \/ Cardinality(Drop!Assigned) <= UserTickets)'
  BY <1>1, <1>7, StandingLess, AssignedFewer
<1> QED BY <1>8, <1>9, <1>13, <1>15, <1>16, <1>17 DEF DropInv

-----------------------------------------------------------------------------
LEMMA DropBegins == ASSUME Drop!Init PROVE DropInv
<1> DEFINE here(t) == \E r \in EarlierRewards : t \in TicketsFor[r]
           row(t) == [st |-> IF here(t) THEN "active" ELSE "none", in |-> FALSE, age |-> 0]
<1>1. \A t \in Drop!Tickets : /\ row(t) \in TicketRows /\ row(t).in = FALSE
                              /\ row(t).st = IF here(t) THEN "active" ELSE "none"
  BY DEF TicketRows, Drop!Status
<1>2. ticket = [t \in Drop!Tickets |-> row(t)]
  BY DEF Drop!Init
<1> HIDE DEF row
<1>3. ticket \in [Drop!Tickets -> TicketRows]
        /\ \A t \in Drop!Tickets : /\ ticket[t].in = FALSE
                                   /\ ticket[t].st = IF here(t) THEN "active" ELSE "none"
  BY <1>1, <1>2
<1> HIDE DEF here
<1>4. DOMAIN winner = {} /\ winner \in [DOMAIN winner -> WinnerRows]
  BY DEF Drop!Init
<1>5. DropsTyped
  <2>1. entriesLeft \in [calls : Int, cancels : Int]
            /\ entriesLeft.calls \in 0 .. MaxDropCalls
    BY DropsFit DEF Drop!Init
  <2>2. DOMAIN entering = AnyCalls /\ snapshot = {} /\ late = {}
            /\ granted \in SUBSET DropRewards
          /\ draws = 0 /\ choices = 0 /\ twins = FALSE /\ crowded = FALSE /\ outrun = FALSE
    BY DropsFit DEF Drop!Init
  <2> QED BY <1>3, <1>4, <2>1, <2>2 DEF DropsTyped
<1>6. TicketsKnown
  BY <1>3 DEF Drop!Init, TicketsKnown, here
<1>7. Drop!Assigned = {} /\ Drop!With({"used", "winner"}) = {} /\ Drop!With({"used"}) = {}
        /\ Drop!With({"winner"}) = {} /\ Drop!Places = {}
  BY <1>3, <1>4 DEF Drop!Assigned, Drop!With, Drop!Places
<1>8. Drop!LimitKept
  <2>1. Drop!With({"active", "used", "winner"}) \ revived
            = UNION {TicketsFor[r] : r \in EarlierRewards}
    BY <1>3, DropsFit DEF Drop!Init, Drop!With, here, Drop!Tickets
  <2>2. \A r \in DropRewards : Drop!OfTask(TaskFor[r])
           = UNION {TicketsFor[q] : q \in {p \in EarlierRewards : TaskFor[p] = TaskFor[r]}}
    BY DEF Drop!Init, Drop!OfTask
  <2> QED BY TicketsCounted, <2>1, <2>2, DropsFit DEF Drop!LimitKept
<1>9. DrawKnown
  BY TicketsCounted, <1>4, <1>7 DEF Drop!Init, DrawKnown, Drop!DrawIsWhole
<1>10. \A k \in AnyCalls : EntryFits(k) /\ ~Listed(k)
  BY DEF Drop!Init, Drop!Idle, EntryFits, GrantFits, ApplyFits, DrawFits, ChooseFits, Listed
<1>11. Cardinality(Drop!Assigned) <= UserTickets
  BY <1>7, FS_EmptySet, DropsFit
<1> QED BY <1>5, <1>6, <1>8, <1>9, <1>10, <1>11 DEF DropInv, ListsNested

LEMMA DropStepKeeps ==
    ASSUME DropInv, [Drop!Next]_Drop!vars PROVE DropInv'
<1>0. CASE UNCHANGED Drop!vars
  <2> DEFINE none == {}
  <2>1. UNCHANGED Shared /\ UNCHANGED <<entering, entriesLeft>>
    BY <1>0 DEF Drop!vars, Shared
  <2>2. /\ DOMAIN entering' = AnyCalls /\ \A l \in AnyCalls : l \notin none =>
            entering'[l] = entering[l]
        /\ \A l \in none : EntryFits(l)' /\ ~Listed(l)'
        /\ DropsTyped'
    BY <2>1 DEF DropInv, DropsTyped, Shared
  <2>3. TicketsKnown' /\ DrawKnown' /\ Standing' = Standing
            /\ Drop!Assigned' = Drop!Assigned
          /\ Waiting' = Waiting
    BY <2>1, SharedKept DEF DropInv
  <2>4. UNCHANGED <<granted, twins, crowded, winner, draws, choices, outrun, ticket, late>>
    BY <2>1 DEF Shared
  <2> HIDE DEF none
  <2> QED BY <2>2, <2>3, <2>4, FewerKeeps
<1>1. CASE \E k \in AnyCalls : \E r \in DropRewards : Drop!CountTickets(k, r)
  BY <1>1, CountTicketsKeeps
<1>2. CASE \E k \in AnyCalls : \E n \in 1 .. UserTickets : Drop!BeginApply(k, n)
  BY <1>2, BeginApplyKeeps
<1>3. CASE \E k \in AnyCalls : \E t \in Drop!Tickets : Drop!BeginChoose(k, t)
  BY <1>3, BeginChooseKeeps
<1>4. CASE \E t \in Drop!Tickets : Drop!CancelTicket(t)
  BY <1>4, CancelTicketKeeps
<1> QED BY <1>0, <1>1, <1>2, <1>3, <1>4, InsertTicketsKeeps, CountAssignedKeeps,
    ListFreeKeeps,
            AssignKeeps, BeginSimpleKeeps, ActivateKeeps, ListTicketsKeeps, DrawKeeps,
                ChooseKeeps,
            AbortKeeps, CancelDropKeeps DEF Drop!Next

LEMMA DropsHoldFollows == ASSUME DropInv PROVE Drop!DropsHold
BY InDropIsAssigned, TicketsCounted
  DEF DropInv, DrawKnown, Drop!DropsHold, Drop!TicketsWithinLimits, Drop!DropLimitKept

LEMMA DropSteps ==
    ASSUME focus = "drop", [Next]_<<focus, everything>>
    PROVE  [Drop!Next]_Drop!vars
<1>1. CASE UNCHANGED <<focus, everything>>
  BY <1>1 DEF everything, Drop!vars
<1>2. CASE Next
  BY <1>2 DEF Next
<1> QED BY <1>1, <1>2

LEMMA DropKept == Spec => [](focus = "drop" => DropInv)
<1>1. Init => (focus = "drop" => DropInv)
  BY DropBegins DEF Init
<1>2. (focus = "drop" => DropInv) /\ [Next]_<<focus, everything>>
        => (focus = "drop" => DropInv)'
  <2> SUFFICES ASSUME focus = "drop" => DropInv, [Next]_<<focus, everything>>,
                      focus' = "drop"
               PROVE  DropInv'
    OBVIOUS
  <2>1. focus = "drop" /\ DropInv
    BY DEF Next
  <2>2. [Drop!Next]_Drop!vars
    BY <2>1, DropSteps
  <2> QED BY <2>1, <2>2, DropStepKeeps
<1> QED BY <1>1, <1>2, PTL DEF Spec

-----------------------------------------------------------------------------
(* Tickets of a user stay within the month's, the task's and the drop's      *)
(* limits, but where counts overlapped, and a draw leaves tickets, places    *)
(* and prizes that fit together, whoever is rejected and replaced, unless a  *)
(* choice of a reserve is committed after two others it has not seen.        *)
THEOREM DropsAreFair == Spec => []DropsHold
<1>1. (focus = "drop" => DropInv) => DropsHold
  BY DropsHoldFollows DEF DropsHold
<1> QED BY <1>1, DropKept, PTL
=============================================================================
