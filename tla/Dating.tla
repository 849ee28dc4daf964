------------------------------- MODULE Dating -------------------------------
(* Dating: swipes, their quotas, the notification of a like, and the direct *)
(* chat a mutual like opens; rewinding a pass; blocks.                      *)
(*                                                                          *)
(* One swipe is five steps of the database, of which only the second and    *)
(* third share a transaction - READ COMMITTED, so that its counts hold      *)
(* nothing still. One hour of one day is followed: the windows of the       *)
(* quotas never slide. Profiles, filters and cached lists are left out.     *)
EXTENDS Integers, FiniteSets, Sequences

CONSTANTS
    Users,
    Actors,         \* users who swipe here
    Calls,          \* calls that may overlap
    SwipeLimit,     \* swipes in an hour
    FreeSupers,     \* free super likes in a day
    FreeRewinds,    \* free rewinds in a day
    SuperCost,
    RewindCost,
    Purse,          \* tokens of a user at the start
    MaxCalls,       \* bound on calls
    MaxBlocks       \* bound on blocks

VARIABLES
    row,        \* DatingAction of an actor about a user: its id and action
    recent,     \* per actor: users in the order of their rows' updatedAt
    used,       \* DatingUsageEvent: how many of each kind an actor has
    balance,    \* tokens of an actor
    told,       \* <<actor, target>> with a like notification
    chat,       \* pairs with a direct chat, both of them its members
    blocked,    \* UserBlock: <<user, blocked user>>
    call,       \* per open call: what it has read
    left,       \* calls left
    toBlock,    \* blocks left
    cut,        \* (history) pairs of whom a call ended short after its write
    stale,      \* (history) pairs matched for a like that was written over
    hurried,    \* (history) quotas counted by overlapping calls: <<actor, kind>>
    met         \* (history) pairs who have liked each other at one time

vars == <<row, recent, used, balance, told, chat, blocked, call, left, toBlock,
          cut, stale, hurried, met>>
history == <<cut, stale, hurried, met>>

Kinds == {"swipe", "super_free", "super_paid", "rewind_free", "rewind_paid"}
NoRow == [id |-> 0, action |-> "none"]
Positive == {"like", "super_like"}
Idle == [step |-> "idle"]
Likes(u, v) == row[u][v].action \in Positive
Last(s) == s[Len(s)]
Remove(s, u) == SelectSeq(s, LAMBDA v : v # u)
Barred(u, v) == <<u, v>> \in blocked \/ <<v, u>> \in blocked
Latest(u) == IF recent[u] = <<>> THEN NoRow ELSE row[u][Last(recent[u])]

Init ==
    /\ row = [u \in Actors |-> [v \in Users |-> NoRow]]
    /\ recent = [u \in Actors |-> <<>>]
    /\ used = [u \in Actors |-> [k \in Kinds |-> 0]]
    /\ balance = [u \in Actors |-> Purse]
    /\ told = {}
    /\ chat = {}
    /\ blocked = {}
    /\ call = [k \in Calls |-> Idle]
    /\ left = MaxCalls
    /\ toBlock = MaxBlocks
    /\ cut = {}
    /\ stale = {}
    /\ hurried = {}
    /\ met = {}

Enter(k, c) ==
    /\ call[k] = Idle
    /\ left > 0
    /\ left' = left - 1
    /\ call' = [call EXCEPT ![k] = c]

Goto(k, step) == call' = [call EXCEPT ![k].step = step]
End(k) == call' = [call EXCEPT ![k] = Idle]

(* An error, or the process dies: what is committed stays. A transaction    *)
(* that has only counted leaves nothing.                                    *)
Fail(k) ==
    LET c == call[k] IN
    /\ c # Idle
    /\ End(k)
    /\ cut' = IF c.step \in {"notify", "look", "chat"}
              THEN cut \union {{c.user, c.target}} ELSE cut
    /\ UNCHANGED <<row, recent, used, balance, told, chat, blocked, left, toBlock,
                   stale, hurried, met>>

-----------------------------------------------------------------------------
(* Quotas *)

(* What a counting transaction does about a quota: events to insert and     *)
(* tokens to spend.                                                         *)
Nothing == [kind |-> "none", cost |-> 0]
Charge(u, kind) ==
    CASE kind = "super_like" ->
            IF used[u].super_free < FreeSupers
            THEN [kind |-> "super_free", cost |-> 0]
            ELSE [kind |-> "super_paid", cost |-> SuperCost]
      [] kind = "rewind" ->
            IF used[u].rewind_free < FreeRewinds
            THEN [kind |-> "rewind_free", cost |-> 0]
            ELSE [kind |-> "rewind_paid", cost |-> RewindCost]
      [] OTHER -> Nothing

(* Spending is a decrement guarded by the balance.                          *)
Spend(u, cost) ==
    /\ balance[u] >= cost
    /\ balance' = [balance EXCEPT ![u] = @ - cost]

Add(u, kinds) ==
    used' = [used EXCEPT ![u] = [k \in Kinds |-> @[k] + IF k \in kinds THEN 1 ELSE 0]]

(* Counts that have changed under the transaction which acts on them.       *)
Hurried(u, c, kinds) ==
    hurried' = hurried \union {<<u, k>> : k \in {x \in kinds : c.counts[x] # used[u][x]}}

-----------------------------------------------------------------------------
(* recordAction *)

BeginSwipe(k, u, v, action) ==
    /\ u # v
    /\ ~Barred(u, v)
    /\ Enter(k, [step |-> "count", user |-> u, target |-> v, action |-> action,
                 before |-> row[u][v].action])
    /\ UNCHANGED <<row, recent, used, balance, told, chat, blocked, toBlock>>
    /\ UNCHANGED history

Changed(c) == c.before # c.action

(* ensureSwipeAllowed                                                       *)
MaySwipe(c) == used[c.user].swipe < SwipeLimit

CountSwipe(k) ==
    LET c == call[k] IN
    /\ c.step = "count"
    /\ Changed(c) => MaySwipe(c)
    /\ call' = [call EXCEPT ![k] =
          [step |-> "write", user |-> c.user, target |-> c.target,
           action |-> c.action, before |-> c.before, counts |-> used[c.user],
           quota |-> IF Changed(c) THEN Charge(c.user, c.action) ELSE Nothing]]
    /\ UNCHANGED <<row, recent, used, balance, told, chat, blocked, left, toBlock>>
    /\ UNCHANGED history

(* The unique row of the pair is updated, or created under a new id.        *)
Upserted(r, action) ==
    [id |-> IF r.action = "none" THEN r.id + 1 ELSE r.id, action |-> action]

Events(c) ==
    ({c.quota.kind} \ {"none"}) \union (IF Changed(c) THEN {"swipe"} ELSE {})

WriteSwipe(k) ==
    LET c == call[k]
        u == c.user
        v == c.target
    IN
    /\ c.step = "write"
    /\ Spend(u, c.quota.cost)
    /\ row' = [row EXCEPT ![u][v] = Upserted(@, c.action)]
    /\ recent' = [recent EXCEPT ![u] = Append(Remove(@, v), v)]
    /\ Add(u, Events(c))
    /\ Hurried(u, c, Events(c))
    /\ met' = IF c.action \in Positive /\ v \in Actors /\ Likes(v, u)
              THEN met \union {{u, v}} ELSE met
    /\ Goto(k, IF c.action \in Positive /\ c.before # "super_like"
                  /\ (c.action = "super_like" \/ c.before \notin Positive)
               THEN "notify" ELSE "look")
    /\ UNCHANGED <<told, chat, blocked, left, toBlock, cut, stale>>

(* createDatingLikeNotification: the dedupe key refuses a second one.       *)
Notify(k) ==
    LET c == call[k] IN
    /\ c.step = "notify"
    /\ told' = told \union {<<c.user, c.target>>}
    /\ Goto(k, "look")
    /\ UNCHANGED <<row, recent, used, balance, chat, blocked, left, toBlock>>
    /\ UNCHANGED history

(* Slip: any answer of the other side is a match.                           *)
MatchedAnswered(c) == c.action \in Positive /\ row[c.target][c.user].action # "none"

Matched(c) == c.action \in Positive /\ Likes(c.target, c.user)

(* Has the other side answered the like? Only actors swipe.                 *)
Look(k) ==
    LET c == call[k]
        matched == c.target \in Actors /\ Matched(c)
    IN
    /\ c.step = "look"
    /\ IF matched THEN Goto(k, "chat") ELSE End(k)
    /\ stale' = IF matched /\ ~Likes(c.user, c.target)
                THEN stale \union {{c.user, c.target}} ELSE stale
    /\ UNCHANGED <<row, recent, used, balance, told, chat, blocked, left, toBlock,
                   cut, hurried, met>>

(* createOrGetDirectChat, which asks for blocks once more; its unique key   *)
(* makes one chat of two calls.                                             *)
OpenChat(k) ==
    LET c == call[k] IN
    /\ c.step = "chat"
    /\ ~Barred(c.user, c.target)
    /\ chat' = chat \union {{c.user, c.target}}
    /\ End(k)
    /\ UNCHANGED <<row, recent, used, balance, told, blocked, left, toBlock>>
    /\ UNCHANGED history

-----------------------------------------------------------------------------
(* rewindLastPass *)

BeginRewind(k, u) ==
    /\ Latest(u).action = "pass"
    /\ ~Barred(u, Last(recent[u]))
    /\ Enter(k, [step |-> "rewind", user |-> u, target |-> Last(recent[u]),
                 id |-> Latest(u).id])
    /\ UNCHANGED <<row, recent, used, balance, told, chat, blocked, toBlock>>
    /\ UNCHANGED history

CountRewind(k) ==
    LET c == call[k] IN
    /\ c.step = "rewind"
    /\ call' = [call EXCEPT ![k] =
          [step |-> "delete", user |-> c.user, target |-> c.target, id |-> c.id,
           counts |-> used[c.user], quota |-> Charge(c.user, "rewind")]]
    /\ UNCHANGED <<row, recent, used, balance, told, chat, blocked, left, toBlock>>
    /\ UNCHANGED history

(* The row is deleted by its id, whatever its action is by now; if it is    *)
(* gone the transaction, its charge included, is undone.                    *)
DeletePass(k) ==
    LET c == call[k]
        u == c.user
        v == c.target
    IN
    /\ c.step = "delete"
    /\ row[u][v].id = c.id /\ row[u][v].action # "none"
    /\ Spend(u, c.quota.cost)
    /\ row' = [row EXCEPT ![u][v].action = "none"]
    /\ recent' = [recent EXCEPT ![u] = Remove(@, v)]
    /\ Add(u, {c.quota.kind})
    /\ Hurried(u, c, {c.quota.kind})
    /\ End(k)
    /\ UNCHANGED <<told, chat, blocked, left, toBlock, cut, stale, met>>

-----------------------------------------------------------------------------
(* Safety: createBlock and deleteBlock. Neither touches swipes or chats.    *)
Block(u, v) ==
    /\ u # v
    /\ <<u, v>> \notin blocked
    /\ toBlock > 0
    /\ toBlock' = toBlock - 1
    /\ blocked' = blocked \union {<<u, v>>}
    /\ UNCHANGED <<row, recent, used, balance, told, chat, call, left>>
    /\ UNCHANGED history

Unblock(u, v) ==
    /\ <<u, v>> \in blocked
    /\ blocked' = blocked \ {<<u, v>>}
    /\ UNCHANGED <<row, recent, used, balance, told, chat, call, left, toBlock>>
    /\ UNCHANGED history

-----------------------------------------------------------------------------
Next ==
    \/ \E k \in Calls :
          \/ \E u \in Actors, v \in Users, action \in Positive \union {"pass"} :
                BeginSwipe(k, u, v, action)
          \/ CountSwipe(k) \/ WriteSwipe(k) \/ Notify(k) \/ Look(k) \/ OpenChat(k)
          \/ \E u \in Actors : BeginRewind(k, u)
          \/ CountRewind(k) \/ DeletePass(k)
          \/ Fail(k)
    \/ \E u \in Actors, v \in Users : Block(u, v) \/ Unblock(u, v)

Spec == Init /\ [][Next]_vars

-----------------------------------------------------------------------------
Answers == Positive \union {"pass", "none"}

(* A swipe before it counts and after. Whom a rewind is about is read off   *)
(* recent, of which nothing is said here.                                   *)
Counting == [step : {"count"}, user : Actors, target : Users, action : Answers,
             before : Answers]
Swiping == [step : {"write", "notify", "look", "chat"}, user : Actors, target : Users,
            action : Answers, before : Answers, counts : [Kinds -> Nat],
            quota : [kind : Kinds \union {"none"}, cost : Nat]]

TypeOK ==
    /\ row \in [Actors -> [Users -> [id : Nat, action : Answers]]]
    /\ used \in [Actors -> [Kinds -> Nat]]
    /\ balance \in [Actors -> Nat]
    /\ told \subseteq Actors \X Users
    /\ chat \subseteq SUBSET Users
    /\ DOMAIN call = Calls
    /\ \A k \in Calls :
          \/ call[k] = Idle
          \/ call[k] \in Counting \union Swiping
          \/ call[k].step \in {"rewind", "delete"} /\ call[k].user \in Actors

(* A call about the pair that has written and not ended.                    *)
Open(u, v) ==
    \E k \in Calls : /\ call[k].step \in {"notify", "look", "chat"}
                     /\ {call[k].user, call[k].target} = {u, v}

(* Who like each other have a chat.                                         *)
MatchesChat ==
    \A u, v \in Actors :
        (u # v /\ Likes(u, v) /\ Likes(v, u)) =>
            {u, v} \in chat \/ Open(u, v) \/ {u, v} \in cut

(* A like is made known.                                                    *)
LikesTold ==
    \A u \in Actors, v \in Users :
        Likes(u, v) => <<u, v>> \in told \/ Open(u, v) \/ {u, v} \in cut

WithinQuotas ==
    \A u \in Actors :
        /\ <<u, "swipe">> \in hurried \/ used[u].swipe <= SwipeLimit
        /\ <<u, "super_free">> \in hurried \/ used[u].super_free <= FreeSupers
        /\ <<u, "rewind_free">> \in hurried \/ used[u].rewind_free <= FreeRewinds

Charged ==
    \A u \in Actors :
        balance[u] = Purse - SuperCost * used[u].super_paid
                           - RewindCost * used[u].rewind_paid

(* Whatever order two swipes at each other take: once their calls have      *)
(* ended, two likes have their chat and every like its notification (but    *)
(* for calls that ended short after their write, which no retry makes       *)
(* good); a chat was opened by two likes of one time, or by a call whose    *)
(* like had been written over before it looked; the quotas hold but for     *)
(* counts that overlapped; and tokens match their events.                   *)
SwipesMeet ==
    /\ MatchesChat
    /\ LikesTold
    /\ chat \subseteq met \union stale
    /\ WithinQuotas
    /\ Charged
=============================================================================
