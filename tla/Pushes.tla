------------------------------- MODULE Pushes -------------------------------
(* Push notifications: the tokens of devices, the dispatch of one           *)
(* notification, and the fan-out of one chat message over the pages of the  *)
(* chat's members.                                                          *)
(*                                                                          *)
(* How a row is claimed and reported is Outbox's matter: here a row is      *)
(* taken, and given back when its worker dies or its handler throws. Fewer  *)
(* tokens are in play than sends run at a time, so that all the sends of a  *)
(* run are on their way at once; a user's tokens fit one query. Settings    *)
(* and blocks only come, they do not go.                                    *)
EXTENDS Naturals, FiniteSets, Sequences, SequencesExt, FiniteSetsExt

CONSTANTS
    Members,        \* members but the sender, in the order of their rows' ids
    Tokens,
    Home,           \* token |-> its row at the start, or NoToken
    Devices,
    Workers,
    Calls,
    PageSize,       \* messageNotificationBatchSize
    MaxTries,       \* maxAttempts of the outbox
    MaxRows,        \* bound on rows
    Bounds          \* records of bounds: calls, changes, faults

VARIABLES
    token,      \* PushToken: token |-> [user, device, id] or NoToken
    member,     \* ChatMember rows
    muted,      \* users without allowPush, or with quietHours
    hidden,     \* users in a UserBlock with the sender
    row,        \* OutboxEvent rows of the two types, in order of creation
    run,        \* per worker: the row it handles, and what it has read
    sending,    \* sends on their way, also those of a run that has failed
    sent,       \* per kind of row and token: pushes delivered
    call,       \* per open call of the API
    bound,      \* what is left of the bounds
    changed,    \* (history) users who left, muted or blocked; tokens touched
    twins       \* (history) devices registered by overlapping calls

vars == <<token, member, muted, hidden, row, run, sending, sent, call, bound, changed,
          twins>>
handling == <<row, run, sending>>
people == <<member, muted, hidden>>

Users == ToSet(Members)
NoToken == [user |-> "none"]
Idle == [at |-> "idle"]
Kinds == {"push.dispatch", "message.notification_fanout"}
Addressee == Members[1]

Init ==
    /\ token = Home
    /\ member = Users
    /\ muted = {}
    /\ hidden = {}
    /\ \E kind \in Kinds : row = <<[kind |-> kind, cursor |-> 0, tries |-> 0,
                                     status |-> "pending"]>>
    /\ run = [w \in Workers |-> Idle]
    /\ sending = {}
    /\ sent = [k \in Kinds |-> [t \in Tokens |-> 0]]
    /\ call = [k \in Calls |-> Idle]
    /\ bound \in Bounds
    /\ changed = {}
    /\ twins = {}

-----------------------------------------------------------------------------
(* Tokens *)

Live(t) == token[t] # NoToken
Spend(what) == bound[what] > 0 /\ bound' = [bound EXCEPT ![what] = @ - 1]

Enter(k, c) ==
    /\ call[k] = Idle
    /\ Spend("calls")
    /\ call' = [call EXCEPT ![k] = c]

(* Mutant: the device keeps its other tokens.                               *)
RegisterBeside(k, u, t, d) ==
    /\ Enter(k, [at |-> "upsert", user |-> u, token |-> t, device |-> d])
    /\ changed' = changed \union {t}
    /\ UNCHANGED <<token, people, handling, sent, twins>>

(* writePushTokenOnce: the device's other tokens go, then the token is      *)
(* written, as two statements; the second is one INSERT ... ON CONFLICT,    *)
(* whose unique conflict, and with it the retry, does not come up.          *)
RegisterPushToken(k, u, t, d) ==
    /\ Enter(k, [at |-> "upsert", user |-> u, token |-> t, device |-> d])
    /\ LET gone == {x \in Tokens \ {t} : Live(x) /\ token[x].user = u
                                                  /\ token[x].device = d} IN
       /\ token' = [x \in Tokens |-> IF x \in gone THEN NoToken ELSE token[x]]
       /\ changed' = changed \union gone \union {t}
    /\ twins' = IF \E j \in Calls : /\ call[j].at = "upsert"
                                    /\ call[j].user = u /\ call[j].device = d
                THEN twins \union {<<u, d>>} ELSE twins
    /\ UNCHANGED <<people, handling, sent>>

Upsert(k) ==
    LET c == call[k] IN
    /\ c.at = "upsert"
    /\ token' = [token EXCEPT ![c.token] = [user |-> c.user, device |-> c.device]]
    /\ call' = [call EXCEPT ![k] = Idle]
    /\ UNCHANGED <<people, handling, sent, bound, changed, twins>>

(* deletePushTokenByDeviceId and, for a token that has its own device,      *)
(* deletePushToken.                                                         *)
DeletePushTokens(u, d) ==
    /\ Spend("calls")
    /\ LET gone == {x \in Tokens : Live(x) /\ token[x].user = u /\ token[x].device = d} IN
       /\ gone # {}
       /\ token' = [x \in Tokens |-> IF x \in gone THEN NoToken ELSE token[x]]
       /\ changed' = changed \union gone
    /\ UNCHANGED <<people, handling, sent, call, twins>>

(* The process dies between the two statements of a registration.           *)
Drop(k) ==
    /\ call[k] # Idle
    /\ call' = [call EXCEPT ![k] = Idle]
    /\ UNCHANGED <<token, people, handling, sent, bound, changed, twins>>

(* A user leaves the chat, turns pushes off, or is blocked or blocks.       *)
Change(u) ==
    /\ Spend("changes")
    /\ \/ member' = member \ {u} /\ UNCHANGED <<muted, hidden>>
       \/ muted' = muted \union {u} /\ UNCHANGED <<member, hidden>>
       \/ hidden' = hidden \union {u} /\ UNCHANGED <<member, muted>>
    /\ changed' = changed \union {u}
    /\ UNCHANGED <<token, handling, sent, call, twins>>

-----------------------------------------------------------------------------
(* Handlers *)

(* The reads of a handler, each a query of its own, in the code's order.    *)
Queries(kind) ==
    IF kind = "push.dispatch" THEN <<"hidden", "muted", "tokens", "send">>
    ELSE <<"page", "next", "muted", "hidden", "tokens", "send">>

Following(w) ==
    LET q == Queries(row[run[w].row].kind) IN
    q[(CHOOSE n \in DOMAIN q : q[n] = run[w].at) + 1]

Take(w, i) ==
    /\ run[w] = Idle
    /\ row[i].status = "pending"
    /\ row' = [row EXCEPT ![i].status = "processing", ![i].tries = @ + 1]
    /\ run' = [run EXCEPT ![w] = [at |-> Queries(row[i].kind)[1], row |-> i,
                                  try |-> row[i].tries + 1,
                                  to |-> {Addressee}, last |-> 0, sends |-> {},
                                  barred |-> muted \union hidden]]
    /\ UNCHANGED <<token, people, sending, sent, call, bound, changed, twins>>

(* Members of a page: up to PageSize + 1 rows behind the cursor; the row    *)
(* too many says there is a next page. Mutants: the cursor's row comes      *)
(* again; a full page is the last.                                          *)
BehindAgain(cursor) == {n \in DOMAIN Members : n >= cursor /\ Members[n] \in member}
Behind(cursor) == {n \in DOMAIN Members : n > cursor /\ Members[n] \in member}
FirstOf(S, size) == {n \in S : Cardinality({m \in S : m < n}) < size}
PageOf(cursor) == FirstOf(Behind(cursor), PageSize)
HasMoreNever(cursor) == FALSE
HasMore(cursor) == Cardinality(Behind(cursor)) > PageSize

ReadPage(w) ==
    LET r == run[w]
        cursor == row[r.row].cursor
        page == PageOf(cursor) IN
    /\ r.at = "page"
    /\ run' = [run EXCEPT ![w].at = IF HasMore(cursor) THEN "next" ELSE "muted",
                          ![w].to = {Members[n] : n \in page},
                          ![w].last = IF page = {} THEN 0 ELSE Max(page)]
    /\ UNCHANGED <<token, people, row, sending, sent, call, bound, changed, twins>>

(* The next page becomes a row before anything of this one is sent.         *)
CreateNext(w) ==
    LET r == run[w] IN
    /\ r.at = "next"
    /\ Len(row) < MaxRows
    /\ row' = Append(row, [kind |-> row[r.row].kind, cursor |-> r.last,
                           tries |-> 0, status |-> "pending"])
    /\ run' = [run EXCEPT ![w].at = Following(w)]
    /\ UNCHANGED <<token, people, sending, sent, call, bound, changed, twins>>

(* filterPushAllowedRecipients, and the two checks of handlePushDispatch.   *)
Filter(w, what, out) ==
    /\ run[w].at = what
    /\ run' = [run EXCEPT ![w].at = Following(w), ![w].to = @ \ out]
    /\ UNCHANGED <<token, people, row, sending, sent, call, bound, changed, twins>>

(* The tokens of one recipient after the other, in no order; the last       *)
(* answer starts the sends of all.                                          *)
ReadTokens(w, u) ==
    LET r == run[w]
        found == {[row |-> r.row, try |-> r.try, user |-> u, token |-> t] :
                    t \in {x \in Tokens : Live(x) /\ token[x].user = u}}
        all == r.sends \union found IN
    /\ r.at = "tokens"
    /\ u \in r.to
    /\ run' = [run EXCEPT ![w].to = @ \ {u}, ![w].sends = all,
                          ![w].at = IF r.to = {u} THEN "send" ELSE "tokens"]
    /\ sending' = IF r.to = {u} THEN sending \union all ELSE sending
    /\ UNCHANGED <<token, people, row, sent, call, bound, changed, twins>>

Own(w) == {s \in sending : s.row = run[w].row /\ s.try = run[w].try}

Deliver(s) ==
    /\ sending' = sending \ {s}
    /\ sent' = [sent EXCEPT ![row[s.row].kind][s.token] = @ + 1]
    /\ UNCHANGED <<token, people, row, run, call, bound, changed, twins>>

(* FCM throws, for a token that is no longer valid as for any other reason; *)
(* the first of its sends to fail fails the run, the others go on.          *)
Reject(s) ==
    /\ Spend("faults")
    /\ sending' = sending \ {s}
    /\ run' = [w \in Workers |-> IF run[w] # Idle /\ s \in Own(w)
                                 THEN [run[w] EXCEPT !.at = "failed"] ELSE run[w]]
    /\ UNCHANGED <<token, people, row, sent, call, changed, twins>>

(* A query, or the creation of the next page, throws.                       *)
Throw(w) ==
    /\ run[w].at \notin {"idle", "send", "failed"}
    /\ Spend("faults")
    /\ run' = [run EXCEPT ![w].at = "failed"]
    /\ UNCHANGED <<token, people, row, sending, sent, call, changed, twins>>

Report(w) ==
    LET r == run[w] IN
    /\ \/ r.at = "failed"
       \/ r.at = "send" /\ Own(w) = {}
       \/ r.at = "tokens" /\ r.to = {}
    /\ row' = [row EXCEPT ![r.row].status =
                 IF r.at # "failed" THEN "done"
                 ELSE IF @ = "processing" /\ r.try >= MaxTries THEN "failed"
                 ELSE "pending"]
    /\ run' = [run EXCEPT ![w] = Idle]
    /\ UNCHANGED <<token, people, sending, sent, call, bound, changed, twins>>

(* A worker dies with the sends of its run; the row's lock runs out.        *)
Die(w) ==
    /\ run[w] # Idle
    /\ Spend("faults")
    /\ sending' = sending \ Own(w)
    /\ row' = [row EXCEPT ![run[w].row].status = "pending"]
    /\ run' = [run EXCEPT ![w] = Idle]
    /\ UNCHANGED <<token, people, sent, call, changed, twins>>

Next ==
    \/ \E k \in Calls : Upsert(k) \/ Drop(k)
    \/ \E k \in Calls, u \in Users, t \in Tokens, d \in Devices : RegisterPushToken(k, u, t, d)
    \/ \E u \in Users, d \in Devices : DeletePushTokens(u, d)
    \/ \E u \in Users : Change(u)
    \/ \E w \in Workers, i \in DOMAIN row : Take(w, i)
    \/ \E w \in Workers :
          \/ ReadPage(w) \/ CreateNext(w)
          \/ Filter(w, "muted", muted) \/ Filter(w, "hidden", hidden)
          \/ \E u \in Users : ReadTokens(w, u)
          \/ Throw(w) \/ Report(w) \/ Die(w)
    \/ \E s \in sending : Deliver(s) \/ Reject(s)

-----------------------------------------------------------------------------
Steady(t) == Home[t] # NoToken /\ {t, Home[t].user} \cap changed = {}

(* When all rows are done, every device that stayed with one user, who      *)
(* stayed in the chat and wanted pushes, has had the push: the pages cover  *)
(* the members whatever was retried.                                        *)
Reached ==
    (\A i \in DOMAIN row : row[i].status = "done") =>
        \A t \in Tokens :
            /\ Steady(t)
            /\ row[1].kind = "push.dispatch" => Home[t].user = Addressee
            => sent[row[1].kind][t] > 0

(* Without a retry no device has the same push twice; with retries, never   *)
(* more often than rows were tried.                                         *)
NotAgain ==
    \A k \in Kinds, t \in Tokens :
        t \notin changed =>
            sent[k][t] <= IF \A i \in DOMAIN row : row[i].tries <= 1 THEN 1
                          ELSE FoldSeq(LAMBDA r, n : r.tries + n, 0, row)

(* A run never sends to a user who had turned pushes off, or was in a block *)
(* with the sender, before the run began.                                   *)
Wanted ==
    \A w \in Workers : run[w] # Idle => {s.user : s \in Own(w)} \cap run[w].barred = {}

(* A user has one token per device, unless two registrations of the device  *)
(* overlapped: then both may stay, and the device is pushed twice.          *)
OneToken ==
    \A s, t \in Tokens :
        /\ s # t /\ Live(s) /\ Live(t)
        /\ token[s] = token[t]
        => <<token[s].user, token[s].device>> \in twins

(* Pushes reach who wants them, no more often than rows were retried, and a *)
(* device has one token.                                                    *)
PushesHold == Reached /\ NotAgain /\ Wanted /\ OneToken
=============================================================================
