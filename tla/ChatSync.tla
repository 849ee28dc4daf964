------------------------------ MODULE ChatSync ------------------------------
(* The realtime log of one chat and the clients that follow it.             *)
(*                                                                          *)
(* Every change of a chat appends a RealtimeEvent in its own transaction.   *)
(* A client loads the messages and the last event id by REST, subscribes,   *)
(* asks for the events after its cursor page by page, and then listens: the *)
(* chat server (or, through the outbox, the worker) publishes a committed   *)
(* event on the Redis bus, and every chat process sends it to the sockets   *)
(* that were subscribed when it arrived.                                    *)
(*                                                                          *)
(* The id of an event is drawn from the sequence inside the transaction, so *)
(* ids are committed out of order; and between the arrival of a bus message *)
(* and the send there is an await (the lookup of blocks), so sends overtake *)
(* each other.                                                              *)
(*                                                                          *)
(* The client is not part of this repository. It is modelled as careful as  *)
(* the protocol allows: it asks for the events after the cursor it had when *)
(* it subscribed, does not move its cursor by live events before its sync   *)
(* has ended, and never moves it back. What it misses it misses because of  *)
(* the protocol.                                                            *)
EXTENDS Integers, FiniteSets, FiniteSetsExt

CONSTANTS
    Clients,        \* users with one socket each, on chat processes of their own
    Msgs,           \* messages that may be sent
    Calls,          \* calls that change the chat, as many as may overlap
    PageSize,       \* the sync limit
    MaxEvents,      \* bound on the ids drawn
    MaxFaults       \* bound on processes that die, sends dropped, connections broken

VARIABLES
    nextId,     \* the sequence of RealtimeEvent.id
    log,        \* committed events: a function from ids to what happened
    row,        \* Message rows: the event that wrote them last, and whether they exist
    call,       \* per call: what it does and how far it is
    relay,      \* ids in outbox rows (realtime.publish) not yet published
    bus,        \* per client: ids published and not yet arrived at its process
    out,        \* per client: ids whose send waits for the lookup of blocks
    pc,         \* per client: what it is doing
    cursor,     \* per client: its stored sync cursor, 0 for none
    since,      \* per client: the cursor of its next sync request
    heard,      \* per client: highest id heard live while its sync was going on
    page,       \* per client: the two halves of a REST answer
    seen,       \* per client: ids of events whose effect the client shows
    excuse,     \* per client (history): ids the protocol may withhold from it
    lost,       \* (history) ids whose publication died with its process
    faults      \* faults left

vars == <<nextId, log, row, call, relay, bus, out, pc, cursor, since, heard,
          page, seen, excuse, lost, faults>>
clientVars == <<pc, cursor, since, heard, page, seen, excuse>>

Kinds == {"created", "updated", "deleted", "read"}
Ids == 1 .. MaxEvents
NoMsg == "none"
Event == [kind : Kinds, msg : Msgs \union {NoMsg}]
Absent == [by |-> 0, live |-> FALSE]
Idle == [st |-> "idle"]
NoPage == [msgs |-> "unread", last |-> -1]

Committed == DOMAIN log
(* The ids a query over the chat's events finds.                            *)
LastId == IF Committed = {} THEN 0 ELSE Max(Committed)

(* Bus messages of reads (and of attachments that became ready) do not      *)
(* carry the id of their event, so they cannot move a cursor.               *)
Carried(i) == IF log[i].kind = "read" THEN 0 ELSE i

Larger(a, b) == IF a > b THEN a ELSE b

-----------------------------------------------------------------------------
Init ==
    /\ nextId = 1
    /\ log = <<>>
    /\ row = [m \in Msgs |-> Absent]
    /\ call = [k \in Calls |-> Idle]
    /\ relay = {}
    /\ bus = [c \in Clients |-> {}]
    /\ out = [c \in Clients |-> {}]
    /\ pc = [c \in Clients |-> "off"]
    /\ cursor = [c \in Clients |-> -1]
    /\ since = [c \in Clients |-> 0]
    /\ heard = [c \in Clients |-> 0]
    /\ page = [c \in Clients |-> NoPage]
    /\ seen = [c \in Clients |-> {}]
    /\ excuse = [c \in Clients |-> {}]
    /\ lost = {}
    /\ faults = MaxFaults

-----------------------------------------------------------------------------
(* Transactions. A call that is open has written its rows and drawn its id; *)
(* nobody else sees either before the commit.                               *)

RowFree(m) == \A k \in Calls : call[k].st = "open" => call[k].msg # m

Open(k, kind, m, via, by) ==
    /\ call[k] = Idle
    /\ nextId <= MaxEvents
    /\ nextId' = nextId + 1
    /\ call' = [call EXCEPT ![k] = [st |-> "open", id |-> nextId, kind |-> kind,
                                    msg |-> m, via |-> via, by |-> by]]
    /\ UNCHANGED <<log, row, relay, bus, out, lost, faults>>
    /\ UNCHANGED clientVars

(* message.send: the INSERT of the message and of its event is one          *)
(* statement, or one transaction. by is the sender's client, if it is one   *)
(* of those observed.                                                       *)
SendMessage(k, m, by) ==
    /\ row[m] = Absent
    /\ RowFree(m)
    /\ Open(k, "created", m, "bus", by)

(* System messages of meetups and evenings leave the publication to the     *)
(* outbox, in the same transaction.                                         *)
SystemMessage(k, m) ==
    /\ row[m] = Absent
    /\ RowFree(m)
    /\ Open(k, "created", m, "outbox", NoMsg)

(* Slip: the event is appended first, the message written afterwards.       *)
ChangeMessageLogFirst(k, m, kind, by) ==
    /\ row[m].live
    /\ Open(k, kind, m, "bus", by)

(* message.edit and message.delete update the message's row, which waits    *)
(* for any open writer of the row, before they append the event.            *)
ChangeMessage(k, m, kind, by) ==
    /\ row[m].live
    /\ RowFree(m)
    /\ Open(k, kind, m, "bus", by)

MarkRead(k) == Open(k, "read", NoMsg, "bus", NoMsg)

Commit(k) ==
    LET t == call[k] IN
    /\ t.st = "open"
    /\ log' = [i \in Committed \union {t.id} |->
                  IF i = t.id THEN [kind |-> t.kind, msg |-> t.msg] ELSE log[i]]
    /\ row' = [m \in Msgs |->
                  IF m = t.msg THEN [by |-> t.id, live |-> t.kind # "deleted"] ELSE row[m]]
    /\ IF t.via = "outbox"
       THEN /\ relay' = relay \union {t.id}
            /\ call' = [call EXCEPT ![k] = Idle]
       ELSE /\ call' = [call EXCEPT ![k].st = "committed"]
            /\ UNCHANGED relay
    /\ UNCHANGED <<nextId, bus, out, lost, faults>>
    /\ UNCHANGED clientVars

(* A transaction that fails leaves a gap in the ids.                        *)
Abort(k) ==
    /\ call[k].st = "open"
    /\ call' = [call EXCEPT ![k] = Idle]
    /\ UNCHANGED <<nextId, log, row, relay, bus, out, lost, faults>>
    /\ UNCHANGED clientVars

-----------------------------------------------------------------------------
(* What a client does with an event it is sent.                             *)
Online(c) == pc[c] \in {"syncing", "live"}

Show(c, i) ==
    /\ seen' = [seen EXCEPT ![c] = @ \union {i}]
    /\ IF pc[c] = "live"
       THEN /\ cursor' = [cursor EXCEPT ![c] = Larger(@, Carried(i))]
            /\ UNCHANGED heard
       ELSE /\ heard' = [heard EXCEPT ![c] = Larger(@, Carried(i))]
            /\ UNCHANGED cursor

PublishTo(clients, i) ==
    bus' = [c \in Clients |-> IF c \in clients THEN bus[c] \union {i} ELSE bus[c]]

(* sendMessage after the commit: the sender's socket gets the message as    *)
(* its acknowledgement, ...                                                 *)
Acknowledge(k) ==
    LET t == call[k] IN
    /\ t.st = "committed"
    /\ t.kind = "created"
    /\ call' = [call EXCEPT ![k].st = "acked"]
    /\ IF t.by \in Clients /\ Online(t.by)
       THEN Show(t.by, t.id)
       ELSE UNCHANGED <<seen, cursor, heard>>
    /\ UNCHANGED <<nextId, log, row, relay, bus, out, pc, since, page, excuse,
                   lost, faults>>

(* ... then the event goes to the bus. The socket acknowledged is skipped   *)
(* when it comes back (here: an arrival that changes nothing).              *)
Publish(k) ==
    LET t == call[k] IN
    /\ \/ t.st = "acked"
       \/ t.st = "committed" /\ t.kind # "created"
    /\ call' = [call EXCEPT ![k] = Idle]
    /\ PublishTo(Clients, t.id)
    /\ UNCHANGED <<nextId, log, row, relay, out, lost, faults>>
    /\ UNCHANGED clientVars

(* The process dies after the commit. The sender repeats message.send with  *)
(* the same clientMessageId and gets the stored message, without an event   *)
(* id; nothing is published.                                                *)
CrashBeforePublish(k) ==
    LET t == call[k] IN
    /\ t.st \in {"committed", "acked"}
    /\ faults > 0
    /\ faults' = faults - 1
    /\ call' = [call EXCEPT ![k] = Idle]
    /\ lost' = lost \union {t.id}
    /\ UNCHANGED <<nextId, log, row, relay, bus, out>>
    /\ UNCHANGED clientVars

RepeatSend(c) ==
    /\ Online(c)
    /\ \E i \in lost \ seen[c] :
          /\ log[i].kind = "created"
          /\ row[log[i].msg].live
          /\ seen' = [seen EXCEPT ![c] = @ \union {i}]
    /\ UNCHANGED <<nextId, log, row, call, relay, bus, out, pc, cursor, since,
                   heard, page, excuse, lost, faults>>

(* The worker handles the outbox row.                                       *)
PublishRelayed ==
    \E i \in relay :
        /\ relay' = relay \ {i}
        /\ PublishTo(Clients, i)
        /\ UNCHANGED <<nextId, log, row, call, out, lost, faults>>
        /\ UNCHANGED clientVars

-----------------------------------------------------------------------------
(* A bus message arrives at the process of c: broadcastEvent takes the      *)
(* sockets subscribed now. An event that was committed behind the cursor of *)
(* a client that is away is withheld for good.                              *)
Arrive(c) ==
    \E i \in bus[c] :
        /\ bus' = [bus EXCEPT ![c] = @ \ {i}]
        /\ IF Online(c)
           THEN /\ out' = [out EXCEPT ![c] = @ \union {i}]
                /\ UNCHANGED excuse
           ELSE /\ excuse' = [excuse EXCEPT ![c] =
                                 IF i <= cursor[c] THEN @ \union {i} ELSE @]
                /\ UNCHANGED out
        /\ UNCHANGED <<nextId, log, row, call, relay, pc, cursor, since, heard,
                       page, seen, lost, faults>>

(* The lookup of blocks has ended: send.                                    *)
Deliver(c) ==
    \E i \in out[c] :
        /\ out' = [out EXCEPT ![c] = @ \ {i}]
        /\ Show(c, i)
        /\ UNCHANGED <<nextId, log, row, call, relay, bus, pc, since, page,
                       excuse, lost, faults>>

(* sendSerialized: more than maxBufferedBytes wait on the socket.           *)
Drop(c) ==
    \E i \in out[c] :
        /\ faults > 0
        /\ faults' = faults - 1
        /\ out' = [out EXCEPT ![c] = @ \ {i}]
        /\ excuse' = [excuse EXCEPT ![c] = @ \union {i}]
        /\ UNCHANGED <<nextId, log, row, call, relay, bus, pc, cursor, since,
                       heard, page, seen, lost>>

-----------------------------------------------------------------------------
(* GET messages: the messages and the last event id are two queries, sent   *)
(* together on two connections. An answer from a cache is one of these that *)
(* ends late.                                                               *)
StartLoad(c) ==
    /\ pc[c] = "off"
    /\ cursor[c] = -1
    /\ pc' = [pc EXCEPT ![c] = "loading"]
    /\ UNCHANGED <<nextId, log, row, call, relay, bus, out, cursor, since, heard,
                   page, seen, excuse, lost, faults>>

LoadMessages(c) ==
    /\ pc[c] = "loading"
    /\ page[c].msgs = "unread"
    /\ page' = [page EXCEPT ![c].msgs = "read"]
    /\ seen' = [seen EXCEPT ![c] = Committed]
    /\ UNCHANGED <<nextId, log, row, call, relay, bus, out, pc, cursor, since,
                   heard, excuse, lost, faults>>

LoadLastEvent(c) ==
    /\ pc[c] = "loading"
    /\ page[c].last = -1
    /\ page' = [page EXCEPT ![c].last = LastId]
    /\ UNCHANGED <<nextId, log, row, call, relay, bus, out, pc, cursor, since,
                   heard, seen, excuse, lost, faults>>

(* Events committed between the two queries, or behind the last id, are in  *)
(* neither half of the answer.                                              *)
EndLoad(c) ==
    /\ page[c].msgs = "read"
    /\ page[c].last # -1
    /\ page' = [page EXCEPT ![c] = NoPage]
    /\ pc' = [pc EXCEPT ![c] = "off"]
    /\ cursor' = [cursor EXCEPT ![c] = page[c].last]
    /\ excuse' = [excuse EXCEPT ![c] =
                     @ \union {i \in Committed \ seen[c] : i <= page[c].last}]
    /\ UNCHANGED <<nextId, log, row, call, relay, bus, out, since, heard, seen,
                   lost, faults>>

(* chat.subscribe, with sync.request right behind it.                       *)
Subscribe(c) ==
    /\ pc[c] = "off"
    /\ cursor[c] # -1
    /\ pc' = [pc EXCEPT ![c] = "syncing"]
    /\ since' = [since EXCEPT ![c] = cursor[c]]
    /\ heard' = [heard EXCEPT ![c] = 0]
    /\ UNCHANGED <<nextId, log, row, call, relay, bus, out, cursor, page, seen,
                   excuse, lost, faults>>

(* The first n of a set of ids.                                             *)
Lowest(n, S) == {i \in S : Cardinality({j \in S : j < i}) < n}

(* Slip: the event right after the cursor is skipped.                       *)
AfterNext(c) == {i \in Committed : i > since[c] + 1}

After(c) == {i \in Committed : i > since[c]}

(* sync: PageSize + 1 events are read; the extra one only says that there   *)
(* is more, and the next request starts after the last one of the page.     *)
Sync(c) ==
    LET found == Lowest(PageSize + 1, After(c))
        hasMore == Cardinality(found) > PageSize
        shown == IF hasMore THEN Lowest(PageSize, found) ELSE found
    IN
    /\ pc[c] = "syncing"
    /\ seen' = [seen EXCEPT ![c] = @ \union shown]
    /\ IF hasMore
       THEN /\ since' = [since EXCEPT ![c] = Max(shown)]
            /\ UNCHANGED <<pc, cursor>>
       ELSE /\ pc' = [pc EXCEPT ![c] = "live"]
            /\ cursor' = [cursor EXCEPT ![c] =
                             Max({@, since[c], heard[c]} \union shown)]
            /\ UNCHANGED since
    /\ UNCHANGED <<nextId, log, row, call, relay, bus, out, heard, page, excuse,
                   lost, faults>>

(* The connection breaks: subscriptions and unsent messages go with the     *)
(* socket. An event still under way that a later one has overtaken lies     *)
(* behind the cursor.                                                       *)
Break(c) ==
    /\ Online(c)
    /\ faults > 0
    /\ faults' = faults - 1
    /\ pc' = [pc EXCEPT ![c] = "off"]
    /\ out' = [out EXCEPT ![c] = {}]
    /\ excuse' = [excuse EXCEPT ![c] = @ \union {i \in out[c] : i <= cursor[c]}]
    /\ UNCHANGED <<nextId, log, row, call, relay, bus, cursor, since, heard,
                   page, seen, lost>>

-----------------------------------------------------------------------------
Write ==
    \E k \in Calls :
        \/ \E m \in Msgs, by \in Clients \union {NoMsg} :
              \/ SendMessage(k, m, by)
              \/ \E kind \in {"updated", "deleted"} : ChangeMessage(k, m, kind, by)
        \/ \E m \in Msgs : SystemMessage(k, m)
        \/ MarkRead(k)
        \/ Commit(k)
        \/ Abort(k)
        \/ Acknowledge(k)
        \/ Publish(k)
        \/ CrashBeforePublish(k)

Follow ==
    \E c \in Clients :
        \/ RepeatSend(c)
        \/ Arrive(c) \/ Deliver(c) \/ Drop(c)
        \/ StartLoad(c) \/ LoadMessages(c) \/ LoadLastEvent(c) \/ EndLoad(c)
        \/ Subscribe(c) \/ Sync(c) \/ Break(c)

Next == Write \/ PublishRelayed \/ Follow

Spec == Init /\ [][Next]_vars

-----------------------------------------------------------------------------
(* Ids that are in use are below the sequence, and clients show committed   *)
(* events only.                                                             *)
TypeOK ==
    /\ nextId \in 1 .. MaxEvents + 1
    /\ Committed \subseteq 1 .. nextId - 1
    /\ \A i \in Committed : log[i] \in Event
    /\ row \in [Msgs -> [by : {0} \union Committed, live : BOOLEAN]]
    /\ relay \subseteq Committed
    /\ lost \subseteq Committed
    /\ \A c \in Clients :
          /\ pc[c] \in {"off", "loading", "syncing", "live"}
          /\ bus[c] \union out[c] \union seen[c] \union excuse[c] \subseteq Committed
          /\ cursor[c] \in {-1, 0} \union Committed
          /\ out[c] # {} => Online(c)

(* The log of every message, replayed in the order of ids, ends with the    *)
(* message as it is stored, although ids are drawn before commits: whoever  *)
(* changes a message holds its row before he draws his id.                  *)
LogReplays ==
    \A m \in Msgs :
        LET about == {i \in Committed : log[i].msg = m} IN
        IF about = {} THEN row[m] = Absent
        ELSE row[m] = [by |-> Max(about), live |-> log[Max(about)].kind # "deleted"]

UnderWay(c) ==
    bus[c] \union out[c] \union relay
        \union {call[k].id : k \in {l \in Calls : call[l].st \in {"committed", "acked"}}}

(* A client that is live shows every committed event that is not still on   *)
(* its way, whatever ids were committed out of order and however often its  *)
(* connection broke, except for exactly these: events whose publication     *)
(* died with its process; sends dropped for a full buffer; events in        *)
(* neither half of its first REST answer; events that arrived, or were      *)
(* about to be sent, behind its cursor when it was not connected.           *)
NothingSkipped ==
    \A c \in Clients :
        pc[c] = "live" => Committed \ seen[c] \subseteq UnderWay(c) \union excuse[c] \union lost

(* What the log says and what its followers see.                            *)
LogHolds == LogReplays /\ NothingSkipped
=============================================================================
