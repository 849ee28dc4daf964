---------------------------- MODULE TelegramLogin ---------------------------
(* Sign-in by a code that a Telegram bot sends: the app starts a login      *)
(* session, its user opens the bot by the session's link, shares a phone    *)
(* number unless the Telegram account is linked already, and types the code *)
(* the bot answers with into the app.                                       *)
(*                                                                          *)
(* App and bot race: all they do reads first and writes later by id, but    *)
(* for the issue of a code, one transaction under a lock, and for the       *)
(* updates of verify, which ask for a session still open. A user is named   *)
(* by the phone number; users without one are not here. Which of several    *)
(* sessions was updated last is left open.                                  *)
EXTENDS Integers, Sequences, FiniteSets

CONSTANTS
    Calls,          \* requests that may overlap
    Telegrams,      \* Telegram accounts
    Phones,         \* phone numbers, a number for the user who has it
    MaxAttempts,    \* TELEGRAM_AUTH_MAX_ATTEMPTS
    MaxCodes,       \* bound on codes
    Bounds          \* bounds on requests, on login sessions, and on expiries and cooldowns

VARIABLES
    row,        \* TelegramLoginSession rows
    codes,      \* per code issued: whom it was sent to, and (history) guesses found wrong
    users,      \* phone numbers that have a user
    account,    \* TelegramAccount: per Telegram account its user
    call,       \* per open request: what it has read
    left,       \* what is left of the bounds
    ins         \* (history) the logins: session, code, Telegram account, number, user

vars == <<row, codes, users, account, call, left, ins>>

None == "none"
Idle == [at |-> "idle"]

Init ==
    /\ row = <<>> /\ codes = <<>>
    /\ users = {}
    /\ account = [t \in Telegrams |-> None]
    /\ call = [c \in Calls |-> Idle]
    /\ left \in Bounds
    /\ ins = <<>>

Begin(c, rec) ==
    /\ call[c] = Idle
    /\ left.calls > 0 /\ left' = [left EXCEPT !.calls = @ - 1]
    /\ call' = [call EXCEPT ![c] = rec]

(* A session the app may verify, one it may still come to know by the token *)
(* it chose, or one nobody but the bot knows.                               *)
Row(app, t, status) ==
    [app |-> app, tg |-> t, phone |-> None, status |-> status, code |-> 0, tries |-> 0,
     cool |-> FALSE, expired |-> FALSE, consumed |-> FALSE]

NewRow ==
    /\ left.calls > 0 /\ left.rows > 0
    /\ left' = [left EXCEPT !.calls = @ - 1, !.rows = @ - 1]

Open(s) == ~row[s].consumed /\ ~row[s].expired

Linked(t) == account[t] # None
Opening(t) == IF Linked(t) THEN "pending_bot" ELSE "awaiting_contact"

-----------------------------------------------------------------------------
(* The app *)

Start ==
    /\ NewRow
    /\ row' = Append(row, Row("known", None, "pending_bot"))
    /\ UNCHANGED <<codes, users, account, call, ins>>

(* The link was opened before the app has started with its token.           *)
StartLater(s) ==
    /\ row[s].app = "unknown" /\ Open(s) /\ row[s].status # "failed"
    /\ left.calls > 0 /\ left' = [left EXCEPT !.calls = @ - 1]
    /\ row' = [row EXCEPT ![s].app = "known"]
    /\ UNCHANGED <<codes, users, account, call, ins>>

(* Another way to sign in has made the user.                                *)
SignUp(p) ==
    /\ p \notin users
    /\ left.calls > 0 /\ left' = [left EXCEPT !.calls = @ - 1]
    /\ users' = users \union {p}
    /\ UNCHANGED <<row, codes, account, call, ins>>

-----------------------------------------------------------------------------
(* The bot's dispatches *)

(* handleDeepLinkStartDispatch: the session and the link are read.          *)
BeginLink(c, s, t) ==
    /\ row[s].app # "never"
    /\ row[s].tg \in {None, t} /\ Open(s) /\ row[s].status # "failed"
    /\ Begin(c, [at |-> "link", row |-> s, tg |-> t, phone |-> account[t]])
    /\ UNCHANGED <<row, codes, users, account, ins>>

Issuing(c, s, t, phone) ==
    call' = [call EXCEPT ![c] = IF phone = None THEN Idle
                                ELSE [at |-> "issue", row |-> s, tg |-> t, phone |-> phone]]

Link(c) ==
    /\ call[c].at = "link"
    /\ LET s == call[c].row IN
       /\ row' = [row EXCEPT ![s].tg = call[c].tg,
                             ![s].status = IF call[c].phone = None THEN "awaiting_contact"
                                           ELSE "pending_bot"]
       /\ Issuing(c, s, call[c].tg, call[c].phone)
    /\ UNCHANGED <<codes, users, account, left, ins>>

(* A link whose token is new, or a start without one that finds no session  *)
(* to go on with.                                                           *)
Create(c, t, app) ==
    /\ call[c] = Idle
    /\ NewRow
    /\ row' = Append(row, Row(app, t, Opening(t)))
    /\ Issuing(c, Len(row) + 1, t, account[t])
    /\ UNCHANGED <<codes, users, account, ins>>

Waiting(t, statuses) == {s \in DOMAIN row : row[s].tg = t /\ Open(s) /\ row[s].status \in statuses}

(* handlePlainStartDispatch                                                 *)
PlainStart(c, t) ==
    \/ /\ Linked(t)
       /\ \E s \in Waiting(t, {"code_issued"}) :
             Begin(c, [at |-> "issue", row |-> s, tg |-> t, phone |-> account[t]])
       /\ UNCHANGED <<row, codes, users, account, ins>>
    \/ /\ Waiting(t, IF Linked(t) THEN {"code_issued"} ELSE {"awaiting_contact"}) = {}
       /\ Create(c, t, "never")

(* handleContactDispatch                                                    *)
Contact(c, t, p) ==
    /\ \E s \in Waiting(t, {"awaiting_contact", "code_issued"}) :
          Begin(c, [at |-> "issue", row |-> s, tg |-> t, phone |-> p])
    /\ UNCHANGED <<row, codes, users, account, ins>>

(* issueCodeForSession: within a minute the same code again, to whoever     *)
(* asks; that the session may have ended meanwhile is not looked at.        *)
Issue(c) ==
    /\ call[c].at = "issue"
    /\ LET s == call[c].row
           to == [tg |-> call[c].tg, phone |-> call[c].phone]
       IN  IF row[s].status = "code_issued" /\ row[s].phone = to.phone /\ row[s].cool
           THEN /\ codes' = [codes EXCEPT ![row[s].code].to = @ \union {to}]
                /\ UNCHANGED row
           ELSE /\ Len(codes) < MaxCodes
                /\ codes' = Append(codes, [to |-> {to}, misses |-> 0])
                /\ row' = [row EXCEPT ![s] = [@ EXCEPT !.status = "code_issued", !.tg = to.tg,
                                              !.phone = to.phone, !.code = Len(codes) + 1,
                                              !.tries = 0, !.cool = TRUE]]
    /\ call' = [call EXCEPT ![c] = Idle]
    /\ UNCHANGED <<users, account, left, ins>>

-----------------------------------------------------------------------------
(* verify *)

BeginVerify(c, s) ==
    /\ row[s].app = "known"
    /\ row[s].status = "code_issued" /\ Open(s)
    /\ LET r == row[s] IN
       \/ /\ r.tries >= MaxAttempts
          /\ Begin(c, [at |-> "shut", row |-> s])
       \/ /\ r.tries < MaxAttempts
          /\ Begin(c, [at |-> "miss", row |-> s, tries |-> r.tries, code |-> r.code])
       \/ /\ r.tries < MaxAttempts
          /\ Begin(c, [at |-> "match", row |-> s, tg |-> r.tg, phone |-> r.phone, code |-> r.code])
    /\ UNCHANGED <<row, codes, users, account, ins>>

Shut(c) ==
    /\ call[c].at = "shut"
    /\ row' = IF row[call[c].row].consumed THEN row
              ELSE [row EXCEPT ![call[c].row].consumed = TRUE, ![call[c].row].status = "failed"]
    /\ call' = [call EXCEPT ![c] = Idle]
    /\ UNCHANGED <<codes, users, account, left, ins>>

(* Slip: the condition of the updates is left out.                          *)
UnusedAnyhow(s) == TRUE

(* What the updates of verify ask for, whatever the code is by now.         *)
Unused(s) == row[s].status = "code_issued" /\ ~row[s].consumed

(* Slip: what was read is counted on.                                       *)
TriedByRead(c) == call[c].tries + 1

(* { increment: 1 }                                                         *)
Tried(c) == row[call[c].row].tries + 1

(* A wrong code; the last attempt by what was read closes the session.      *)
Miss(c) ==
    /\ call[c].at = "miss"
    /\ LET s == call[c].row
           limited == call[c].tries + 1 >= MaxAttempts
       IN  IF Unused(s)
           THEN /\ row' = [row EXCEPT ![s].tries = Tried(c),
                                      ![s].consumed = limited,
                                      ![s].status = IF limited THEN "failed" ELSE @]
                /\ codes' = [codes EXCEPT ![call[c].code].misses = @ + 1]
           ELSE UNCHANGED <<row, codes>>
    /\ call' = [call EXCEPT ![c] = Idle]
    /\ UNCHANGED <<users, account, left, ins>>

(* The right code: who has the Telegram account, and who the number? If     *)
(* they differ, the session ends.                                           *)
Match(c) ==
    /\ call[c].at = "match"
    /\ LET user == account[call[c].tg]
           conflict == user # None /\ call[c].phone \in users /\ user # call[c].phone
       IN  call' = [call EXCEPT ![c] =
                       IF conflict THEN [at |-> "conflict", row |-> call[c].row]
                       ELSE [at |-> "enter", row |-> call[c].row, tg |-> call[c].tg,
                             phone |-> call[c].phone, code |-> call[c].code,
                             user |-> IF user # None THEN user ELSE call[c].phone]]
    /\ UNCHANGED <<row, codes, users, account, left, ins>>

Conflict(c) ==
    /\ call[c].at = "conflict"
    /\ row' = [row EXCEPT ![call[c].row].consumed = TRUE, ![call[c].row].status = "failed"]
    /\ call' = [call EXCEPT ![c] = Idle]
    /\ UNCHANGED <<codes, users, account, left, ins>>

(* The transaction of a login; it makes a user of the number where there is *)
(* none, also when it lets in the one of the Telegram account, and fails if *)
(* that user has another account.                                           *)
Enter(c) ==
    /\ call[c].at = "enter"
    /\ LET s == call[c].row
           t == call[c].tg
           user == call[c].user
       IN  IF Unused(s) /\ \A u \in Telegrams \ {t} : account[u] # user
           THEN /\ row' = [row EXCEPT ![s].consumed = TRUE, ![s].status = "consumed"]
                /\ users' = users \union {user, call[c].phone}
                /\ account' = [account EXCEPT ![t] = user]
                /\ ins' = Append(ins, [row |-> s, code |-> call[c].code, tg |-> t,
                                       phone |-> call[c].phone, user |-> user])
           ELSE UNCHANGED <<row, users, account, ins>>
    /\ call' = [call EXCEPT ![c] = Idle]
    /\ UNCHANGED <<codes, left>>

Fail(c) ==
    /\ call[c] # Idle
    /\ call' = [call EXCEPT ![c] = Idle]
    /\ UNCHANGED <<row, codes, users, account, left, ins>>

-----------------------------------------------------------------------------
Tick == left.timers > 0 /\ left' = [left EXCEPT !.timers = @ - 1]

Expire(s) ==
    /\ Open(s) /\ Tick
    /\ row' = [row EXCEPT ![s].expired = TRUE]
    /\ UNCHANGED <<codes, users, account, call, ins>>

Cool(s) ==
    /\ row[s].cool /\ Tick
    /\ row' = [row EXCEPT ![s].cool = FALSE]
    /\ UNCHANGED <<codes, users, account, call, ins>>

Next ==
    \/ Start
    \/ \E p \in Phones : SignUp(p)
    \/ \E s \in DOMAIN row : StartLater(s) \/ Expire(s) \/ Cool(s)
    \/ \E c \in Calls :
          \/ \E t \in Telegrams :
                \/ \E s \in DOMAIN row : BeginLink(c, s, t)
                \/ Create(c, t, "unknown") \/ PlainStart(c, t)
                \/ \E p \in Phones : Contact(c, t, p)
          \/ Link(c) \/ Issue(c)
          \/ \E s \in DOMAIN row : BeginVerify(c, s)
          \/ Shut(c) \/ Miss(c) \/ Match(c) \/ Conflict(c) \/ Enter(c) \/ Fail(c)

Spec == Init /\ [][Next]_vars

-----------------------------------------------------------------------------
(* However bot and app race on a session, it lets somebody in once at most: *)
(* the user of the number or of the Telegram account that the accepted code *)
(* was sent to. No Telegram account is shared by two users, and no user     *)
(* has two. A code is guessed wrong as often as allowed, and once more for  *)
(* every other request that overlaps (auth.md: max attempts 5); a session   *)
(* with a verdict has ended.                                                *)
LoginsHold ==
    /\ \A i, j \in DOMAIN ins : ins[i].row = ins[j].row => i = j
    /\ \A i \in DOMAIN ins :
          /\ [tg |-> ins[i].tg, phone |-> ins[i].phone] \in codes[ins[i].code].to
          /\ ins[i].user = ins[i].phone
                \/ \E j \in 1 .. i - 1 : ins[j].tg = ins[i].tg /\ ins[j].user = ins[i].user
          /\ row[ins[i].row].consumed
    /\ \A t, u \in Telegrams : account[t] = account[u] => t = u \/ account[t] = None
    /\ \A k \in DOMAIN codes : codes[k].misses < MaxAttempts + Cardinality(Calls)
    /\ \A s \in DOMAIN row : row[s].status \in {"failed", "consumed"} => row[s].consumed
=============================================================================
