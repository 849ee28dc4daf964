---------------------------- MODULE AuthSessions ----------------------------
(* One phone number: the codes sent to it, the sessions they start, the     *)
(* rotation of a session's refresh token, and the cache of sessions the     *)
(* guard of every request reads.                                            *)
(*                                                                          *)
(* A code reaches the phone before the challenge that checks it is written. *)
(* Claims and rotations read first and then update on a condition. An       *)
(* answer may be lost after its commit. A load of the cache may outlast the *)
(* logout that clears it.                                                   *)
EXTENDS Integers, Sequences

CONSTANTS
    Calls,          \* calls that may overlap
    MaxCalls,       \* bound on calls
    MaxTimers       \* bound on expiries and ends of cooldowns

VARIABLES
    challenge,  \* PhoneOtpChallenge rows, oldest first
    sent,       \* codes sent; a code is its number
    session,    \* Session rows: token, revoked, and the challenge it came from
    minted,     \* refresh tokens made; a token is its number
    held,       \* refresh tokens the client has received
    cached,     \* sessions in the guard's cache, which holds live ones only
    call,       \* per open call: what it has read, and how far it is
    left,       \* calls left
    timers,     \* expiries and ends of cooldowns so far
    used,       \* (history) codes that started a session
    crossed,    \* (history) challenges that changed under a request or a claim
    lost,       \* (history) sessions an answer of which was lost
    honoured,   \* (history) refresh tokens, each with its successor
    closed,     \* (history) sessions whose logout has cleared the cache
    raced       \* (history) of these, the ones a late load has cached again

vars == <<challenge, sent, session, minted, held, cached, call, left, timers,
          used, crossed, lost, honoured, closed, raced>>
codeVars == <<challenge, sent, used, crossed>>
tokenVars == <<session, minted, held, lost, honoured>>
cacheVars == <<cached, closed, raced>>

Idle == [op |-> "idle", step |-> "idle"]

Init ==
    /\ challenge = <<>> /\ sent = 0
    /\ session = <<>> /\ minted = 0 /\ held = {}
    /\ cached = {}
    /\ call = [c \in Calls |-> Idle]
    /\ left = MaxCalls
    /\ timers = 0
    /\ used = {} /\ crossed = {} /\ lost = {} /\ honoured = {}
    /\ closed = {} /\ raced = {}

-----------------------------------------------------------------------------
Begin(c, rec) ==
    /\ call[c] = Idle
    /\ left > 0
    /\ left' = left - 1
    /\ call' = [call EXCEPT ![c] = rec]

To(c, rec) ==
    /\ call' = [call EXCEPT ![c] = rec]
    /\ UNCHANGED left

(* Errors and crashes; after a commit the answer is lost.                   *)
Fail(c) ==
    /\ call[c] # Idle
    /\ To(c, Idle)
    /\ lost' = IF call[c].step = "answer" THEN lost \union {call[c].session} ELSE lost
    /\ UNCHANGED <<session, minted, held, honoured, timers>>
    /\ UNCHANGED codeVars /\ UNCHANGED cacheVars

Tick ==
    /\ timers < MaxTimers
    /\ timers' = timers + 1
    /\ UNCHANGED <<call, left>>

-----------------------------------------------------------------------------
(* requestPhoneCode *)

Active == {i \in DOMAIN challenge : ~challenge[i].consumed /\ ~challenge[i].expired}

(* The newest one that can still be used, 0 for none.                       *)
Newest == IF Active = {} THEN 0
          ELSE CHOOSE i \in Active : \A j \in Active : j <= i

BeginRequest(c) ==
    /\ Newest # 0 => ~challenge[Newest].cooling
    /\ Begin(c, [op |-> "request", step |-> "send", at |-> Newest,
                 saw |-> IF Newest = 0 THEN 0 ELSE challenge[Newest].code])
    /\ UNCHANGED timers
    /\ UNCHANGED codeVars /\ UNCHANGED tokenVars /\ UNCHANGED cacheVars

Send(c) ==
    /\ call[c].op = "request" /\ call[c].step = "send"
    /\ sent' = sent + 1
    /\ To(c, [op |-> "request", step |-> "write", at |-> call[c].at,
              saw |-> call[c].saw, code |-> sent + 1])
    /\ UNCHANGED <<challenge, used, crossed, timers>>
    /\ UNCHANGED tokenVars /\ UNCHANGED cacheVars

(* An active challenge takes the new code, whatever has become of it.       *)
Issue(c) ==
    LET i == call[c].at
        fresh == [code |-> call[c].code, consumed |-> FALSE, expired |-> FALSE,
                  cooling |-> TRUE]
    IN
    /\ call[c].op = "request" /\ call[c].step = "write"
    /\ IF i = 0
       THEN /\ challenge' = Append(challenge, fresh)
            /\ UNCHANGED crossed
       ELSE /\ challenge' = [challenge EXCEPT ![i] =
                                [fresh EXCEPT !.consumed = challenge[i].consumed]]
            /\ crossed' = IF challenge[i].consumed \/ challenge[i].code # call[c].saw
                          THEN crossed \union {i} ELSE crossed
    /\ To(c, Idle)
    /\ UNCHANGED <<sent, used, timers>>
    /\ UNCHANGED tokenVars /\ UNCHANGED cacheVars

(* The cooldown of a challenge ends, then its code expires.                 *)
Cool(i) ==
    /\ Tick
    /\ \/ /\ challenge[i].cooling
          /\ challenge' = [challenge EXCEPT ![i].cooling = FALSE]
       \/ /\ ~challenge[i].cooling /\ ~challenge[i].expired
          /\ challenge' = [challenge EXCEPT ![i].expired = TRUE]
    /\ UNCHANGED <<sent, used, crossed>>
    /\ UNCHANGED tokenVars /\ UNCHANGED cacheVars

-----------------------------------------------------------------------------
(* verifyPhoneCode, one transaction. The error that reports a wrong code    *)
(* rolls back what it has written, so only the right code is a step.        *)

BeginVerify(c, i) ==
    /\ i \in Active
    /\ Begin(c, [op |-> "verify", step |-> "claim", at |-> i, code |-> challenge[i].code])
    /\ UNCHANGED timers
    /\ UNCHANGED codeVars /\ UNCHANGED tokenVars /\ UNCHANGED cacheVars

(* Slip: the claim trusts the challenge as it was read.                     *)
ClaimableAsRead(i) == TRUE

Claimable(i) == i \in Active

(* The challenge is consumed and the session created.                       *)
Claim(c) ==
    LET i == call[c].at IN
    /\ call[c].op = "verify" /\ call[c].step = "claim"
    /\ Claimable(i)
    /\ challenge' = [challenge EXCEPT ![i].consumed = TRUE]
    /\ used' = used \union {call[c].code}
    /\ crossed' = IF challenge[i].code # call[c].code THEN crossed \union {i} ELSE crossed
    /\ session' = Append(session, [token |-> minted + 1, revoked |-> FALSE, from |-> i])
    /\ minted' = minted + 1
    /\ To(c, [op |-> "verify", step |-> "answer", session |-> Len(session) + 1,
              token |-> minted + 1])
    /\ UNCHANGED <<sent, held, lost, honoured, timers>>
    /\ UNCHANGED cacheVars

(* The answer reaches the client.                                           *)
Receive(c) ==
    /\ call[c].step = "answer"
    /\ held' = held \union {call[c].token}
    /\ To(c, Idle)
    /\ UNCHANGED <<session, minted, lost, honoured, timers>>
    /\ UNCHANGED codeVars /\ UNCHANGED cacheVars

-----------------------------------------------------------------------------
(* refreshSession *)

BeginRefresh(c, s, t) ==
    /\ t \in held
    /\ session[s].token = t /\ ~session[s].revoked
    /\ Begin(c, [op |-> "refresh", step |-> "rotate", session |-> s, token |-> t])
    /\ UNCHANGED timers
    /\ UNCHANGED codeVars /\ UNCHANGED tokenVars /\ UNCHANGED cacheVars

(* Slip: the update names the session only.                                 *)
CurrentAsRead(s, t) == ~session[s].revoked

Current(s, t) == ~session[s].revoked /\ session[s].token = t

Rotate(c) ==
    LET s == call[c].session IN
    /\ call[c].op = "refresh" /\ call[c].step = "rotate"
    /\ Current(s, call[c].token)
    /\ session' = [session EXCEPT ![s].token = minted + 1]
    /\ minted' = minted + 1
    /\ honoured' = honoured \union {<<call[c].token, minted + 1>>}
    /\ To(c, [op |-> "refresh", step |-> "answer", session |-> s, token |-> minted + 1])
    /\ UNCHANGED <<held, lost, timers>>
    /\ UNCHANGED codeVars /\ UNCHANGED cacheVars

-----------------------------------------------------------------------------
(* logout, suspendUser, and the guard's cache                               *)

Logout(c, s) ==
    /\ Begin(c, [op |-> "logout", step |-> "uncache", session |-> s])
    /\ session' = [session EXCEPT ![s].revoked = TRUE]
    /\ UNCHANGED <<minted, held, lost, honoured, timers>>
    /\ UNCHANGED codeVars /\ UNCHANGED cacheVars

Uncache(c) ==
    /\ call[c].step = "uncache"
    /\ cached' = cached \ {call[c].session}
    /\ closed' = closed \union {call[c].session}
    /\ raced' = raced \ {call[c].session}
    /\ To(c, Idle)
    /\ UNCHANGED timers
    /\ UNCHANGED codeVars /\ UNCHANGED tokenVars

(* Every session is revoked; the cache is left to expire.                   *)
Suspend ==
    /\ left > 0
    /\ left' = left - 1
    /\ session' = [s \in DOMAIN session |-> [session[s] EXCEPT !.revoked = TRUE]]
    /\ UNCHANGED <<minted, held, lost, honoured, timers, call>>
    /\ UNCHANGED codeVars /\ UNCHANGED cacheVars

BeginLoad(c, s) ==
    /\ s \notin cached /\ ~session[s].revoked
    /\ Begin(c, [op |-> "load", step |-> "cache", session |-> s])
    /\ UNCHANGED timers
    /\ UNCHANGED codeVars /\ UNCHANGED tokenVars /\ UNCHANGED cacheVars

Load(c) ==
    LET s == call[c].session IN
    /\ call[c].step = "cache"
    /\ cached' = cached \union {s}
    /\ raced' = IF s \in closed THEN raced \union {s} ELSE raced
    /\ To(c, Idle)
    /\ UNCHANGED <<closed, timers>>
    /\ UNCHANGED codeVars /\ UNCHANGED tokenVars

ExpireCached(s) ==
    /\ s \in cached
    /\ Tick
    /\ cached' = cached \ {s}
    /\ raced' = raced \ {s}
    /\ UNCHANGED closed
    /\ UNCHANGED codeVars /\ UNCHANGED tokenVars

-----------------------------------------------------------------------------
Next ==
    \/ \E c \in Calls :
          \/ BeginRequest(c) \/ Send(c) \/ Issue(c) \/ Claim(c) \/ Receive(c)
          \/ Rotate(c) \/ Uncache(c) \/ Load(c) \/ Fail(c)
          \/ \E i \in DOMAIN challenge : BeginVerify(c, i)
          \/ \E s \in DOMAIN session :
                \/ Logout(c, s) \/ BeginLoad(c, s)
                \/ \E t \in held : BeginRefresh(c, s, t)
    \/ \E i \in DOMAIN challenge : Cool(i)
    \/ \E s \in DOMAIN session : ExpireCached(s)
    \/ Suspend

Spec == Init /\ [][Next]_vars

-----------------------------------------------------------------------------
TypeOK ==
    /\ sent \in Nat /\ minted \in Nat
    /\ held \subseteq 1 .. minted
    /\ cached \subseteq DOMAIN session
    /\ \A s \in DOMAIN session : session[s].token \in 1 .. minted

InFlight == {call[c].token : c \in {d \in Calls : call[d].step = "answer"}}

(* However verifications, refreshes and logouts overlap: a challenge starts *)
(* one session; a refresh token is honoured once; somebody holds the        *)
(* current token of a live session unless an answer was lost; a challenge   *)
(* is used up by the code it holds, unless a request wrote a new code while *)
(* it was being used; and a session that has been logged out is in the      *)
(* cache only if a load that had read it before stored it afterwards.       *)
SessionsHold ==
    /\ \A s, t \in DOMAIN session : session[s].from = session[t].from => s = t
    /\ \A p, q \in honoured : p[1] = q[1] => p = q
    /\ \A s \in DOMAIN session :
          session[s].revoked \/ s \in lost \/ session[s].token \in held \union InFlight
    /\ \A i \in DOMAIN challenge :
          challenge[i].consumed => challenge[i].code \in used \/ i \in crossed
    /\ cached \intersect closed \subseteq raced
=============================================================================
