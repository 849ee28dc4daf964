------------------------------ MODULE Partners ------------------------------
(* The account of an organization: registration, sign-in, review by the     *)
(* back office; the partner it acts for; and the meetups it runs in the     *)
(* partner's portal, with one guest who asks for a seat in each.            *)
(*                                                                          *)
(* The guard of the portal reads session and account; what follows acts on  *)
(* that reading. Rotation of refresh tokens is left out (AuthSessions has   *)
(* the app's), as are the portal's communities and plain edits.             *)
EXTENDS Integers, Sequences

CONSTANTS
    Calls,          \* requests that may overlap
    MaxCalls,       \* bound on requests
    MaxPartners     \* bound on partners, MaxPartners \in 1 .. MaxCalls

VARIABLES
    account,    \* PartnerAccount: status and partner, NoAccount for no row
    partners,   \* Partner rows: active, and whether the host user is set
    live,       \* per PartnerSession: not revoked
    meetups,    \* the partner's Event rows
    call,       \* per open request: what it has read
    left,       \* requests left
    hosts,      \* (history) per partner, host users made
    late,       \* (history) sessions of a login that had read before a suspension
    halfway,    \* (history) sessions a suspension has failed to revoke
    crossed,    \* (history) meetups whose request changed under a review
    canceled    \* (history) per meetup, cancellations answered with success

vars == <<account, partners, live, meetups, call, left, hosts, late, halfway, crossed, canceled>>

NoAccount == [status |-> "none", partner |-> 0]
Idle == [at |-> "idle"]

Init ==
    /\ account = NoAccount
    /\ partners = <<>> /\ live = <<>> /\ meetups = <<>>
    /\ call = [c \in Calls |-> Idle]
    /\ left = MaxCalls
    /\ hosts = <<>> /\ late = {} /\ halfway = {} /\ crossed = {} /\ canceled = <<>>

Begin(c, rec) ==
    /\ call[c] = Idle
    /\ left > 0 /\ left' = left - 1
    /\ call' = [call EXCEPT ![c] = rec]
    /\ UNCHANGED <<account, partners, live, meetups, hosts, late, halfway, crossed, canceled>>

End(c) == call' = [call EXCEPT ![c] = Idle]

-----------------------------------------------------------------------------
(* The account *)

BeginRegister(c) == account = NoAccount /\ Begin(c, [at |-> "register"])

(* The unique email lets one registration through.                          *)
Register(c) ==
    /\ call[c].at = "register"
    /\ account' = IF account = NoAccount THEN [account EXCEPT !.status = "pending"] ELSE account
    /\ End(c)
    /\ UNCHANGED <<partners, live, meetups, left, hosts, late, halfway, crossed, canceled>>

BeginLogin(c) ==
    /\ account.status \notin {"none", "suspended"}
    /\ Begin(c, [at |-> "login"])

(* createTokenPair, by what was read before the password was compared.      *)
Login(c) ==
    /\ call[c].at = "login"
    /\ live' = Append(live, TRUE)
    /\ late' = IF account.status = "suspended" THEN late \union {Len(live) + 1} ELSE late
    /\ End(c)
    /\ UNCHANGED <<account, partners, meetups, left, hosts, halfway, crossed, canceled>>

Logout(s) ==
    /\ left > 0 /\ left' = left - 1
    /\ live' = [live EXCEPT ![s] = FALSE]
    /\ UNCHANGED <<account, partners, meetups, call, hosts, late, halfway, crossed, canceled>>

(* approveAccount, whatever the account's status is, for a new partner or   *)
(* for one that is there.                                                   *)
Approve ==
    /\ account # NoAccount
    /\ left > 0 /\ left' = left - 1
    /\ \E p \in 1 .. Len(partners) + 1 :
          /\ p <= MaxPartners
          /\ account' = [status |-> "approved", partner |-> p]
          /\ IF p > Len(partners)
             THEN /\ partners' = Append(partners, [active |-> TRUE, host |-> FALSE])
                  /\ hosts' = Append(hosts, 0)
             ELSE UNCHANGED <<partners, hosts>>
    /\ UNCHANGED <<live, meetups, call, late, halfway, crossed, canceled>>

(* rejectAccount and suspendAccount: the status, then the sessions.         *)
Refuse(c, status) ==
    /\ account # NoAccount
    /\ call[c] = Idle
    /\ left > 0 /\ left' = left - 1
    /\ account' = [account EXCEPT !.status = status]
    /\ call' = [call EXCEPT ![c] = [at |-> "revoke"]]
    /\ UNCHANGED <<partners, live, meetups, hosts, late, halfway, crossed, canceled>>

Revoke(c) ==
    /\ call[c].at = "revoke"
    /\ live' = [s \in DOMAIN live |-> FALSE]
    /\ End(c)
    /\ UNCHANGED <<account, partners, meetups, left, hosts, late, halfway, crossed, canceled>>

(* The back office takes a partner out of use, or back.                     *)
Switch(p) ==
    /\ left > 0 /\ left' = left - 1
    /\ partners' = [partners EXCEPT ![p].active = ~@]
    /\ UNCHANGED <<account, live, meetups, call, hosts, late, halfway, crossed, canceled>>

-----------------------------------------------------------------------------
(* The portal *)

(* PartnerAuthGuard and requireApprovedPartner: an account that has been    *)
(* rejected keeps its partner.                                              *)
Admitted ==
    /\ \E s \in DOMAIN live : live[s]
    /\ account.status # "suspended"
    /\ account.partner # 0

BeginMeetup(c) == Admitted /\ Begin(c, [at |-> "host", partner |-> account.partner])

(* ensurePartnerHostUser: what the transaction reads.                       *)
ReadHost(c) ==
    /\ call[c].at = "host"
    /\ LET p == call[c].partner IN
       IF partners[p].active
       THEN call' = [call EXCEPT ![c] = [at |-> "meetup", partner |-> p, make |-> ~partners[p].host]]
       ELSE End(c)
    /\ UNCHANGED <<account, partners, live, meetups, left, hosts, late, halfway, crossed, canceled>>

(* Slip: the host user's id is random.                                      *)
TakenNever(p) == FALSE

(* The host user's id is made of the partner's; creating it twice fails.    *)
Taken(p) == partners[p].host

(* createMeetup: its transaction from there on.                             *)
CreateMeetup(c) ==
    /\ call[c].at = "meetup"
    /\ LET p == call[c].partner IN
       IF call[c].make /\ Taken(p)
       THEN UNCHANGED <<partners, meetups, hosts, canceled>>
       ELSE /\ partners' = [partners EXCEPT ![p].host = TRUE]
            /\ hosts' = IF call[c].make THEN [hosts EXCEPT ![p] = @ + 1] ELSE hosts
            /\ meetups' = Append(meetups, [partner |-> p, canceled |-> FALSE, request |-> "none",
                                           seat |-> FALSE, member |-> FALSE])
            /\ canceled' = Append(canceled, 0)
    /\ End(c)
    /\ UNCHANGED <<account, live, left, late, halfway, crossed>>

(* reviewMeetupJoinRequest: a canceled meetup's requests, too.              *)
BeginReview(c, m, verdict) ==
    /\ Admitted /\ meetups[m].partner = account.partner
    /\ meetups[m].request = "pending"
    /\ Begin(c, [at |-> "review", meetup |-> m, verdict |-> verdict])

Review(c) ==
    /\ call[c].at = "review"
    /\ LET m == call[c].meetup
           yes == call[c].verdict = "approved"
       IN  /\ meetups' = [meetups EXCEPT ![m].request = call[c].verdict,
                                         ![m].seat = @ \/ yes, ![m].member = @ \/ yes]
           /\ crossed' = IF meetups[m].request # "pending" THEN crossed \union {m} ELSE crossed
    /\ End(c)
    /\ UNCHANGED <<account, partners, live, left, hosts, late, halfway, canceled>>

BeginCancel(c, m) ==
    /\ Admitted /\ meetups[m].partner = account.partner
    /\ Begin(c, [at |-> "cancel", meetup |-> m])

(* Slip: the update is by id.                                               *)
StandingAnyhow(m) == TRUE

Standing(m) == ~meetups[m].canceled

(* cancelMeetup: an update on a condition.                                  *)
CancelMeetup(c) ==
    /\ call[c].at = "cancel"
    /\ LET m == call[c].meetup IN
       IF Standing(m)
       THEN /\ meetups' = [meetups EXCEPT ![m].canceled = TRUE]
            /\ canceled' = [canceled EXCEPT ![m] = @ + 1]
       ELSE UNCHANGED <<meetups, canceled>>
    /\ End(c)
    /\ UNCHANGED <<account, partners, live, left, hosts, late, halfway, crossed>>

-----------------------------------------------------------------------------
(* The guest, whose asking is one step here (MeetupMembership has more)     *)

Ask(m) ==
    /\ ~meetups[m].canceled /\ ~meetups[m].seat
    /\ meetups[m].request \notin {"pending", "approved"}
    /\ left > 0 /\ left' = left - 1
    /\ meetups' = [meetups EXCEPT ![m].request = "pending"]
    /\ UNCHANGED <<account, partners, live, call, hosts, late, halfway, crossed, canceled>>

BeginWithdraw(c, m) ==
    /\ meetups[m].request = "pending"
    /\ Begin(c, [at |-> "withdraw", meetup |-> m])

(* cancelJoinRequest writes by id, whatever the verdict is by now.          *)
Withdraw(c) ==
    /\ call[c].at = "withdraw"
    /\ LET m == call[c].meetup IN
       /\ meetups' = [meetups EXCEPT ![m].request = "canceled"]
       /\ crossed' = IF meetups[m].request # "pending" THEN crossed \union {m} ELSE crossed
    /\ End(c)
    /\ UNCHANGED <<account, partners, live, left, hosts, late, halfway, canceled>>

-----------------------------------------------------------------------------
(* A crash or an error between two commits of a request.                    *)
Fail(c) ==
    /\ call[c] # Idle
    /\ End(c)
    /\ halfway' = IF call[c].at = "revoke"
                  THEN halfway \union {s \in DOMAIN live : live[s]} ELSE halfway
    /\ UNCHANGED <<account, partners, live, meetups, left, hosts, late, crossed, canceled>>

Next ==
    \/ \E c \in Calls :
          \/ BeginRegister(c) \/ Register(c)
          \/ BeginLogin(c) \/ Login(c)
          \/ \E status \in {"rejected", "suspended"} : Refuse(c, status)
          \/ Revoke(c)
          \/ BeginMeetup(c) \/ ReadHost(c) \/ CreateMeetup(c)
          \/ \E m \in DOMAIN meetups, v \in {"approved", "rejected"} : BeginReview(c, m, v)
          \/ Review(c)
          \/ \E m \in DOMAIN meetups : BeginCancel(c, m) \/ BeginWithdraw(c, m)
          \/ CancelMeetup(c) \/ Withdraw(c) \/ Fail(c)
    \/ \E s \in DOMAIN live : Logout(s)
    \/ Approve
    \/ \E p \in DOMAIN partners : Switch(p)
    \/ \E m \in DOMAIN meetups : Ask(m)

Spec == Init /\ [][Next]_vars

-----------------------------------------------------------------------------
(* A suspended account has no session left, but for one whose login had     *)
(* read the account before, and those a suspension that failed has left; no *)
(* session is made for an account nobody has registered. A partner has one  *)
(* host user, who hosts its meetups. Whoever has a seat in a meetup is in   *)
(* its chat and has been approved, unless two verdicts, or a verdict and a  *)
(* withdrawal, have crossed; and nobody is told twice that a meetup is      *)
(* canceled.                                                                *)
PartnersHold ==
    /\ live # <<>> => account # NoAccount
    /\ account.status = "suspended" /\ ~(\E c \in Calls : call[c].at = "revoke") =>
          \A s \in DOMAIN live : live[s] => s \in late \union halfway
    /\ \A p \in DOMAIN partners : hosts[p] = (IF partners[p].host THEN 1 ELSE 0)
    /\ \A m \in DOMAIN meetups :
          /\ partners[meetups[m].partner].host
          /\ meetups[m].seat <=> meetups[m].member
          /\ meetups[m].request = "approved" => meetups[m].seat
          /\ meetups[m].seat => meetups[m].request = "approved" \/ m \in crossed
          /\ canceled[m] = (IF meetups[m].canceled THEN 1 ELSE 0)
=============================================================================
