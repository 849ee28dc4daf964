----------------------------- MODULE OfferCodes -----------------------------
(* The code that a participant of an evening shows at a partner's venue for *)
(* one step's offer: issued once to each participant, good until six in the *)
(* morning after, activated by whoever scans it. Issuing and activating are *)
(* reads followed by writes; each write is guarded by a unique key or by    *)
(* the status it expects.                                                   *)
EXTENDS Integers, FiniteSets

CONSTANTS
    Calls,          \* requests that may overlap
    MaxAttempts,    \* maxActivationAttemptsPerWindow
    MaxCalls,       \* bound on requests
    MaxWindows      \* bound on windows of the rate limit

VARIABLES
    code,       \* status of the PartnerOfferCode row
    over,       \* its expiresAt has passed
    joined,     \* the user is a joined participant of the session
    tracked,    \* partner_offer_activated rows of the analytics
    attempts,   \* the activation bucket of an address in one API process
    call,       \* per open request: what it has read
    left,       \* requests left
    windows,    \* windows left
    used,       \* (history) how often the code has been activated
    told,       \* (history) how often a scanner was told it is activated now
    served,     \* (history) attempts let through in this window
    unsaid      \* (history) an activation whose request failed before the analytics

vars == <<code, over, joined, tracked, attempts, call, left, windows, used, told, served, unsaid>>

Idle == [at |-> "idle"]

Init ==
    /\ code = "none" /\ over = FALSE /\ joined = TRUE
    /\ tracked = 0 /\ attempts = 0
    /\ call = [c \in Calls |-> Idle]
    /\ left = MaxCalls /\ windows = MaxWindows
    /\ used = 0 /\ told = 0 /\ served = 0
    /\ unsaid = FALSE

Begin == left > 0 /\ left' = left - 1

(* resolveStatus                                                            *)
Status == IF code = "issued" /\ over THEN "expired" ELSE code

-----------------------------------------------------------------------------
(* issueCode: a row that is there is answered with as it is.                *)
BeginIssue(c) ==
    /\ call[c] = Idle /\ Begin
    /\ joined /\ code = "none"
    /\ call' = [call EXCEPT ![c] = [at |-> "create"]]
    /\ UNCHANGED <<code, over, joined, tracked, attempts, windows, used, told, served, unsaid>>

(* The unique key of user, session, step and offer lets one row through;    *)
(* the code may be created after it has expired.                            *)
Create(c) ==
    /\ call[c].at = "create"
    /\ code' = IF code = "none" THEN "issued" ELSE code
    /\ call' = [call EXCEPT ![c] = Idle]
    /\ UNCHANGED <<over, joined, tracked, attempts, left, windows, used, told, served, unsaid>>

-----------------------------------------------------------------------------
(* activateCode *)

(* assertActivationRateLimit: refused attempts count as well.               *)
BeginActivate(c) ==
    /\ call[c] = Idle /\ Begin
    /\ attempts' = IF attempts <= MaxAttempts THEN attempts + 1 ELSE attempts
    /\ IF attempts + 1 > MaxAttempts
       THEN UNCHANGED <<call, served>>
       ELSE /\ call' = [call EXCEPT ![c] = [at |-> "look"]]
            /\ served' = served + 1
    /\ UNCHANGED <<code, over, joined, tracked, windows, used, told, unsaid>>

Look(c) ==
    /\ call[c].at = "look"
    /\ call' = [call EXCEPT ![c] =
                   CASE Status = "issued"  -> [at |-> "use"]
                     [] Status = "expired" -> [at |-> "expire"]
                     [] OTHER              -> Idle]
    /\ UNCHANGED <<code, over, joined, tracked, attempts, left, windows, used, told, served, unsaid>>

(* Slip: the update is by id only.                                          *)
UsableById == code # "none"

(* What the conditional updates of activation and expiry ask for.           *)
Usable == code = "issued"

(* markExpired                                                              *)
Expire(c) ==
    /\ call[c].at = "expire"
    /\ code' = IF Usable THEN "expired" ELSE code
    /\ call' = [call EXCEPT ![c] = Idle]
    /\ UNCHANGED <<over, joined, tracked, attempts, left, windows, used, told, served, unsaid>>

(* An update that changes nothing is followed by one more read for the      *)
(* answer.                                                                  *)
Use(c) ==
    /\ call[c].at = "use"
    /\ IF Usable
       THEN /\ code' = "activated"
            /\ used' = used + 1
            /\ call' = [call EXCEPT ![c] = [at |-> "track"]]
       ELSE /\ call' = [call EXCEPT ![c] = Idle]
            /\ UNCHANGED <<code, used>>
    /\ UNCHANGED <<over, joined, tracked, attempts, left, windows, told, served, unsaid>>

(* The row of the analytics, whose failure is only logged, and the answer.  *)
Track(c) ==
    /\ call[c].at = "track"
    /\ \/ tracked' = tracked + 1 /\ UNCHANGED unsaid
       \/ unsaid' = TRUE /\ UNCHANGED tracked
    /\ told' = told + 1
    /\ call' = [call EXCEPT ![c] = Idle]
    /\ UNCHANGED <<code, over, joined, attempts, left, windows, used, served>>

Fail(c) ==
    /\ call[c] # Idle
    /\ call' = [call EXCEPT ![c] = Idle]
    /\ unsaid' = (unsaid \/ call[c].at = "track")
    /\ UNCHANGED <<code, over, joined, tracked, attempts, left, windows, used, told, served>>

-----------------------------------------------------------------------------
(* Six in the morning after the evening's local day.                        *)
EndOfEvening ==
    /\ ~over /\ over' = TRUE
    /\ UNCHANGED <<code, joined, tracked, attempts, call, left, windows, used, told, served, unsaid>>

Leave ==
    /\ joined /\ joined' = FALSE
    /\ UNCHANGED <<code, over, tracked, attempts, call, left, windows, used, told, served, unsaid>>

(* The window has passed, or the process has been replaced.                 *)
NewWindow ==
    /\ attempts > 0 /\ windows > 0 /\ windows' = windows - 1
    /\ attempts' = 0 /\ served' = 0
    /\ UNCHANGED <<code, over, joined, tracked, call, left, used, told, unsaid>>

Next ==
    \/ \E c \in Calls :
          \/ BeginIssue(c) \/ Create(c)
          \/ BeginActivate(c) \/ Look(c) \/ Expire(c) \/ Use(c) \/ Track(c) \/ Fail(c)
    \/ EndOfEvening \/ Leave \/ NewWindow

Spec == Init /\ [][Next]_vars

-----------------------------------------------------------------------------
(* However scans and the end of the evening overlap, a code is activated at *)
(* most once, at most one scanner is told so, and what has been marked as   *)
(* expired stays unused. The partner's statistics count each activation     *)
(* once, or miss it when its request or the row failed.                     *)
CodesHold ==
    /\ used <= 1 /\ told <= used
    /\ (code = "activated") <=> (used = 1)
    /\ code = "expired" => over /\ used = 0
    /\ tracked <= used
    /\ tracked = used \/ unsaid \/ \E c \in Calls : call[c].at = "track"
    /\ served <= MaxAttempts
=============================================================================
