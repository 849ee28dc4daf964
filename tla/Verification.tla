---------------------------- MODULE Verification ----------------------------
(* The verification of one user: a selfie, then a document, then a review   *)
(* by the back office that approves or returns it.                          *)
(*                                                                          *)
(* A submission reads the row and the asset and later writes, without a     *)
(* transaction; a review reads in its transaction, where READ COMMITTED     *)
(* does not hold what it read, and deletes the assets it read after its     *)
(* commit, in a step a crash can lose. The notice of an approval is unique  *)
(* to the user and is what keeps the trial from being granted twice.        *)
EXTENDS Integers, FiniteSets

CONSTANTS
    Selfies, Documents,     \* assets the user may upload
    Calls,                  \* calls that may overlap
    MaxCalls,               \* bound on calls
    MaxExpiries             \* bound on approval notices retention deletes

VARIABLES
    stored,     \* MediaAsset rows of the user
    row,        \* UserVerification
    verified,   \* User.verified
    notice,     \* a Notification with key verification:approved:<user> exists
    trials,     \* three day trials granted
    call,       \* per open call: what it has read, and how far it is
    left,       \* calls left
    expired,    \* (history) approval notices deleted by retention
    overtaken,  \* (history) a write relied on a row another had changed
    uploaded    \* (history) assets the user has ever uploaded

vars == <<stored, row, verified, notice, trials, call, left, expired, overtaken,
          uploaded>>

None == "none"
Idle == [op |-> "idle"]
Assets == Selfies \union Documents
Statuses == {"not_started", "selfie_submitted", "under_review", "verified"}

(* A user without a row reads like one who has not started.                 *)
NotStarted == [status |-> "not_started", selfieDone |-> FALSE, selfie |-> None,
               document |-> None]

Init ==
    /\ stored = {}
    /\ row = NotStarted
    /\ verified = FALSE
    /\ notice = FALSE
    /\ trials = 0
    /\ call = [c \in Calls |-> Idle]
    /\ left = MaxCalls
    /\ expired = 0
    /\ overtaken = FALSE
    /\ uploaded = {}

-----------------------------------------------------------------------------
Begin(c, rec) ==
    /\ call[c] = Idle
    /\ left > 0
    /\ left' = left - 1
    /\ call' = [call EXCEPT ![c] = rec]
    /\ UNCHANGED <<stored, row, verified, notice, trials, expired, overtaken, uploaded>>

(* Errors and crashes: what has committed stays, the rest is never done.    *)
Fail(c) ==
    /\ call[c] # Idle
    /\ call' = [call EXCEPT ![c] = Idle]
    /\ UNCHANGED <<stored, row, verified, notice, trials, left, expired,
                   overtaken, uploaded>>

Overtaken(c) == overtaken' = (overtaken \/ row # call[c].saw)

(* createVerificationUploadAsset                                            *)
StoreAsset(a) ==
    /\ a \notin uploaded
    /\ uploaded' = uploaded \union {a}
    /\ stored' = stored \union {a}
    /\ UNCHANGED <<row, verified, notice, trials, call, left, expired, overtaken>>

-----------------------------------------------------------------------------
(* submitVerification *)

(* Slip: a user who is verified already starts over.                        *)
MaySubmitVerified(a) ==
    /\ row.status # "under_review"
    /\ a \in stored
    /\ a \in Documents => row.selfieDone /\ row.selfie # None

MaySubmit(a) ==
    /\ row.status \notin {"verified", "under_review"}
    /\ a \in stored
    /\ a \in Documents => row.selfieDone /\ row.selfie # None

BeginSubmit(c, a) ==
    /\ MaySubmit(a)
    /\ Begin(c, [op |-> "submit", saw |-> row, asset |-> a])

Submitted(a) ==
    IF a \in Selfies
    THEN [status |-> "selfie_submitted", selfieDone |-> TRUE, selfie |-> a,
          document |-> None]
    ELSE [row EXCEPT !.status = "under_review", !.selfieDone = TRUE, !.document = a]

(* The foreign key refuses an asset that is gone.                           *)
Submit(c) ==
    /\ call[c].op = "submit"
    /\ call[c].asset \in stored
    /\ row' = Submitted(call[c].asset)
    /\ Overtaken(c)
    /\ call' = [call EXCEPT ![c] = Idle]
    /\ UNCHANGED <<stored, verified, notice, trials, left, expired, uploaded>>

-----------------------------------------------------------------------------
(* approveVerification and returnVerification *)

BeginReview(c, op) ==
    Begin(c, [op |-> op, saw |-> row, already |-> verified /\ row.status = "verified"])

Seen(c) == {call[c].saw.selfie, call[c].saw.document} \ {None}

Clean(c) == call' = [call EXCEPT ![c] = [op |-> "clean", assets |-> Seen(c)]]

(* Nothing is written for a user who is verified already.                   *)
ApproveAgain(c) ==
    /\ call[c].op = "approve" /\ call[c].already
    /\ Clean(c)
    /\ UNCHANGED <<stored, row, verified, notice, trials, left, expired, overtaken,
                   uploaded>>

(* Slip: the notice carries a key of its own each time.                     *)
NoticeAnew == TRUE

NoticeFree == ~notice

(* User, row, trial and notice commit together: the unique key of the       *)
(* notice rolls all of them back.                                           *)
Approve(c) ==
    /\ call[c].op = "approve" /\ ~call[c].already
    /\ NoticeFree
    /\ verified' = TRUE
    /\ row' = [status |-> "verified", selfieDone |-> TRUE, selfie |-> None,
               document |-> None]
    /\ trials' = trials + 1
    /\ notice' = TRUE
    /\ Overtaken(c)
    /\ Clean(c)
    /\ UNCHANGED <<stored, left, expired, uploaded>>

Return(c) ==
    /\ call[c].op = "return"
    /\ verified' = FALSE
    /\ row' = NotStarted
    /\ Overtaken(c)
    /\ Clean(c)
    /\ UNCHANGED <<stored, notice, trials, left, expired, uploaded>>

(* deleteVerificationAssets: a row that has taken one up loses it.          *)
DeleteAssets(c) ==
    LET gone == call[c].assets
        Keep(a) == IF a \in gone THEN None ELSE a
    IN
    /\ call[c].op = "clean"
    /\ stored' = stored \ gone
    /\ row' = [row EXCEPT !.selfie = Keep(row.selfie), !.document = Keep(row.document)]
    /\ overtaken' = (overtaken \/ row' # row)
    /\ call' = [call EXCEPT ![c] = Idle]
    /\ UNCHANGED <<verified, notice, trials, left, expired, uploaded>>

(* unverifyUser: the status alone.                                          *)
Unverify ==
    /\ left > 0
    /\ left' = left - 1
    /\ verified' = FALSE
    /\ row' = [row EXCEPT !.status = "not_started"]
    /\ UNCHANGED <<stored, notice, trials, call, expired, overtaken, uploaded>>

(* Retention deletes a notice the user has read.                            *)
ExpireNotice ==
    /\ notice
    /\ expired < MaxExpiries
    /\ expired' = expired + 1
    /\ notice' = FALSE
    /\ UNCHANGED <<stored, row, verified, trials, call, left, overtaken, uploaded>>

-----------------------------------------------------------------------------
Next ==
    \/ \E a \in Assets : StoreAsset(a)
    \/ \E c \in Calls :
          \/ \E a \in Assets : BeginSubmit(c, a)
          \/ \E op \in {"approve", "return"} : BeginReview(c, op)
          \/ Submit(c) \/ ApproveAgain(c) \/ Approve(c) \/ Return(c)
          \/ DeleteAssets(c) \/ Fail(c)
    \/ Unverify
    \/ ExpireNotice

Spec == Init /\ [][Next]_vars

-----------------------------------------------------------------------------
TypeOK ==
    /\ stored \subseteq Assets
    /\ row.status \in Statuses
    /\ row.selfie \in Selfies \union {None}
    /\ row.document \in Documents \union {None}
    /\ verified \in BOOLEAN /\ notice \in BOOLEAN
    /\ trials \in Nat

(* However approvals overlap and whatever is returned, unverified and       *)
(* submitted between them, a user gets one trial, and another only after    *)
(* retention has deleted the notice of the last. While no write relies on a *)
(* row that has changed since it was read, the user is verified exactly     *)
(* when the verification is, a verified user's row holds no asset, and one  *)
(* under review holds both.                                                 *)
ReviewHolds ==
    /\ trials <= 1 + expired
    /\ {row.selfie, row.document} \ {None} \subseteq stored
    /\ \/ overtaken
       \/ /\ verified <=> row.status = "verified"
          /\ row.status = "verified" => row.selfie = None /\ row.document = None
          /\ row.status = "under_review" => row.selfie # None /\ row.document # None
=============================================================================
