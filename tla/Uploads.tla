------------------------------ MODULE Uploads -------------------------------
(* Images that clients have uploaded, and the smaller variants a worker     *)
(* makes of each: the completion of an upload, which writes the asset and   *)
(* the event for the worker in two commits or in one, the worker's handler  *)
(* with its attempts, and the scan that later fills in what is missing.     *)
(*                                                                          *)
(* Claims and leases of events are those of Outbox; a handler that crashes  *)
(* is one whose event is still pending.                                     *)
EXTENDS Integers, Sequences, FiniteSets, Functions

CONSTANTS
    Keys,           \* objects in storage
    Calls,          \* completions that may overlap
    MaxAttempts,    \* OUTBOX_MAX_ATTEMPTS
    Batch,          \* mediaVariantBackfillBatchSize
    MaxCalls,       \* bound on completions
    MaxScans        \* bound on scans

VARIABLES
    asset,      \* MediaAsset rows by updatedAt, oldest first
    whole,      \* assets with all variants
    pending,    \* attempts made for each pending media.finalize event
    call,       \* per open completion: how far it is
    scan,       \* targets the running scan has left
    left,       \* completions left
    scans,      \* scans left
    deleted,    \* (history) keys whose asset has been deleted
    missed      \* (history) images a crash, a failure or the last attempt left out

vars == <<asset, whole, pending, call, scan, left, scans, deleted, missed>>

Idle == [at |-> 0]

(* The rows without that of k.                                              *)
Without(k) ==
    LET i == CHOOSE j \in DOMAIN asset : asset[j] = k IN
    SubSeq(asset, 1, i - 1) \o SubSeq(asset, i + 1, Len(asset))

(* An image that has been left out, unless it has its variants already.     *)
Missed(k) == IF k \in whole THEN missed ELSE missed \union {k}

Init ==
    /\ asset = <<>> /\ whole = {}
    /\ pending = <<>>
    /\ call = [c \in Calls |-> Idle]
    /\ scan = <<>>
    /\ left = MaxCalls /\ scans = MaxScans
    /\ deleted = {} /\ missed = {}

-----------------------------------------------------------------------------
(* Completing an upload *)

(* Slip: the event is queued before the asset is created.                   *)
EventFirst == <<"queue", "create">>

Steps == <<"create", "queue">>

(* The object has been uploaded; a row that exists already answers at once. *)
BeginComplete(c, k) ==
    /\ call[c] = Idle
    /\ left > 0 /\ left' = left - 1
    /\ k \notin Range(asset) \union deleted
    /\ call' = [call EXCEPT ![c] = [at |-> 1, key |-> k]]
    /\ UNCHANGED <<asset, whole, pending, scan, scans, deleted, missed>>

Further(c) ==
    call' = [call EXCEPT ![c] = IF call[c].at = Len(Steps) THEN Idle
                                ELSE [call[c] EXCEPT !.at = @ + 1]]

Create(c) ==
    LET k == call[c].key IN
    /\ call[c].at # 0 /\ Steps[call[c].at] = "create"
    /\ k \notin Range(asset) \union deleted
    /\ asset' = Append(asset, k)
    /\ Further(c)
    /\ UNCHANGED <<whole, pending, scan, left, scans, deleted, missed>>

(* The unique key refuses the row: the existing one answers, and the event  *)
(* is left to the call that created it.                                     *)
Existing(c) ==
    /\ call[c].at # 0 /\ Steps[call[c].at] = "create"
    /\ call[c].key \in Range(asset)
    /\ call' = [call EXCEPT ![c] = Idle]
    /\ UNCHANGED <<asset, whole, pending, scan, left, scans, deleted, missed>>

(* queueMediaFinalizeForImage                                               *)
Queue(c) ==
    LET k == call[c].key IN
    /\ call[c].at # 0 /\ Steps[call[c].at] = "queue"
    /\ pending' = [x \in DOMAIN pending \union {k} |->
                      IF x = k THEN 0 ELSE pending[x]]
    /\ Further(c)
    /\ UNCHANGED <<asset, whole, scan, left, scans, deleted, missed>>

(* A crash or an error; after the row is written, the event never comes.    *)
Fail(c) ==
    /\ call[c] # Idle
    /\ call' = [call EXCEPT ![c] = Idle]
    /\ missed' = IF Steps[call[c].at] = "queue" /\ call[c].key \in Range(asset)
                 THEN Missed(call[c].key) ELSE missed
    /\ UNCHANGED <<asset, whole, pending, scan, left, scans, deleted>>

(* Photos of a profile: asset and event are one transaction.                *)
CompletePhoto(k) ==
    /\ left > 0 /\ left' = left - 1
    /\ k \notin Range(asset) \union deleted
    /\ asset' = Append(asset, k)
    /\ pending' = [x \in DOMAIN pending \union {k} |->
                      IF x = k THEN 0 ELSE pending[x]]
    /\ UNCHANGED <<whole, call, scan, scans, deleted, missed>>

(* The row is deleted, its event stays.                                     *)
Delete(k) ==
    /\ k \in Range(asset)
    /\ asset' = Without(k)
    /\ whole' = whole \ {k}
    /\ deleted' = deleted \union {k}
    /\ UNCHANGED <<pending, call, scan, left, scans, missed>>

-----------------------------------------------------------------------------
(* handleMediaFinalize *)

(* Slip: an attempt that made none empties the variants there are.          *)
VariantsOverwritten(k, made) == IF made THEN whole \union {k} ELSE whole \ {k}

Variants(k, made) == IF made THEN whole \union {k} ELSE whole

(* The row is updated, whether its variants could be made or not: no error  *)
(* tells the two apart. A deleted row is passed over.                       *)
Finalized(k, made) ==
    IF k \in Range(asset)
    THEN /\ asset' = Append(Without(k), k)
         /\ whole' = Variants(k, made)
         /\ missed' = IF made THEN missed \ {k} ELSE Missed(k)
    ELSE UNCHANGED <<asset, whole, missed>>

Dequeued(k) == [x \in DOMAIN pending \ {k} |-> pending[x]]

Finalize(k) ==
    /\ k \in DOMAIN pending
    /\ \E made \in BOOLEAN : Finalized(k, made)
    /\ pending' = Dequeued(k)
    /\ UNCHANGED <<call, scan, left, scans, deleted>>

(* The worker stops before the update, or between it and the end of the     *)
(* event; the claim has counted the attempt.                                *)
FinalizeCrash(k) ==
    /\ k \in DOMAIN pending
    /\ \/ \E made \in BOOLEAN : Finalized(k, made)
       \/ UNCHANGED <<asset, whole, missed>>
    /\ pending' = [pending EXCEPT ![k] = IF @ + 1 < MaxAttempts THEN @ + 1 ELSE @]
    /\ UNCHANGED <<call, scan, left, scans, deleted>>

(* The object cannot be read, or the database is away.                      *)
FinalizeError(k) ==
    /\ k \in DOMAIN pending \intersect Range(asset)
    /\ IF pending[k] + 1 >= MaxAttempts
       THEN /\ pending' = Dequeued(k)
            /\ missed' = Missed(k)
       ELSE /\ pending' = [pending EXCEPT ![k] = @ + 1]
            /\ UNCHANGED missed
    /\ UNCHANGED <<asset, whole, call, scan, left, scans, deleted>>

-----------------------------------------------------------------------------
(* runMediaVariantBackfillScan: of the oldest rows, those without variants. *)

Oldest == SubSeq(asset, 1, IF Len(asset) < 3 * Batch THEN Len(asset) ELSE 3 * Batch)
Targets == LET s == SelectSeq(Oldest, LAMBDA k : k \notin whole)
           IN SubSeq(s, 1, IF Len(s) < Batch THEN Len(s) ELSE Batch)

BeginScan ==
    /\ scan = <<>>
    /\ Targets # <<>>
    /\ scans > 0 /\ scans' = scans - 1
    /\ scan' = Targets
    /\ UNCHANGED <<asset, whole, pending, call, left, deleted, missed>>

ScanOne ==
    /\ scan # <<>>
    /\ \E made \in BOOLEAN : Finalized(Head(scan), made)
    /\ scan' = Tail(scan)
    /\ UNCHANGED <<pending, call, left, scans, deleted>>

(* One target's error ends the scan.                                        *)
ScanError ==
    /\ scan # <<>>
    /\ scan' = <<>>
    /\ UNCHANGED <<asset, whole, pending, call, left, scans, deleted, missed>>

-----------------------------------------------------------------------------
Next ==
    \/ \E c \in Calls :
          \/ \E k \in Keys : BeginComplete(c, k)
          \/ Create(c) \/ Existing(c) \/ Queue(c) \/ Fail(c)
    \/ \E k \in Keys :
          \/ CompletePhoto(k) \/ Delete(k)
          \/ Finalize(k) \/ FinalizeCrash(k) \/ FinalizeError(k)
    \/ BeginScan \/ ScanOne \/ ScanError

Spec == Init /\ [][Next]_vars

-----------------------------------------------------------------------------
TypeOK ==
    /\ Range(asset) \subseteq Keys
    /\ IsInjective(asset)
    /\ whole \subseteq Range(asset)
    /\ DOMAIN pending \subseteq Keys
    /\ \A k \in DOMAIN pending : pending[k] \in 0 .. MaxAttempts - 1
    /\ missed \subseteq Keys

Queueing == {call[c].key : c \in {d \in Calls : call[d] # Idle}}

(* However completions, retries, the worker's attempts, deletions and the   *)
(* scan overlap, an image without variants is one that is still being       *)
(* completed, one whose event is pending, or one that a crash between the   *)
(* two commits, a failed conversion or the last attempt left out; a later   *)
(* attempt never takes variants away.                                       *)
ImagesAccounted ==
    \A k \in Range(asset) :
        \/ k \in whole /\ k \notin missed
        \/ k \notin whole /\ k \in Queueing \union DOMAIN pending \union missed
=============================================================================
