--------------------------- MODULE ProfilePhotos ----------------------------
(* The photos of a profile, their order, and the avatar, which is to be the *)
(* first of them: uploading, putting first, reordering, deleting, and the   *)
(* older endpoint that sets an avatar apart from the photos.                *)
(*                                                                          *)
(* Each transaction is READ COMMITTED and is told in its statements' order: *)
(* it reads, it writes the photos and picks the first of them, it writes    *)
(* the profile and commits. Only uploads lock the profile beforehand. A     *)
(* key names an object in storage, the asset made of it and its photo.      *)
EXTENDS Integers, FiniteSets, Sequences, Functions

CONSTANTS
    Keys,
    Calls,          \* calls that may overlap
    MaxCalls        \* bound on calls

VARIABLES
    asset,      \* keys with a MediaAsset row
    photo,      \* ProfilePhoto: from keys to sortOrder
    avatar,     \* Profile.avatarAssetId
    call,       \* per open call: what it has read, and how far it is
    left,       \* calls left
    apart,      \* (history) the avatar was last set apart from the photos
    doubt,      \* (history) the last write of the avatar had been overtaken
    disorder    \* (history) the same of the last numbering of all photos

vars == <<asset, photo, avatar, call, left, apart, doubt, disorder>>
history == <<apart, doubt, disorder>>

None == "none"
Idle == [op |-> "idle", step |-> "idle"]

(* Photos with the lowest sortOrder; equal ones come in any order.          *)
Firsts(p) ==
    IF DOMAIN p = {} THEN {None}
    ELSE {k \in DOMAIN p : \A j \in DOMAIN p : p[k] <= p[j]}

(* The sequences that hold each of S once.                                  *)
SetToSeqs(S) == {s \in [1 .. Cardinality(S) -> S] : IsInjective(s)}

(* Photos K as ordered by sortOrder, each order that ties allow.            *)
Ordered(s, from) ==
    \A i, j \in from .. Len(s) : i < j => photo[s[i]] <= photo[s[j]]

Orders(K) == {s \in SetToSeqs(K) : Ordered(s, 1)}

Numbered(s) == [k \in Range(s) |-> CHOOSE i \in 0 .. Len(s) - 1 : s[i + 1] = k]

Init ==
    /\ asset = {}
    /\ photo = <<>>
    /\ avatar = None
    /\ call = [c \in Calls |-> Idle]
    /\ left = MaxCalls
    /\ apart = FALSE
    /\ doubt = FALSE
    /\ disorder = FALSE

-----------------------------------------------------------------------------
(* Transactions *)

Begin(c, rec) ==
    /\ call[c] = Idle
    /\ left > 0
    /\ left' = left - 1
    /\ call' = [call EXCEPT ![c] = rec]
    /\ UNCHANGED <<asset, photo, avatar>>
    /\ UNCHANGED history

(* A commit of c: whoever is on his way has been overtaken.                 *)
Commit(c) ==
    call' = [d \in Calls |-> IF d = c \/ call[d] = Idle THEN Idle
                             ELSE [call[d] EXCEPT !.alone = FALSE]]

(* The profile is locked to the end by an upload's FOR UPDATE, or by a      *)
(* deletion that has emptied the avatar.                                    *)
Locked(c) == \E d \in Calls \ {c} :
    call[d].step = "locked" \/ (call[d].step = "picked" /\ call[d].empties)

(* Photos another transaction has written and not committed.                *)
Held == UNION {call[d].rows : d \in {e \in Calls : call[e].step = "picked"}}

(* Errors: a missing row, a victim of a deadlock. Nothing is left behind.   *)
Fail(c) ==
    /\ call[c] # Idle
    /\ call' = [call EXCEPT ![c] = Idle]
    /\ UNCHANGED <<asset, photo, avatar, left>>
    /\ UNCHANGED history

-----------------------------------------------------------------------------
(* Uploads. completeProfilePhotoUpload finds an object that is complete; a  *)
(* second call that comes between finds the key taken.                      *)

BeginStore(c, k) ==
    /\ k \notin asset
    /\ Begin(c, [op |-> "store", step |-> "begun", key |-> k, last |-> 0, alone |-> TRUE])

BeginUpload(c, k) ==
    /\ k \notin asset
    /\ Begin(c, [op |-> "upload", step |-> "begun", key |-> k, last |-> 0, alone |-> TRUE])

Highest(p) == IF DOMAIN p = {} THEN -1
              ELSE CHOOSE n \in Range(p) : \A m \in Range(p) : m <= n

(* Slip: the profile is not locked.                                         *)
LockFree(c) == TRUE

MayLock(c) == ~Locked(c)

(* The profile is locked, then the last photo is read.                      *)
Lock(c) ==
    /\ call[c].step = "begun" /\ call[c].op \in {"store", "upload"}
    /\ MayLock(c)
    /\ call' = [call EXCEPT ![c].step = "locked", ![c].last = Highest(photo)]
    /\ UNCHANGED <<asset, photo, avatar, left>>
    /\ UNCHANGED history

(* _storeProfilePhotoAsset: behind the last, and the avatar follows.        *)
Store(c) ==
    LET k == call[c].key
        p == [x \in DOMAIN photo \union {k} |-> IF x = k THEN call[c].last + 1 ELSE photo[x]]
    IN
    /\ call[c].op = "store" /\ call[c].step = "locked"
    /\ k \notin asset
    /\ asset' = asset \union {k}
    /\ photo' = p
    /\ avatar' \in Firsts(p)
    /\ apart' = FALSE
    /\ doubt' = FALSE
    /\ Commit(c)
    /\ UNCHANGED <<left, disorder>>

(* uploadAvatarFile: all others move back by one.                           *)
Upload(c) ==
    LET k == call[c].key IN
    /\ call[c].op = "upload" /\ call[c].step = "locked"
    /\ Held = {}
    /\ k \notin asset
    /\ asset' = asset \union {k}
    /\ photo' = [x \in DOMAIN photo \union {k} |-> IF x = k THEN 0 ELSE photo[x] + 1]
    /\ avatar' = k
    /\ apart' = FALSE
    /\ doubt' = FALSE
    /\ Commit(c)
    /\ UNCHANGED <<left, disorder>>

-----------------------------------------------------------------------------
(* makePrimaryPhoto, reorderProfilePhotos and deleteProfilePhoto            *)

Reading(op, order, k) ==
    [op |-> op, step |-> "read", order |-> order, key |-> k, empties |-> op = "delete" /\ avatar = k,
     rows |-> {}, first |-> None, alone |-> TRUE]

(* The new order is fixed by what is read: k, then the others as they were. *)
BeginPrimary(c, k) ==
    /\ k \in DOMAIN photo
    /\ \E s \in SetToSeqs(DOMAIN photo) :
          s[1] = k /\ Ordered(s, 2) /\ Begin(c, Reading("order", s, k))

BeginReorder(c, s) ==
    /\ DOMAIN photo # {}
    /\ s \in SetToSeqs(DOMAIN photo)
    /\ Begin(c, Reading("order", s, None))

BeginDelete(c, k) ==
    /\ k \in DOMAIN photo
    /\ Begin(c, Reading("delete", <<>>, k))

Gone(c) == IF call[c].op = "delete" THEN {call[c].key} ELSE {}

(* What the transaction writes, each photo by its id: what a deletion       *)
(* leaves is read again and numbered.                                       *)
Numberings(c) ==
    CASE call[c].op = "order" -> {Numbered(call[c].order)}
      [] call[c].op = "delete" -> {Numbered(s) : s \in Orders(DOMAIN photo \ Gone(c))}

(* Photos K where those of w have been written.                             *)
Over(w, K) == [k \in K |-> IF k \in DOMAIN w THEN w[k] ELSE photo[k]]

(* The photos are written and the first is looked up: an upload that has    *)
(* not committed is not seen.                                               *)
Pick(c) ==
    LET rows == IF call[c].op = "delete" THEN DOMAIN photo ELSE Range(call[c].order) IN
    /\ call[c].step = "read"
    /\ Range(call[c].order) \union Gone(c) \subseteq DOMAIN photo
    /\ rows \intersect Held = {}
    /\ call[c].empties => ~Locked(c)
    /\ \E w \in Numberings(c) : \E first \in Firsts(Over(w, DOMAIN photo \ Gone(c))) :
          call' = [call EXCEPT ![c].step = "picked", ![c].rows = rows,
                               ![c].first = first, ![c].order = w]
    /\ UNCHANGED <<asset, photo, avatar, left>>
    /\ UNCHANGED history

(* _syncPrimaryPhoto's write waits for the profile, and the foreign key     *)
(* refuses an asset that has been deleted; then the commit. Photos stored   *)
(* meanwhile stay as they are.                                              *)
Sync(c) ==
    /\ call[c].step = "picked"
    /\ ~Locked(c)
    /\ call[c].first \in asset \union {None}
    /\ photo' = Over(call[c].order, DOMAIN photo \ Gone(c))
    /\ avatar' = call[c].first
    /\ asset' = asset \ Gone(c)
    /\ apart' = FALSE
    /\ doubt' = ~call[c].alone
    /\ disorder' = ~call[c].alone
    /\ Commit(c)
    /\ UNCHANGED left

-----------------------------------------------------------------------------
(* completeAvatarUpload: the asset and the profile are two commits.         *)

BeginAvatar(c, k) ==
    Begin(c, [op |-> "avatar", step |-> "asset", key |-> k, alone |-> TRUE,
              existing |-> k \in asset])

CreateAsset(c) ==
    /\ call[c].op = "avatar" /\ call[c].step = "asset"
    /\ asset' = IF call[c].existing THEN asset ELSE asset \union {call[c].key}
    /\ call' = [call EXCEPT ![c].step = "set"]
    /\ UNCHANGED <<photo, avatar, left>>
    /\ UNCHANGED history

(* The foreign key refuses an asset that has been deleted.                  *)
SetAvatar(c) ==
    /\ call[c].op = "avatar" /\ call[c].step = "set"
    /\ ~Locked(c)
    /\ call[c].key \in asset
    /\ avatar' = call[c].key
    /\ apart' = TRUE
    /\ Commit(c)
    /\ UNCHANGED <<asset, photo, left, doubt, disorder>>

-----------------------------------------------------------------------------
Next ==
    \E c \in Calls :
        \/ \E k \in Keys :
              \/ BeginStore(c, k) \/ BeginUpload(c, k) \/ BeginPrimary(c, k)
              \/ BeginDelete(c, k) \/ BeginAvatar(c, k)
        \/ \E s \in SetToSeqs(DOMAIN photo) : BeginReorder(c, s)
        \/ Lock(c) \/ Store(c) \/ Upload(c) \/ Pick(c) \/ Sync(c)
        \/ CreateAsset(c) \/ SetAvatar(c)
        \/ Fail(c)

Spec == Init /\ [][Next]_vars

-----------------------------------------------------------------------------
TypeOK ==
    /\ asset \subseteq Keys
    /\ DOMAIN photo \subseteq Keys
    /\ avatar \in Keys \union {None}

(* Whatever overtakes what, the avatar and every photo have their asset.    *)
(* The avatar is the first photo and no two photos share a place, unless    *)
(* another commit came between what the last reordering or deletion read    *)
(* and its own: the next one puts it right. Uploads, which lock, never      *)
(* disturb either. An avatar set apart stays until the photos next change.  *)
PhotosInOrder ==
    /\ DOMAIN photo \union ({avatar} \ {None}) \subseteq asset
    /\ doubt \/ apart \/ avatar \in Firsts(photo)
    /\ disorder \/ IsInjective(photo)
=============================================================================
