------------------------------ MODULE Discover ------------------------------
(***************************************************************************)
(* The dating feed.  A page takes a batch of candidates in the order of    *)
(* their registration, filters and ranks the batch, shows the best and     *)
(* carries the others in the cursor, as a buffer that goes first next      *)
(* time.  When there is nobody new after the cursor, the users that were   *)
(* passed over come again, in a second cycle.  Meanwhile the user swipes,  *)
(* and candidates come and go.                                             *)
(***************************************************************************)
EXTENDS Integers, Sequences, FiniteSets, SequencesExt

CONSTANTS
    Candidates,     \* users in the order of the query: newest first
    Rank,           \* function: the place of a candidate in the ranking, all different
    Take,           \* users of a page, fewer than any batch
    Batches,        \* sizes a batch may have, by the filters that are set
    MaxSwipes,      \* bound: swipes and other changes
    MaxPages        \* bound: pages read

VARIABLES
    status,     \* per candidate: "fresh", "pass", "liked" or "away"
    fits,       \* candidates that match the filters on interests and radius
    batch,      \* size of a batch under these filters
    first,      \* status at the start, of candidates that have not changed
    cursor,     \* what the next page is asked with
    seen,       \* candidates in the order they were shown
    full,       \* the last page came from the buffer alone
    pages, swipes

vars == <<status, fits, batch, first, cursor, seen, full, pages, swipes>>

Start == [at |-> 0, cycle |-> "fresh", buffer |-> <<>>]
End == [at |-> -1, cycle |-> "fresh", buffer |-> <<>>]

Prefix(s, n) == SubSeq(s, 1, IF Len(s) < n THEN Len(s) ELSE n)
Rest(s, n) == SubSeq(s, n + 1, Len(s))

-----------------------------------------------------------------------------
\* Users of a cycle after a place in the order of the query.
Matching(cycle, at) ==
    SetToSortSeq({c \in Candidates : status[c] = cycle /\ c > at}, LAMBDA a, b : a < b)

\* Those of a batch that match the filters, best first.
Ranked(users) ==
    SetToSortSeq(Range(users) \cap fits, LAMBDA a, b : Rank[a] < Rank[b])

\* Candidates of the buffer that still belong to the cycle, as they stand in it.
Buffered ==
    SelectSeq(cursor.buffer, LAMBDA c : status[c] = cursor.cycle /\ c \in fits)

FreshUsers(buffered) ==
    IF Len(buffered) >= Take \/ cursor.cycle = "pass" THEN <<>>
    ELSE Prefix(Matching("fresh", cursor.at), batch)

PassUsers(buffered, fresh) ==
    IF Len(buffered) < Take /\ fresh = <<>>
    THEN Prefix(Matching("pass", IF cursor.cycle = "pass" THEN cursor.at ELSE 0), batch)
    ELSE <<>>

NextCycle(fresh, passed) ==
    IF fresh # <<>> \/ (cursor.cycle # "pass" /\ passed = <<>>) THEN "fresh" ELSE "pass"

\* The place behind the users that were fetched; the end, when nobody waits in
\* the buffer and fewer were fetched than a page takes.
NextCursorWithout(users, rest, cycle) ==
    IF users = <<>> \/ Len(users) < Take
    THEN End
    ELSE [at |-> users[Len(users)], cycle |-> cycle, buffer |-> <<>>]

NextCursor(users, rest, cycle) ==
    IF rest = <<>> /\ Len(users) < Take
    THEN End
    ELSE [at |-> IF users = <<>> THEN cursor.at ELSE users[Len(users)],
          cycle |-> cycle, buffer |-> rest]

DiscoverPage ==
    /\ cursor # End
    /\ pages < MaxPages
    /\ \E buffered \in {Buffered} : \E fresh \in {FreshUsers(buffered)} :
       \E passed \in {PassUsers(buffered, fresh)} :
       \E combined \in {buffered \o Ranked(fresh) \o Ranked(passed)} :
        /\ seen' = seen \o Prefix(combined, Take)
        /\ cursor' = NextCursor(IF fresh # <<>> THEN fresh ELSE passed,
                                Rest(combined, Take), NextCycle(fresh, passed))
        /\ full' = (Len(buffered) >= Take)
    /\ pages' = pages + 1
    /\ UNCHANGED <<status, fits, batch, first, swipes>>

\* The user swipes, takes a swipe back, or a candidate hides or shows himself.
Swipe(c, verdict) ==
    /\ swipes < MaxSwipes
    /\ status[c] # verdict
    /\ status' = [status EXCEPT ![c] = verdict]
    /\ first' = [first EXCEPT ![c] = "changed"]
    /\ swipes' = swipes + 1
    /\ UNCHANGED <<fits, batch, cursor, seen, full, pages>>

Init ==
    /\ status \in [Candidates -> {"fresh", "pass"}]
    /\ batch \in Batches
    /\ fits \in SUBSET Candidates
    /\ batch = Take + 1 => fits = Candidates
    /\ first = status
    /\ cursor = Start
    /\ seen = <<>>
    /\ full = FALSE
    /\ pages = 0 /\ swipes = 0

Next ==
    \/ DiscoverPage
    \/ \E c \in Candidates, v \in {"fresh", "pass", "liked", "away"} : Swipe(c, v)

Spec == Init /\ [][Next]_vars

-----------------------------------------------------------------------------
Shown == Range(seen)
Steady(cycle) == {c \in fits : first[c] = cycle}

\* Nobody whose standing has not changed is shown twice.
NobodyTwice ==
    \A i, j \in DOMAIN seen : seen[i] = seen[j] /\ first[seen[i]] # "changed" => i = j

\* Those passed over before come after everybody new.
PassesLast ==
    \A i \in DOMAIN seen :
        first[seen[i]] = "pass" => Steady("fresh") \subseteq Range(SubSeq(seen, 1, i - 1))

\* The buffer loses nobody: who reads to the end has seen everybody new,
\* unless the last page was a full page of the buffer.
NobodyLost ==
    cursor = End /\ ~full => Steady("fresh") \subseteq Shown

DiscoverHolds == NobodyTwice /\ PassesLast /\ NobodyLost
=============================================================================
