---------------------------- MODULE TelegramRelay ---------------------------
(* The relay between the Telegram bot and the backend: it polls for updates *)
(* after the last one it has handled, dispatches each to the backend, sends *)
(* the answer, and writes the number of the last one to a file. Asking for  *)
(* updates after a number makes Telegram forget those up to it.             *)
EXTENDS Integers, Sequences

CONSTANTS
    Updates,    \* number of updates that arrive
    Poison,     \* updates the backend refuses, whenever they are dispatched
    MaxFaults   \* bound on lost calls, crashes and failed writes of the file

VARIABLES
    arrived,    \* updates that have arrived so far
    confirmed,  \* the last update Telegram has been told is handled
    last,       \* lastUpdateId in memory, 0 for none
    file,       \* lastUpdateId in the file
    poll,       \* the poll under way: what is left of its batch, and its step
    dispatched, \* (history) how often the backend has taken each update
    answered,   \* (history) how often its answer was sent
    faults,     \* faults so far
    repeats     \* (history) polls that broke off after some of their updates

vars == <<arrived, confirmed, last, file, poll, dispatched, answered, faults, repeats>>

Rest == [step |-> "rest", at |-> 0, to |-> 0]

Init ==
    /\ arrived = 0 /\ confirmed = 0 /\ last = 0 /\ file = 0
    /\ poll = Rest
    /\ dispatched = [u \in 1 .. Updates |-> 0]
    /\ answered = [u \in 1 .. Updates |-> 0]
    /\ faults = 0 /\ repeats = 0

Arrive ==
    /\ arrived < Updates
    /\ arrived' = arrived + 1
    /\ UNCHANGED <<confirmed, last, file, poll, dispatched, answered, faults, repeats>>

Greater(a, b) == IF a > b THEN a ELSE b

(* getUpdates with the offset after the last one, or without an offset.     *)
Poll ==
    /\ poll.step = "rest"
    /\ confirmed' = Greater(confirmed, last)
    /\ poll' = IF arrived = confirmed' THEN Rest
               ELSE [step |-> "dispatch", at |-> confirmed' + 1, to |-> arrived]
    /\ UNCHANGED <<arrived, last, file, dispatched, answered, faults, repeats>>

(* dispatchToBackend                                                        *)
Dispatch ==
    /\ poll.step = "dispatch"
    /\ poll.at \notin Poison
    /\ dispatched' = [dispatched EXCEPT ![poll.at] = @ + 1]
    /\ poll' = [poll EXCEPT !.step = "answer"]
    /\ UNCHANGED <<arrived, confirmed, last, file, answered, faults, repeats>>

(* Slip: the number of each update counts as it comes.                      *)
EachLast(at) == at

(* Only the end of a batch moves lastUpdateId.                              *)
Last(at) == last

(* executeActions, and on to the next update.                               *)
Answer ==
    /\ poll.step = "answer"
    /\ answered' = [answered EXCEPT ![poll.at] = @ + 1]
    /\ poll' = IF poll.at = poll.to THEN [poll EXCEPT !.step = "end"]
               ELSE [poll EXCEPT !.step = "dispatch", !.at = @ + 1]
    /\ last' = IF poll.at = poll.to THEN last ELSE Last(poll.at + 1)
    /\ UNCHANGED <<arrived, confirmed, file, dispatched, faults, repeats>>

EndOfBatch ==
    /\ poll.step = "end"
    /\ last' = poll.to
    /\ poll' = [poll EXCEPT !.step = "save"]
    /\ UNCHANGED <<arrived, confirmed, file, dispatched, answered, faults, repeats>>

SaveState ==
    /\ poll.step = "save"
    /\ file' = last
    /\ poll' = Rest
    /\ UNCHANGED <<arrived, confirmed, last, dispatched, answered, faults, repeats>>

(* An error ends the poll; the next one starts after lastUpdateId again.    *)
Broken ==
    /\ poll' = Rest
    /\ repeats' = IF poll.step \in {"dispatch", "answer"} THEN repeats + 1 ELSE repeats

Fault == faults < MaxFaults /\ faults' = faults + 1

(* The backend's refusal of an update is there again at every poll.         *)
Refuse ==
    /\ poll.step = "dispatch" /\ poll.at \in Poison
    /\ repeats < MaxFaults
    /\ Broken
    /\ UNCHANGED <<arrived, confirmed, last, file, dispatched, answered, faults>>

(* A call is lost or fails, the dispatch also after the backend has acted.  *)
Lose ==
    /\ poll.step \in {"dispatch", "answer", "save"} /\ Fault
    /\ Broken
    /\ dispatched' \in {dispatched} \union
           (IF poll.step = "dispatch" /\ poll.at \notin Poison
            THEN {[dispatched EXCEPT ![poll.at] = @ + 1]} ELSE {})
    /\ UNCHANGED <<arrived, confirmed, last, file, answered>>

(* loadState: the file's number, or none if it cannot be read.              *)
Crash ==
    /\ Fault
    /\ last' \in {file, 0}
    /\ Broken
    /\ UNCHANGED <<arrived, confirmed, file, dispatched, answered>>

Next ==
    Arrive \/ Poll \/ Dispatch \/ Answer \/ EndOfBatch \/ SaveState \/ Refuse \/ Lose \/ Crash

Spec == Init /\ [][Next]_vars

-----------------------------------------------------------------------------
(* An update is confirmed to Telegram, or counted as handled, only when its *)
(* answer has been sent, so that none is lost to a crash; updates are       *)
(* handled in order, which an update the backend always refuses stops for   *)
(* good; and one is handled again only after a poll has broken off or the   *)
(* relay has been started anew.                                             *)
RelayHolds ==
    /\ \A u \in 1 .. Updates :
          /\ u <= confirmed \/ u <= last \/ u <= file => answered[u] > 0
          /\ answered[u] <= dispatched[u]
          /\ dispatched[u] > 0 => \A v \in 1 .. u - 1 : answered[v] > 0
          /\ dispatched[u] <= 1 + repeats + faults
=============================================================================
