------------------------------ MODULE MCOutbox ------------------------------
(* Small instances of Outbox for TLC.                                       *)
EXTENDS Outbox

CONSTANTS w1, w2, chatKey

TwoWorkers == {w1, w2}
(* The first worker claims in batches, the second one row at a time.        *)
FirstInBatches == {w1}

TwoEvents  == {1, 2}

(* Both rows are unread fan-outs of one chat and sender.                    *)
SameKey == [e \in TwoEvents |-> chatKey]

(* A crash, an overrun and a failed write may happen once each, but not all *)
(* three in one behaviour.                                                  *)
TwoFaults == crashes + overruns + dbErrors <= 2
=============================================================================
