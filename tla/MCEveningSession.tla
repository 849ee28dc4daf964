-------------------------- MODULE MCEveningSession --------------------------
(* Small instances of EveningSession for TLC.                                *)
EXTENDS EveningSession, TLC

CONSTANTS g1, g2, host, c1, c2, w1

TwoGuests == {g1, g2}
TwoCalls == {c1, c2}
OneWorker == {w1}

(* Step 2 is due at the start already, step 3 one unit of time later.        *)
ThreeStepsDue == <<0, 0, 1>>

AllModes == {"auto", "manual"}
AllPrivacies == {"open", "request"}
=============================================================================
