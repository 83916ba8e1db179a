------------------------- MODULE MCSessionLifecycle -------------------------
(***************************************************************************)
(* Instances of SessionLifecycle for TLC.                                  *)
(***************************************************************************)
EXTENDS SessionLifecycle, TLC

CONSTANTS kioskA, kioskB, s1, s2, frame1, frame2, h1, h2

\* kioskA's campaign has frame1 only; without a campaign every frame is offered.
OneCampaign == [d \in Devices \cup {Null} |-> IF d = kioskA THEN {frame1} ELSE Frames]

\* The states that have no action of their own (tests/test_smoke.py patches
\* "simulation" and "complete"), frames, another kiosk, and clearing fields.
KioskPatches ==
  {"state" :> "payment_choice", "state" :> "simulation", "state" :> "complete",
   "frame" :> frame1, "frame" :> Null, "device" :> kioskB, "device" :> Null,
   "device" :> kioskA @@ "frame" :> frame1 @@ "activation" :> "qr"}

\* An offline copy that is done, and one taken before payment.
OfflineCopies ==
  {[state |-> "complete", frame |-> frame1, activation |-> "voucher"],
   [state |-> "started", frame |-> Null, activation |-> Null]}

StatePatches == {"state" :> "simulation"}
None == {}
=============================================================================
