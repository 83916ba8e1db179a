--------------------------- MODULE MCDevicePairing ---------------------------
(***************************************************************************)
(* Instances of DevicePairing for TLC.                                     *)
(***************************************************************************)
EXTENDS DevicePairing

CONSTANTS be1, be2, grant1, grant2, tenant1

\* Two kiosks that may ask for one tenant at the same time.
TwoCodes == {be1, be2}
TwoGrants == {grant1, grant2}

\* One kiosk, one grant: what becomes of its flags.
OneCode == {be1}
OneGrant == {grant1}
=============================================================================
