--------------------------- MODULE MCDeviceReports ---------------------------
(***************************************************************************)
(* Instances of DeviceReports for TLC.                                     *)
(***************************************************************************)
EXTENDS DeviceReports

CONSTANTS low, full, eos, nikon

Call(op) == [op |-> op, fit |-> TRUE, battery |-> Null, health |-> Null,
             camera |-> Null, printer |-> Null]

\* Two reports of which one may be refused for want of a camera, first plugs and
\* re-plugs of one or both devices, a plug that is refused half way, a GET and a
\* token request.  A poll that succeeds is noted as the heartbeat is.
KioskCalls ==
  {[Call("heartbeat") EXCEPT !.battery = low, !.health = low],
   [Call("bulk") EXCEPT !.battery = full],
   [Call("plug") EXCEPT !.camera = nikon, !.printer = nikon],
   [Call("plug") EXCEPT !.camera = eos, !.printer = Blank],
   Call("get"), Call("token")}

\* The admin panel has linked no camera yet, or one.
OldCameras == {Null, [name |-> eos, battery |-> Null]}
=============================================================================
