--------------------------- MODULE MCDeviceSignIn ---------------------------
(* Small instances of DeviceSignIn: lifetimes from none to a few intervals, *)
(* intervals the client has to raise among them.                           *)
EXTENDS DeviceSignIn

CONSTANTS absent, never

LifetimesOfOne == {-1, 0, 1, 6, 9}
IntervalsOfOne == {-1, 0, 1, 3}
=============================================================================
