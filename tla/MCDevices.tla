----------------------------- MODULE MCDevices -----------------------------
(***************************************************************************)
(* Devices with the clocks of the msm8909, screens of few columns and      *)
(* lines, and the keypad's limits of time in their order.                  *)
(***************************************************************************)
EXTENDS Devices, MCClock

\* One screen has a line to spare.
McScreens == {[gWidth |-> 35, gHeight |-> 74], [gWidth |-> 37, gHeight |-> 50]}
McKeyList == <<"Power", "VolumeUp", "CameraFocus">>
McPatterns == {[scan |-> "UP", shift |-> 0], [scan |-> "UP", shift |-> 1],
               [scan |-> "NULL", shift |-> 0]}
=============================================================================
