---------------------------- MODULE MCFanDaemon -----------------------------
EXTENDS FanDaemon

(* The calls of the window and the tray (Setting is any of the keyboard and     *)
(* turbo calls), and every call of every client of the bus.                     *)
AppRequests == {"SetProfile", "SetCurve", "RestoreFirmware", "Setting"}
EveryRequest == RequestKinds
=============================================================================
