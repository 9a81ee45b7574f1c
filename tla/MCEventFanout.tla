---------------------------- MODULE MCEventFanout ----------------------------
(***************************************************************************)
(* Model of EventFanout.  Three listeners: one may be slow, one dropped    *)
(* and one added, all while the same event is forwarded.                   *)
(***************************************************************************)
EXTENDS EventFanout
=============================================================================
