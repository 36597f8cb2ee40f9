--------------------------- MODULE MCDisasterFeed ---------------------------
(***************************************************************************)
(* Contents for DisasterFeed: an alarm for two regions, a notice that is   *)
(* denylisted, and an alarm whose time cannot be read.                     *)
(***************************************************************************)
EXTENDS DisasterFeed

MCContents ==
  { [hazard |-> TRUE, dated |-> TRUE, regions |-> {"north", "south"}],
    [hazard |-> FALSE, dated |-> FALSE, regions |-> {"north"}],
    [hazard |-> TRUE, dated |-> FALSE, regions |-> {"north"}] }

OneAlarm == { [hazard |-> TRUE, dated |-> TRUE, regions |-> {"north"}] }
=============================================================================
