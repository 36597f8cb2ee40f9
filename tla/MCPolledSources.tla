-------------------------- MODULE MCPolledSources --------------------------
(***************************************************************************)
(* Values for the constants of PolledSources: a province of three zones, a *)
(* kind of warning with an event type and one without, three stations, of  *)
(* which the second has no thresholds.                                     *)
(***************************************************************************)
EXTENDS PolledSources

MCTypeOf == [k \in {"heat"} |-> "heatwave"]
InForceAs(kind, severity, areas) ==
  {[kind |-> kind, severity |-> severity, area |-> a] : a \in areas}
MCSnapshots ==
  { {}, InForceAs("heat", "ADVISORY", {"south"}),
    InForceAs("heat", "ADVISORY", {"south", "west", "hills"}),
    InForceAs("heat", "WARNING", {"south"}) \cup InForceAs("night", "ADVISORY", {"west"}) }

MCLastSlot == [c \in Clients |-> IF c = Hrfco THEN 2 ELSE 3]
MCStations == <<"bridge", "dam", "weir">>
MCRegionOf == [bridge |-> "south", dam |-> "hills", weir |-> "west"]
MCLevelsAt == [bridge |-> {0, 2}, dam |-> {}, weir |-> {2}]
MCAttention == [bridge |-> 1, dam |-> NoLevel, weir |-> 1]
MCWarning == [bridge |-> 2, dam |-> NoLevel, weir |-> NoLevel]
=============================================================================
