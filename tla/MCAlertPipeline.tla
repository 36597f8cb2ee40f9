-------------------------- MODULE MCAlertPipeline --------------------------
(***************************************************************************)
(* Values for the constants of AlertPipeline.  One weather warning split   *)
(* over two forecast zones of a city, a disaster message for the city, a   *)
(* flood warning for which Layer 1 has no rule, an old announcement and an *)
(* earthquake without a region.                                            *)
(***************************************************************************)
EXTENDS AlertPipeline, MCRegionNames, TLC

\* Cycles differ in nothing but their names, and no property names one.
CycleSymmetry == Permutations(Cycles)

Item(source, kind, at, region) ==
  [source |-> source, kind |-> kind, at |-> at, region |-> region]

HeatSouth == Item(Kmas, "heat", 1, "south")
HeatWest == Item(Kmas, "heat", 1, "west")
OldHeat == Item(Kmas, "heat", 0, "south")
Flood == Item("hrfco_flood", "flood", 1, "city")
Broadcast == Item(Broadcasts, "broadcast", 1, "city")
Quake == Item("kma_earthquake", "quake", 1, "none")

MCRegions == {"city", "south", "west"}
Named == [city |-> GyeongjuSi, south |-> GyeongjuNambu, west |-> GyeongjuSeobu]
MCMatching == {r \in MCRegions \X MCRegions : r[1] = r[2] \/ "city" \in {r[1], r[2]}}

\* The regions match as the names the code compares.
ASSUME MatchingIsByName ==
  MCMatching = {r \in MCRegions \X MCRegions : RegionsMatch(Named[r[1]], Named[r[2]])}

MCKinds == {"heat", "flood", "broadcast", "quake"}

MCPersons == {"mother", "son"}
MCProfiles == {"senior", "teen"}
MCProfile == [p \in MCPersons |-> IF p = "mother" THEN "senior" ELSE "teen"]
MCLayer1 == [k \in MCKinds \X MCProfiles |->
               IF k = <<"heat", "senior">> THEN "HIGH" ELSE "NONE"]

Subscribes(person, region) == [person |-> person, region |-> region]
MotherCity == Subscribes("mother", "city")
MotherSouth == Subscribes("mother", "south")
SonCity == Subscribes("son", "city")

SplitAndMessage == {HeatSouth, HeatWest, Broadcast}
SplitWarning == {HeatSouth, HeatWest}
WarningAndMessage == {HeatSouth, Broadcast}
MixedKeys == {HeatSouth, Flood}
OddKeys == {HeatSouth, OldHeat, Quake}
UnruledKeys == {Flood}
WarningOnly == {HeatSouth}
MessageAndOld == {Broadcast, OldHeat}
NoSubs == {}
OneSub == {MotherCity}
TwoSubs == {MotherCity, MotherSouth}
MotherWest == Subscribes("mother", "west")
NearAndFar == {MotherCity, MotherSouth, MotherWest}
ThreeSubs == {MotherCity, MotherWest, SonCity}
TwoPersons == {MotherCity, SonCity}
=============================================================================
