---------------------------- MODULE MCRiskMatrix ----------------------------
(***************************************************************************)
(* The table of app/risk/matrix.py, and the values of app/models/enums.py  *)
(* it names; pregnant stands for the tags that no rule names.              *)
(***************************************************************************)
EXTENDS RiskMatrix

MCEventTypes ==
  {"heatwave", "cold_wave", "heavy_rain", "typhoon", "heavy_snow", "earthquake",
   "flood"}
MCAgeGroups == {"infant_child", "teen", "adult", "senior"}
MCTags ==
  {"driver", "needs_mobility_aid", "low_judgement", "low_mobility",
   "outdoor_commute", "pregnant"}
MCHighRiskTags == {"needs_mobility_aid", "low_judgement"}

Rule(type, severity, trigger, value, level) ==
  [event_type |-> type, severity |-> severity, trigger |-> trigger,
   value |-> value, level |-> level]
ForAge(type, age, level) == Rule(type, None, "age_group", age, level)
ForTag(type, tag, level) == Rule(type, None, "tag", tag, level)

HeatAndCold ==
  << ForAge("heatwave", "senior", "HIGH"),
     ForAge("heatwave", "infant_child", "HIGH"),
     ForTag("heatwave", "low_mobility", "HIGH"),
     ForTag("heatwave", "low_judgement", "HIGH"),
     ForAge("heatwave", "adult", "MEDIUM"),
     ForAge("cold_wave", "senior", "HIGH"),
     ForTag("cold_wave", "needs_mobility_aid", "HIGH") >>

RainAndSnow ==
  << ForTag("heavy_rain", "driver", "HIGH"),
     ForTag("heavy_rain", "outdoor_commute", "HIGH"),
     ForTag("typhoon", "driver", "HIGH"),
     ForTag("typhoon", "outdoor_commute", "HIGH"),
     ForAge("heavy_snow", "senior", "HIGH"),
     ForTag("heavy_snow", "needs_mobility_aid", "HIGH"),
     ForTag("heavy_snow", "driver", "HIGH") >>

\* Mutant: the rule of the warning is for commuters.
FloodOfCommuters ==
  << Rule("flood", "WARNING", "tag", "outdoor_commute", "HIGH"),
     Rule("flood", "ADVISORY", "tag", "driver", "MEDIUM"),
     Rule("flood", "ADVISORY", "tag", "needs_mobility_aid", "MEDIUM") >>

Flood ==
  << Rule("flood", "WARNING", "everyone", None, "HIGH"),
     Rule("flood", "ADVISORY", "tag", "driver", "MEDIUM"),
     Rule("flood", "ADVISORY", "tag", "needs_mobility_aid", "MEDIUM") >>

RISK_MATRIX == HeatAndCold \o RainAndSnow \o Flood
=============================================================================
