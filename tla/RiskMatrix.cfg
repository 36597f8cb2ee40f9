CONSTANTS
  Rules <- RISK_MATRIX
  EventTypes <- MCEventTypes
  Earthquake = "earthquake"
  AgeGroups <- MCAgeGroups
  Tags <- MCTags
  Magnitudes = {29, 30, 39, 40}
  HighMagnitude = 40
  MediumMagnitude = 30
  HighRiskTags <- MCHighRiskTags
  None = None
SPECIFICATION Spec
INVARIANTS
  TypeOK
  ResultIsHighest
  MoreTagsNeverLower
  EscalationNeverLowers
CHECK_DEADLOCK FALSE
