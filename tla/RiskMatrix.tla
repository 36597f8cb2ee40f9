----------------------------- MODULE RiskMatrix -----------------------------
(***************************************************************************)
(* Layer 1 of the risk engine, app/risk/matrix.py: evaluate_risk runs      *)
(* through the rules in the order of the table and keeps the highest level *)
(* of those that apply; an earthquake is judged by its magnitude instead.  *)
(*                                                                         *)
(* One behaviour is one call.  The table is a parameter: what is proved of *)
(* the loop holds for every table, MCRiskMatrix gives the one of the code. *)
(* Magnitudes are in tenths.  None is Python's None: no severity, no       *)
(* magnitude, or no rule that applies (the caller then asks the LLM,       *)
(* module AlertPipeline).                                                  *)
(***************************************************************************)
EXTENDS Integers, Sequences

CONSTANTS
  Rules,        \* RISK_MATRIX
  EventTypes, Earthquake, AgeGroups, Tags,
  Magnitudes, HighMagnitude, MediumMagnitude, HighRiskTags,
  None

Severities == {"ADVISORY", "WARNING"}
Levels == {"LOW", "MEDIUM", "HIGH"}
Triggers == {"everyone", "age_group", "tag"}

RuleType ==
  [event_type : EventTypes, severity : Severities \cup {None},
   trigger : Triggers, value : AgeGroups \cup Tags \cup {None}, level : Levels]

ASSUME RulesAssumption == Rules \in Seq(RuleType)
ASSUME MagnitudesAssumption ==
  /\ Magnitudes \subseteq Int
  /\ HighMagnitude \in Int /\ MediumMagnitude \in Int
  /\ MediumMagnitude <= HighMagnitude
ASSUME NoneAssumption == None \notin Levels \cup Severities \cup Int

VARIABLES
  call,      \* the arguments
  pc,        \* "start", "loop" or "done"
  next,      \* the rule the loop looks at
  matched    \* the level so far, in the end the result

vars == <<call, pc, next, matched>>

Calls ==
  [event_type : EventTypes, severity : Severities \cup {None},
   age_group : AgeGroups, tags : SUBSET Tags, magnitude : Magnitudes \cup {None}]

Init ==
  /\ call \in Calls
  /\ IF call.event_type = Earthquake THEN call.severity = None
                                     ELSE call.magnitude = None
  /\ pc = "start" /\ next = 1 /\ matched = None

Rank(level) ==
  CASE level = "HIGH" -> 2 [] level = "MEDIUM" -> 1 [] OTHER -> 0

\* Mutant: the lower one.
Lower(a, b) == IF Rank(a) <= Rank(b) THEN a ELSE b

Higher(a, b) == IF Rank(a) >= Rank(b) THEN a ELSE b

\* Mutant: a level the enum does not have.
ExtremeRisk(magnitude, tags) ==
  IF magnitude >= HighMagnitude THEN "EXTREME" ELSE "LOW"

EarthquakeRisk(magnitude, tags) ==
  CASE magnitude >= HighMagnitude -> "HIGH"
    [] magnitude >= MediumMagnitude /\ magnitude < HighMagnitude ->
         IF tags \cap HighRiskTags # {} THEN "HIGH" ELSE "MEDIUM"
    [] OTHER -> "LOW"

JudgeEarthquake ==
  /\ pc = "start" /\ call.event_type = Earthquake
  /\ matched' = IF call.magnitude = None
                  THEN None ELSE EarthquakeRisk(call.magnitude, call.tags)
  /\ pc' = "done"
  /\ UNCHANGED <<call, next>>

StartLoop ==
  /\ pc = "start" /\ call.event_type # Earthquake
  /\ pc' = "loop"
  /\ UNCHANGED <<call, next, matched>>

\* Mutant: a tag counts only when it is the person's only one.
HitSingleTag(rule, c) ==
  \/ rule.trigger = "everyone"
  \/ rule.trigger = "age_group" /\ c.age_group = rule.value
  \/ rule.trigger = "tag" /\ c.tags = {rule.value}

Hit(rule, c) ==
  \/ rule.trigger = "everyone"
  \/ rule.trigger = "age_group" /\ c.age_group = rule.value
  \/ rule.trigger = "tag" /\ rule.value \in c.tags

Applies(rule, c) ==
  /\ rule.event_type = c.event_type
  /\ rule.severity \in {None, c.severity}
  /\ Hit(rule, c)

TakeRule ==
  /\ pc = "loop" /\ next <= Len(Rules)
  /\ matched' = IF ~Applies(Rules[next], call) THEN matched
                ELSE IF matched = None THEN Rules[next].level
                ELSE Higher(matched, Rules[next].level)
  /\ next' = next + 1
  /\ UNCHANGED <<call, pc>>

Return ==
  /\ pc = "loop" /\ next > Len(Rules)
  /\ pc' = "done"
  /\ UNCHANGED <<call, next, matched>>

Next == JudgeEarthquake \/ StartLoop \/ TakeRule \/ Return

Spec == Init /\ [][Next]_vars

(***************************************************************************)
(* Properties.                                                             *)
(***************************************************************************)
TypeOK ==
  /\ call \in Calls
  /\ pc \in {"start", "loop", "done"}
  /\ next \in 1..Len(Rules) + 1
  /\ matched \in Levels \cup {None}

\* level is the highest of the rules before the n-th that apply to c.
Highest(level, c, n) ==
  LET applicable == {i \in 1..n - 1 : Applies(Rules[i], c)}
  IN  \/ level = None /\ applicable = {}
      \/ /\ \E i \in applicable : level = Rules[i].level
         /\ \A i \in applicable : Rank(Rules[i].level) <= Rank(level)

\* The result is the highest level of all the rules that apply, and None only
\* when there is none: a person for whom a rule exists is never left to the
\* LLM, whatever the order of the table.
ResultIsHighest ==
  pc = "done" /\ call.event_type # Earthquake =>
    Highest(matched, call, Len(Rules) + 1)

\* b is at least the level a; None is below every level.
AtLeast(b, a) == a # None => b # None /\ Rank(b) >= Rank(a)

\* What evaluate_risk returns for c.
Result(c) ==
  IF c.event_type = Earthquake
    THEN IF c.magnitude = None THEN None ELSE EarthquakeRisk(c.magnitude, c.tags)
    ELSE CHOOSE level \in Levels \cup {None} : Highest(level, c, Len(Rules) + 1)

\* One more tag, a vulnerability of the person, never lowers the result and
\* never turns a rule's answer into none.
MoreTagsNeverLower ==
  pc = "done" =>
    \A t \in Tags : AtLeast(Result([call EXCEPT !.tags = @ \cup {t}]), matched)

\* An advisory that becomes a warning, and a stronger earthquake, never lower
\* the result.
EscalationNeverLowers ==
  pc = "done" =>
    /\ call.severity = "ADVISORY" =>
         AtLeast(Result([call EXCEPT !.severity = "WARNING"]), matched)
    /\ call.magnitude # None =>
         \A m \in Magnitudes : m >= call.magnitude =>
           AtLeast(Result([call EXCEPT !.magnitude = m]), matched)
=============================================================================
