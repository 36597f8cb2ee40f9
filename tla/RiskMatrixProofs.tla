-------------------------- MODULE RiskMatrixProofs --------------------------
(***************************************************************************)
(* For every table of rules: the loop of evaluate_risk returns the highest *)
(* level that applies, and more tags never lower what it returns; for the  *)
(* table of the code and those like it, graver events never do.            *)
(***************************************************************************)
EXTENDS MCRiskMatrix, TLAPS

\* Ranks are comparable numbers.
LEMMA RankType == \A a : Rank(a) \in 0..2
BY DEF Rank

\* The n-th rule is one of the table's and its level is none of None.
LEMMA RuleLevel ==
  ASSUME NEW n \in 1..Len(Rules)
  PROVE  Rules[n] \in RuleType /\ Rules[n].level \in Levels /\ Rules[n].level # None
<1>1. Rules[n] \in RuleType
  BY RulesAssumption
<1>2. Rules[n].level \in Levels
  BY <1>1 DEF RuleType
<1> QED BY <1>1, <1>2, NoneAssumption

\* Every step keeps the types.
LEMMA TypeStep == TypeOK /\ [Next]_vars => TypeOK'
<1> SUFFICES ASSUME TypeOK, [Next]_vars PROVE TypeOK'
  OBVIOUS
<1> Len(Rules) \in Nat
  BY RulesAssumption
<1>1. CASE JudgeEarthquake
  <2>1. \A m, t : EarthquakeRisk(m, t) \in Levels
    BY DEF EarthquakeRisk, Levels
  <2> QED BY <1>1, <2>1 DEF JudgeEarthquake, TypeOK
<1>2. CASE StartLoop
  BY <1>2 DEF StartLoop, TypeOK
<1>3. CASE TakeRule
  <2>1. next \in 1..Len(Rules) /\ next' \in 1..Len(Rules) + 1
    BY <1>3 DEF TakeRule, TypeOK
  <2>2. matched' \in Levels \cup {None}
    BY <1>3, <2>1, RuleLevel DEF TakeRule, TypeOK, Higher
  <2> QED BY <1>3, <2>1, <2>2 DEF TakeRule, TypeOK
<1>4. CASE Return
  BY <1>4 DEF Return, TypeOK
<1>5. CASE UNCHANGED vars
  BY <1>5 DEF vars, TypeOK
<1> QED BY <1>1, <1>2, <1>3, <1>4, <1>5 DEF Next

\* A call starts with the types.
LEMMA TypeInit == Init => TypeOK
BY RulesAssumption DEF Init, TypeOK

\* The types hold in every state, for every table.
THEOREM TypeCorrect == Spec => []TypeOK
BY TypeInit, TypeStep, PTL DEF Spec

(***************************************************************************)
(* The loop's invariant: what it has matched is the highest level of the   *)
(* rules it has looked at; at the start none, at the end all of them.      *)
(***************************************************************************)
LoopInv ==
  /\ TypeOK
  /\ pc = "start" => next = 1 /\ matched = None
  /\ pc = "loop" => call.event_type # Earthquake /\ Highest(matched, call, next)
  /\ pc = "done" /\ call.event_type = Earthquake =>
       matched = IF call.magnitude = None
                   THEN None ELSE EarthquakeRisk(call.magnitude, call.tags)
  /\ ResultIsHighest

\* One rule: the highest of the first n becomes the highest of the first n + 1.
LEMMA OneRule ==
  ASSUME NEW n \in 1..Len(Rules), NEW c, NEW a \in Levels \cup {None}, NEW b,
         Highest(a, c, n),
         b = IF ~Applies(Rules[n], c) THEN a
             ELSE IF a = None THEN Rules[n].level
             ELSE Higher(a, Rules[n].level)
  PROVE  Highest(b, c, n + 1)
<1> DEFINE before == {i \in 1..n - 1 : Applies(Rules[i], c)}
           upto == {i \in 1..(n + 1) - 1 : Applies(Rules[i], c)}
<1>0. Len(Rules) \in Nat
  BY RulesAssumption
<1>1. CASE ~Applies(Rules[n], c)
  <2>1. upto = before
    BY <1>1, <1>0
  <2> QED BY <1>1, <2>1 DEF Highest
<1>2. CASE Applies(Rules[n], c)
  <2>1. upto = before \cup {n} /\ n \in upto
    BY <1>2, <1>0
  <2>2. CASE a = None
    <3>1. before = {}
      <4> SUFFICES ASSUME NEW i \in before, a = Rules[i].level PROVE FALSE
        BY DEF Highest
      <4>1. i \in 1..Len(Rules)
        BY <1>0
      <4> QED BY <4>1, <2>2, RuleLevel
    <3>2. b = Rules[n].level /\ Rank(b) <= Rank(b)
      BY <1>2, <2>2, RankType
    <3> QED BY <2>1, <3>1, <3>2 DEF Highest
  <2>3. CASE a # None
    <3>1. PICK i \in before : a = Rules[i].level
      BY <2>3 DEF Highest
    <3>2. \A j \in before : Rank(Rules[j].level) <= Rank(a)
      BY <2>3 DEF Highest
    <3>3. b = Higher(a, Rules[n].level)
      BY <1>2, <2>3
    <3>4. b \in {a, Rules[n].level} /\ Rank(a) <= Rank(b) /\ Rank(Rules[n].level) <= Rank(b)
      BY <3>3, RankType DEF Higher
    <3>5. \E j \in upto : b = Rules[j].level
      BY <2>1, <3>1, <3>4
    <3>6. \A j \in upto : Rank(Rules[j].level) <= Rank(b)
      <4> SUFFICES ASSUME NEW j \in upto PROVE Rank(Rules[j].level) <= Rank(b)
        OBVIOUS
      <4> QED BY <2>1, <3>2, <3>4, RankType
    <3> QED BY <3>5, <3>6 DEF Highest
  <2> QED BY <2>2, <2>3
<1> QED BY <1>1, <1>2

\* The loop's invariant holds when a call starts.
LEMMA LoopInit == Init => LoopInv
BY TypeInit DEF Init, LoopInv, ResultIsHighest

\* Every step of a call keeps the loop's invariant.
LEMMA LoopStep == LoopInv /\ [Next]_vars => LoopInv'
<1> SUFFICES ASSUME LoopInv, [Next]_vars PROVE LoopInv'
  OBVIOUS
<1>1. TypeOK /\ TypeOK'
  BY TypeStep DEF LoopInv
<1>2. CASE JudgeEarthquake
  BY <1>1, <1>2 DEF JudgeEarthquake, LoopInv, ResultIsHighest
<1>3. CASE StartLoop
  <2>1. Highest(None, call, 1)
    BY DEF Highest
  <2> QED BY <1>1, <1>3, <2>1 DEF StartLoop, LoopInv, ResultIsHighest
<1>4. CASE TakeRule
  <2>1. next \in 1..Len(Rules)
    BY <1>1, <1>4, RulesAssumption DEF TakeRule, TypeOK
  <2>2. Highest(matched', call, next + 1)
    BY <1>1, <1>4, <2>1, OneRule DEF TakeRule, LoopInv, TypeOK
  <2> QED BY <1>1, <1>4, <2>2 DEF TakeRule, LoopInv, ResultIsHighest
<1>5. CASE Return
  <2>1. next = Len(Rules) + 1
    BY <1>1, <1>5, RulesAssumption DEF Return, TypeOK
  <2> QED BY <1>1, <1>5, <2>1 DEF Return, LoopInv, ResultIsHighest
<1>6. CASE UNCHANGED vars
  BY <1>1, <1>6 DEF vars, LoopInv, ResultIsHighest, Highest
<1> QED BY <1>2, <1>3, <1>4, <1>5, <1>6 DEF Next

\* evaluate_risk returns the highest level of all the rules that apply, and
\* None only when there is none, for every table and every call.
THEOREM HighestReturned == Spec => []ResultIsHighest
<1>1. LoopInv => ResultIsHighest
  BY DEF LoopInv
<1> QED BY <1>1, LoopInit, LoopStep, PTL DEF Spec

(***************************************************************************)
(* More tags.  A level is the highest for some call: the levels are few.   *)
(***************************************************************************)
LEMMA HighestExists ==
  ASSUME NEW c PROVE \E a \in Levels \cup {None} : Highest(a, c, Len(Rules) + 1)
<1> DEFINE applicable == {i \in 1..(Len(Rules) + 1) - 1 : Applies(Rules[i], c)}
           Of(a) == \E i \in applicable : a = Rules[i].level
<1>1. \A i \in applicable : Rules[i].level \in Levels
  BY RuleLevel, RulesAssumption
<1>2. Rank("HIGH") = 2 /\ Rank("MEDIUM") = 1 /\ Rank("LOW") = 0
  BY DEF Rank
<1>3. CASE Of("HIGH")
  <2>1. \A i \in applicable : Rank(Rules[i].level) <= Rank("HIGH")
    BY <1>2, RankType
  <2> QED BY <1>3, <2>1 DEF Highest, Levels
<1>4. CASE ~Of("HIGH") /\ Of("MEDIUM")
  <2>1. \A i \in applicable : Rank(Rules[i].level) <= Rank("MEDIUM")
    BY <1>1, <1>2, <1>4 DEF Levels
  <2> QED BY <1>4, <2>1 DEF Highest, Levels
<1>5. CASE ~Of("HIGH") /\ ~Of("MEDIUM") /\ Of("LOW")
  <2>1. \A i \in applicable : Rank(Rules[i].level) <= Rank("LOW")
    BY <1>1, <1>2, <1>5 DEF Levels
  <2> QED BY <1>5, <2>1 DEF Highest, Levels
<1>6. CASE ~Of("HIGH") /\ ~Of("MEDIUM") /\ ~Of("LOW")
  <2>1. applicable = {}
    BY <1>1, <1>6 DEF Levels
  <2> QED BY <2>1 DEF Highest
<1> QED BY <1>3, <1>4, <1>5, <1>6

\* The loop's answer for more tags is at least its answer for fewer.
LEMMA HighestGrows ==
  ASSUME NEW c \in Calls, NEW d \in Calls, NEW a, NEW b,
         d.event_type = c.event_type, d.severity = c.severity,
         d.age_group = c.age_group, c.tags \subseteq d.tags,
         Highest(a, c, Len(Rules) + 1), Highest(b, d, Len(Rules) + 1)
  PROVE  AtLeast(b, a)
<1>1. \A i \in 1..Len(Rules) : Applies(Rules[i], c) => Applies(Rules[i], d)
  BY DEF Applies, Hit
<1>2. SUFFICES ASSUME a # None PROVE b # None /\ Rank(b) >= Rank(a)
  BY DEF AtLeast
<1>3. PICK i \in 1..Len(Rules) : Applies(Rules[i], c) /\ a = Rules[i].level
  BY <1>2, RulesAssumption DEF Highest
<1>4. Applies(Rules[i], d)
  BY <1>1, <1>3
<1>5. i \in {j \in 1..(Len(Rules) + 1) - 1 : Applies(Rules[j], d)}
  BY <1>3, <1>4, RulesAssumption
<1>6. /\ \E j \in 1..(Len(Rules) + 1) - 1 : b = Rules[j].level
      /\ Rank(a) <= Rank(b)
  BY <1>3, <1>5 DEF Highest
<1>7. b # None
  BY <1>6, RuleLevel, RulesAssumption
<1> QED BY <1>6, <1>7, RankType

\* With more tags evaluate_risk never returns less, and never None where it
\* returned a level, for every table whose rules ask for a tag to be there.
THEOREM MonotoneInTags == Spec => []MoreTagsNeverLower
<1>1. ASSUME LoopInv PROVE MoreTagsNeverLower
  <2> SUFFICES ASSUME pc = "done", NEW t \in Tags
               PROVE  AtLeast(Result([call EXCEPT !.tags = @ \cup {t}]), matched)
    BY DEF MoreTagsNeverLower
  <2> DEFINE d == [call EXCEPT !.tags = @ \cup {t}]
  <2>1. call \in Calls /\ d \in Calls
    BY <1>1 DEF LoopInv, TypeOK, Calls
  <2>2. /\ d.event_type = call.event_type /\ d.severity = call.severity
        /\ d.age_group = call.age_group /\ call.tags \subseteq d.tags
        /\ d.magnitude = call.magnitude
    BY <2>1 DEF Calls
  <2>3. CASE call.event_type # Earthquake
    <3>1. Highest(matched, call, Len(Rules) + 1)
      BY <1>1, <2>3 DEF LoopInv, ResultIsHighest
    <3>2. Highest(Result(d), d, Len(Rules) + 1)
      BY <2>2, <2>3, HighestExists DEF Result
    <3> QED BY <2>1, <2>2, <3>1, <3>2, HighestGrows
  <2>4. CASE call.event_type = Earthquake
    <3>1. matched = IF call.magnitude = None
                      THEN None ELSE EarthquakeRisk(call.magnitude, call.tags)
      BY <1>1, <2>4 DEF LoopInv
    <3>2. Result(d) = IF call.magnitude = None
                        THEN None ELSE EarthquakeRisk(call.magnitude, d.tags)
      BY <2>2, <2>4 DEF Result
    <3>3. CASE call.magnitude = None
      BY <3>1, <3>3 DEF AtLeast
    <3>4. CASE call.magnitude # None
      <4>1. call.magnitude \in Int
        BY <2>1, <3>4, MagnitudesAssumption DEF Calls
      <4>2. AtLeast(EarthquakeRisk(call.magnitude, d.tags),
                    EarthquakeRisk(call.magnitude, call.tags))
        BY <2>2, <4>1, MagnitudesAssumption, NoneAssumption
           DEF EarthquakeRisk, AtLeast, Rank, Levels
      <4> QED BY <3>1, <3>2, <3>4, <4>2
    <3> QED BY <3>3, <3>4
  <2> QED BY <2>3, <2>4
<1> QED BY <1>1, LoopInit, LoopStep, PTL DEF Spec

(***************************************************************************)
(* Graver events.                                                          *)
(***************************************************************************)
\* Rule q catches at a warning whomever rule r catches at an advisory.
Covers(q, r) ==
  /\ q.event_type = r.event_type /\ q.severity \in {None, "WARNING"}
  /\ q.trigger = "everyone" \/ (q.trigger = r.trigger /\ q.value = r.value)
  /\ Rank(q.level) >= Rank(r.level)

\* A condition on tables: what is said of advisories alone is covered.
AdvisoriesCovered ==
  \A i \in 1..Len(Rules) : Rules[i].severity = "ADVISORY" =>
    \E j \in 1..Len(Rules) : Covers(Rules[j], Rules[i])

\* The loop's answer to the warning is at least its answer to the advisory.
LEMMA WarningAnswered ==
  ASSUME AdvisoriesCovered, NEW c \in Calls, NEW d \in Calls, NEW a, NEW b,
         c.severity = "ADVISORY", d.severity = "WARNING",
         d.event_type = c.event_type, d.age_group = c.age_group, d.tags = c.tags,
         Highest(a, c, Len(Rules) + 1), Highest(b, d, Len(Rules) + 1)
  PROVE  AtLeast(b, a)
<1>1. SUFFICES ASSUME a # None PROVE b # None /\ Rank(b) >= Rank(a)
  BY DEF AtLeast
<1>2. PICK i \in 1..Len(Rules) : Applies(Rules[i], c) /\ a = Rules[i].level
  BY <1>1, RulesAssumption DEF Highest
<1>3. PICK j \in 1..Len(Rules) : Applies(Rules[j], d) /\ Rank(Rules[j].level) >= Rank(a)
  <2>1. CASE Rules[i].severity = None
    BY <1>2, <2>1, RankType DEF Applies, Hit
  <2>2. CASE Rules[i].severity = "ADVISORY"
    <3>1. PICK j \in 1..Len(Rules) : Covers(Rules[j], Rules[i])
      BY <2>2 DEF AdvisoriesCovered
    <3>2. Applies(Rules[j], d)
      BY <1>2, <3>1 DEF Covers, Applies, Hit
    <3> QED BY <1>2, <3>1, <3>2 DEF Covers
  <2> QED BY <1>2, <2>1, <2>2 DEF Applies
<1>4. j \in {k \in 1..(Len(Rules) + 1) - 1 : Applies(Rules[k], d)}
  BY <1>3, RulesAssumption
<1>5. /\ \E k \in 1..(Len(Rules) + 1) - 1 : b = Rules[k].level
      /\ Rank(Rules[j].level) <= Rank(b)
  BY <1>4 DEF Highest
<1>6. b # None
  BY <1>5, RuleLevel, RulesAssumption
<1> QED BY <1>3, <1>5, <1>6, RankType

LEMMA StrongerQuake ==
  ASSUME NEW m \in Int, NEW n \in Int, n >= m, NEW tags
  PROVE  AtLeast(EarthquakeRisk(n, tags), EarthquakeRisk(m, tags))
BY MagnitudesAssumption, NoneAssumption DEF EarthquakeRisk, AtLeast, Rank, Levels

\* An advisory that becomes a warning, and a stronger earthquake, never lower
\* what evaluate_risk returns, for every table in which a rule for advisories
\* is covered by one that holds at warnings.
THEOREM EscalationHolds ==
  ASSUME AdvisoriesCovered
  PROVE  Spec => []EscalationNeverLowers
<1>1. ASSUME LoopInv, pc = "done" PROVE EscalationNeverLowers
  <2>0. call \in Calls
    BY <1>1 DEF LoopInv, TypeOK
  <2>1. ASSUME call.severity = "ADVISORY"
        PROVE  AtLeast(Result([call EXCEPT !.severity = "WARNING"]), matched)
    <3> DEFINE d == [call EXCEPT !.severity = "WARNING"]
    <3>1. /\ d \in Calls /\ d.severity = "WARNING" /\ d.event_type = call.event_type
          /\ d.age_group = call.age_group /\ d.tags = call.tags
          /\ d.magnitude = call.magnitude
      BY <2>0 DEF Calls, Severities
    <3> HIDE DEF d
    <3>2. CASE call.event_type # Earthquake
      <4>1. Highest(matched, call, Len(Rules) + 1)
        BY <1>1, <3>2 DEF LoopInv, ResultIsHighest
      <4>2. Highest(Result(d), d, Len(Rules) + 1)
        BY <3>1, <3>2, HighestExists DEF Result
      <4>3. AtLeast(Result(d), matched)
        BY <2>0, <2>1, <3>1, <4>1, <4>2, WarningAnswered
      <4> QED BY <4>3 DEF d
    <3>3. CASE call.event_type = Earthquake
      <4>1. Result(d) = matched
        BY <1>1, <3>1, <3>3 DEF LoopInv, Result
      <4>2. AtLeast(Result(d), matched)
        BY <4>1, RankType DEF AtLeast
      <4> QED BY <4>2 DEF d
    <3> QED BY <3>2, <3>3
  <2>2. ASSUME call.magnitude # None, NEW m \in Magnitudes, m >= call.magnitude
        PROVE  AtLeast(Result([call EXCEPT !.magnitude = m]), matched)
    <3> DEFINE d == [call EXCEPT !.magnitude = m]
    <3>1. /\ d \in Calls /\ d.severity = call.severity /\ d.event_type = call.event_type
          /\ d.age_group = call.age_group /\ d.tags = call.tags
          /\ d.magnitude = m /\ m \in Int /\ call.magnitude \in Int /\ m # None
      BY <2>0, <2>2, MagnitudesAssumption, NoneAssumption DEF Calls
    <3> HIDE DEF d
    <3>2. CASE call.event_type # Earthquake
      <4>1. Highest(matched, call, Len(Rules) + 1)
        BY <1>1, <3>2 DEF LoopInv, ResultIsHighest
      <4>2. Highest(Result(d), d, Len(Rules) + 1)
        BY <3>1, <3>2, HighestExists DEF Result
      <4>3. AtLeast(Result(d), matched)
        BY <2>0, <3>1, <4>1, <4>2, HighestGrows
      <4> QED BY <4>3 DEF d
    <3>3. CASE call.event_type = Earthquake
      <4>1. /\ matched = EarthquakeRisk(call.magnitude, call.tags)
            /\ Result(d) = EarthquakeRisk(m, call.tags)
        BY <1>1, <2>2, <3>1, <3>3 DEF LoopInv, Result
      <4>2. AtLeast(Result(d), matched)
        BY <2>2, <3>1, <4>1, StrongerQuake
      <4> QED BY <4>2 DEF d
    <3> QED BY <3>2, <3>3
  <2> QED BY <1>1, <2>1, <2>2 DEF EscalationNeverLowers
<1>2. LoopInv => EscalationNeverLowers
  BY <1>1 DEF EscalationNeverLowers
<1> QED BY <1>2, LoopInit, LoopStep, PTL DEF Spec

(***************************************************************************)
(* The table of the code.                                                  *)
(***************************************************************************)
Rows == {HeatAndCold[i] : i \in 1..7} \cup {RainAndSnow[i] : i \in 1..7} \cup {Flood[i] : i \in 1..3}

\* Only the rules on floods tell advisories and warnings apart.
LEMMA OthersForAny ==
  /\ Len(HeatAndCold) = 7 /\ HeatAndCold \in Seq(Rows)
  /\ Len(RainAndSnow) = 7 /\ RainAndSnow \in Seq(Rows)
  /\ \A i \in 1..7 : HeatAndCold[i].severity = None /\ RainAndSnow[i].severity = None
<1>1. /\ Len(HeatAndCold) = 7 /\ HeatAndCold = [i \in 1..7 |-> HeatAndCold[i]]
      /\ \A i \in 1..7 : HeatAndCold[i].severity = None
  BY DEF HeatAndCold, ForAge, ForTag, Rule
<1>2. /\ Len(RainAndSnow) = 7 /\ RainAndSnow = [i \in 1..7 |-> RainAndSnow[i]]
      /\ \A i \in 1..7 : RainAndSnow[i].severity = None
  BY DEF RainAndSnow, ForAge, ForTag, Rule
<1>3. \A i \in 1..7 : HeatAndCold[i] \in Rows /\ RainAndSnow[i] \in Rows
  BY DEF Rows
<1>4. HeatAndCold \in Seq(Rows) /\ RainAndSnow \in Seq(Rows)
  BY <1>1, <1>2, <1>3
<1> QED BY <1>1, <1>2, <1>4

\* Whoever is alerted to the advisory of a flood is alerted to its warning.
LEMMA FloodCovered ==
  /\ Len(Flood) = 3 /\ Flood \in Seq(Rows)
  /\ \A i \in 1..3 : Flood[i].severity = "ADVISORY" => Covers(Flood[1], Flood[i])
<1>1. Len(Flood) = 3 /\ Flood = [i \in 1..3 |-> Flood[i]]
  BY DEF Flood, Rule
<1>2. \A i \in 1..3 : Flood[i].severity = "ADVISORY" => Covers(Flood[1], Flood[i])
  BY DEF Flood, Rule, Covers, Rank
<1>3. \A i \in 1..3 : Flood[i] \in Rows
  BY DEF Rows
<1>4. Flood \in Seq(Rows)
  BY <1>1, <1>3
<1> QED BY <1>1, <1>2, <1>4

\* In particular the table of the code, whose only advisories are floods.
THEOREM EscalationOfTheCode ==
  ASSUME Rules = RISK_MATRIX
  PROVE  Spec => []EscalationNeverLowers
<1>1. AdvisoriesCovered
  <2> SUFFICES ASSUME NEW i \in 1..Len(Rules), Rules[i].severity = "ADVISORY"
               PROVE  \E j \in 1..Len(Rules) : Covers(Rules[j], Rules[i])
    BY DEF AdvisoriesCovered
  <2> DEFINE others == HeatAndCold \o RainAndSnow
  <2>1. /\ others \in Seq(Rows) /\ Len(others) = 14
        /\ \A k \in 1..14 : others[k].severity = None
    <3>1. /\ others \in Seq(Rows) /\ Len(others) = 7 + 7
          /\ \A k \in 1..7 : others[k] = HeatAndCold[k] /\ others[7 + k] = RainAndSnow[k]
      <4>1. /\ others \in Seq(Rows) /\ Len(others) = Len(HeatAndCold) + Len(RainAndSnow)
            /\ \A k \in 1..Len(HeatAndCold) : others[k] = HeatAndCold[k]
            /\ \A k \in 1..Len(RainAndSnow) :
                 others[Len(HeatAndCold) + k] = RainAndSnow[k]
        <5>1. HeatAndCold \in Seq(Rows) /\ RainAndSnow \in Seq(Rows)
          BY OthersForAny
        <5> QED BY <5>1
      <4> HIDE DEF others
      <4> QED BY <4>1, OthersForAny
    <3> HIDE DEF others
    <3>2. ASSUME NEW k \in 1..14 PROVE others[k].severity = None
      <4>1. CASE k \in 1..7
        BY <3>1, <4>1, OthersForAny
      <4>2. CASE k - 7 \in 1..7
        <5>1. k = 7 + (k - 7)
          OBVIOUS
        <5>2. others[k] = RainAndSnow[k - 7]
          BY <3>1, <4>2, <5>1
        <5> QED BY <4>2, <5>2, OthersForAny
      <4> QED BY <4>1, <4>2
    <3> QED BY <3>1, <3>2
  <2>2. Rules = others \o Flood
    BY DEF RISK_MATRIX
  <2> HIDE DEF others
  <2>3. /\ Len(Rules) = 17
        /\ \A k \in 1..14 : Rules[k] = others[k]
        /\ \A k \in 1..3 : Rules[14 + k] = Flood[k]
    <3>1. /\ Len(Rules) = Len(others) + Len(Flood)
          /\ \A k \in 1..Len(others) : Rules[k] = others[k]
          /\ \A k \in 1..Len(Flood) : Rules[Len(others) + k] = Flood[k]
      <4>1. others \in Seq(Rows) /\ Flood \in Seq(Rows)
        BY <2>1, FloodCovered
      <4> QED BY <2>2, <4>1
    <3> QED BY <2>1, <3>1, FloodCovered
  <2>4. i \notin 1..14
    BY <2>1, <2>3, NoneAssumption DEF Severities
  <2>5. i - 14 \in 1..3 /\ Rules[i] = Flood[i - 14] /\ Rules[15] = Flood[1]
    <3>1. i - 14 \in 1..3 /\ i = 14 + (i - 14)
      BY <2>3, <2>4
    <3>2. Rules[14 + 1] = Flood[1]
      BY <2>3
    <3> QED BY <2>3, <3>1, <3>2
  <2> QED BY <2>3, <2>5, FloodCovered
<1> QED BY <1>1, EscalationHolds
=============================================================================
