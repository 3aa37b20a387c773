-------------------------- MODULE RuleTriageProofs --------------------------
(***************************************************************************)
(* Proofs about RuleTriage for all rule files of the shape RulesAssumption *)
(* describes, all batches and any number of saves: the type invariant,     *)
(* that more behaviour never means less risk, and what a malicious verdict *)
(* rests on.                                                               *)
(***************************************************************************)
EXTENDS RuleTriage, TLAPS

\* A rule that looks for features that are there applies to more, not to less.
LEMMA RisingRuleKeepsApplying ==
  ASSUME NEW rule, Rising(rule), NEW s, NEW t, s \subseteq t, Applies(rule, s)
  PROVE  Applies(rule, t)
<1>1. \A c \in rule.conditions :
        (c.feature \in s) = c.equals => (c.feature \in t) = c.equals
  <2> SUFFICES ASSUME NEW c \in rule.conditions, (c.feature \in s) = c.equals
               PROVE  (c.feature \in t) = c.equals
    OBVIOUS
  <2>1. c.equals
    BY DEF Rising
  <2>2. c.feature \in s
    BY <2>1
  <2> QED BY <2>2
<1> QED BY <1>1 DEF Applies

\* Derived features and extra patterns grow with the behaviour.
LEMMA DerivationGrows ==
  ASSUME NEW read \in Readings(DerivedPlaces), NEW s, NEW t, s \subseteq t
  PROVE  /\ DerivedFeatures(read, s) \subseteq DerivedFeatures(read, t)
         /\ ExtraFeatures(read, s) \subseteq ExtraFeatures(read, t)
<1>0. read.places \subseteq DerivedPlaces
  BY DEF Readings
<1>1. Applying(read, s) \subseteq Applying(read, t)
  BY <1>0, RisingRuleKeepsApplying, RulesAssumption DEF Applying
<1> QED BY <1>1 DEF DerivedFeatures, ExtraFeatures

LEMMA DerivationTypes ==
  ASSUME NEW read \in Readings(DerivedPlaces), NEW t
  PROVE  /\ DerivedFeatures(read, t) \subseteq UNION {DerivedRules[i].sets : i \in DerivedPlaces}
         /\ ExtraFeatures(read, t)
              \subseteq UNION {DerivedRules[i].extra \cup DerivedRules[i].short : i \in DerivedPlaces}
<1>1. Applying(read, t) \subseteq DerivedPlaces
  BY DEF Applying, Readings
<1> QED BY <1>1 DEF DerivedFeatures, ExtraFeatures

LEMMA NothingLoaded == NotLoaded \in Readings(DerivedPlaces)
BY DEF NotLoaded, Readings

\* What the rules that were read make of derived features: the first rule that
\* applies, or the default.
Outcome(read, derived, assessment) ==
  \/ Undecided(read.places, derived) /\ assessment = Default
  \/ \E i \in read.places : /\ Decides(read.places, derived, i)
                            /\ assessment = Assessment(read, i)

LEMMA RiskFacts ==
  /\ Default.risk_score \in Nat
  /\ \A i \in AssessmentPlaces :
       /\ AssessmentRules[i].assessment.risk_score \in Nat
       /\ Default.risk_score <= AssessmentRules[i].assessment.risk_score
       /\ \/ Rising(AssessmentRules[i])
          \/ AssessmentRules[i].assessment.risk_score = Default.risk_score
       /\ \A j \in AssessmentPlaces : i <= j =>
            AssessmentRules[j].assessment.risk_score <= AssessmentRules[i].assessment.risk_score
BY RulesAssumption

\* With more derived features the rule that decides comes no later in the file,
\* or was one of the lowest risk.
LEMMA RiskGrows ==
  ASSUME NEW read \in Readings(AssessmentPlaces), read.cut = {},
         NEW d, NEW e, d \subseteq e, NEW a, NEW b,
         Outcome(read, d, a), Outcome(read, e, b)
  PROVE  a.risk_score <= b.risk_score
<1> DEFINE places == read.places
<1>0. /\ places \subseteq AssessmentPlaces
      /\ \A i \in places : Assessment(read, i) = AssessmentRules[i].assessment
  BY DEF Readings, Assessment
<1>1. a.risk_score \in Nat /\ b.risk_score \in Nat /\ Default.risk_score <= b.risk_score
  BY <1>0, RiskFacts DEF Outcome
<1>2. CASE a.risk_score = Default.risk_score
  BY <1>1, <1>2
<1>3. CASE a.risk_score # Default.risk_score
  <2>1. PICK i \in places : /\ Decides(places, d, i)
                            /\ a = AssessmentRules[i].assessment
    BY <1>0, <1>3 DEF Outcome
  <2>2. Rising(AssessmentRules[i])
    BY <1>0, <1>3, <2>1, RiskFacts
  <2>3. Applies(AssessmentRules[i], e)
    BY <2>1, <2>2, RisingRuleKeepsApplying DEF Decides
  <2>4. ~Undecided(places, e)
    BY <2>3 DEF Undecided
  <2>5. PICK j \in places : /\ Decides(places, e, j)
                            /\ b = AssessmentRules[j].assessment
    BY <1>0, <2>4 DEF Outcome
  <2>6. j <= i
    BY <2>3, <2>5 DEF Decides
  <2> QED BY <1>0, <2>1, <2>5, <2>6, RiskFacts
<1> QED BY <1>2, <1>3

\* Every result is what the rules that were read for it make of its incident.
ResultsFollowRules ==
  \A n \in DOMAIN results :
    /\ results[n].derived = DerivedFeatures(results[n].derivedRules, behaviours[n])
    /\ results[n].extra = ExtraFeatures(results[n].derivedRules, behaviours[n])
    /\ Outcome(results[n].assessmentRules, results[n].derived, results[n].assessment)

IncidentAtHand == status = "assessing" => Len(results) < Incidents

IInv == TriageTypeOK /\ ResultsFollowRules /\ IncidentAtHand

LEMMA InitInv == Init => IInv
<1> SUFFICES ASSUME Init PROVE IInv
  OBVIOUS
<1>1. <<>> \in Seq(TriageResults) /\ Len(<<>>) = 0 /\ DOMAIN <<>> = {}
  OBVIOUS
<1>2. TriageTypeOK
  BY <1>1, NothingLoaded, RulesAssumption DEF Init, TriageTypeOK, Files
<1> QED BY <1>1, <1>2 DEF Init, IInv, ResultsFollowRules, IncidentAtHand

\* Saving a file touches neither the rules loaded nor the results.
LEMMA SaveInv ==
  ASSUME IInv, Save
  PROVE  IInv'
<1>1. CASE FinishSave
  <2>1. TriageTypeOK'
    BY <1>1, RulesAssumption DEF IInv, TriageTypeOK, FinishSave, Files, Places
  <2>2. ResultsFollowRules'
    BY <1>1 DEF IInv, FinishSave, ResultsFollowRules, Outcome, Decides, Undecided, Assessment
  <2> QED BY <1>1, <2>1, <2>2 DEF IInv, IncidentAtHand, FinishSave
<1>2. ASSUME NEW file \in Files, NEW i \in Places(file), BeginSave(file, i)
      PROVE  IInv'
  <2> DEFINE new == IF i \in disk[file] THEN disk[file] \ {i} ELSE disk[file] \cup {i}
  <2>1. new \subseteq Places(file)
    BY DEF IInv, TriageTypeOK
  <2>2. /\ saves < MaxSaves /\ saves' = saves + 1
        /\ saving' = [file |-> file, content |-> new]
        /\ UNCHANGED <<behaviours, rules, results, status>>
        /\ refused' \in {{}, {file}}
    BY <1>2 DEF BeginSave
  <2>3. PICK k \in Places(file) :
          \/ disk' = [disk EXCEPT ![file] = {j \in new : j < k}] /\ cut' = {}
          \/ disk' = [disk EXCEPT ![file] = {j \in new : j <= k}] /\ cut' = {k}
    BY <1>2 DEF BeginSave
  <2> HIDE DEF new
  <2>4. /\ cut' \subseteq Places(file)
        /\ disk' \in [Files -> SUBSET (DerivedPlaces \cup AssessmentPlaces)]
        /\ \A f \in Files : disk'[f] \subseteq Places(f)
    BY <2>1, <2>3 DEF IInv, TriageTypeOK, Places
  <2>5. saves' \in 0..MaxSaves
    BY <2>2, RulesAssumption DEF IInv, TriageTypeOK
  <2>6. TriageTypeOK'
    BY <2>1, <2>2, <2>4, <2>5 DEF IInv, TriageTypeOK
  <2>7. ResultsFollowRules'
    BY <2>2 DEF IInv, ResultsFollowRules, Outcome, Decides, Undecided, Assessment
  <2> QED BY <2>2, <2>6, <2>7 DEF IInv, IncidentAtHand
<1> QED BY <1>1, <1>2 DEF Save

\* A refused batch has no results.
LEMMA RefusedInv ==
  ASSUME IInv, RefuseBatch, UNCHANGED <<behaviours, disk, refused, cut, saving, saves>>
  PROVE  IInv'
<1>1. <<>> \in Seq(TriageResults) /\ Len(<<>>) = 0 /\ DOMAIN <<>> = {}
  OBVIOUS
<1>2. TriageTypeOK'
  BY <1>1, NothingLoaded, RulesAssumption DEF IInv, RefuseBatch, TriageTypeOK
<1> QED BY <1>1, <1>2 DEF IInv, RefuseBatch, ResultsFollowRules, IncidentAtHand

LEMMA LoadInv ==
  ASSUME IInv, LoadDerivedRules
  PROVE  IInv'
<1>1. UNCHANGED <<behaviours, disk, refused, cut, saving, saves>>
  BY DEF LoadDerivedRules
<1>2. CASE RefuseBatch
  BY <1>1, <1>2, RefusedInv
<1>3. CASE rules' = Reading("derived") /\ status' = "assessing" /\ results' = results
  <2>1. Reading("derived") \in Readings(DerivedPlaces)
    BY DEF IInv, TriageTypeOK, Files, Places, Reading, Readings
  <2>2. TriageTypeOK'
    BY <1>1, <1>3, <2>1 DEF IInv, TriageTypeOK
  <2>3. Len(results) < Incidents
    BY DEF LoadDerivedRules
  <2> QED BY <1>1, <1>3, <2>2, <2>3
          DEF IInv, ResultsFollowRules, IncidentAtHand, Outcome, Decides, Undecided, Assessment
<1> QED BY <1>2, <1>3 DEF LoadDerivedRules

\* A result added follows the rules just read; the earlier ones stay.
LEMMA AddInv ==
  ASSUME IInv, status = "assessing",
         NEW assessment, Outcome(Reading("assessment"),
                                 DerivedFeatures(rules, behaviours[Len(results) + 1]), assessment),
         results' = Append(results,
                      Triage(DerivedFeatures(rules, behaviours[Len(results) + 1]),
                             ExtraFeatures(rules, behaviours[Len(results) + 1]), assessment)),
         rules' = NotLoaded, status' = "loading",
         UNCHANGED <<behaviours, disk, refused, cut, saving, saves>>
  PROVE  IInv'
<1> DEFINE true == behaviours[Len(results) + 1]
           new == Triage(DerivedFeatures(rules, true), ExtraFeatures(rules, true), assessment)
<1>1. Reading("assessment") \in Readings(AssessmentPlaces) /\ rules \in Readings(DerivedPlaces)
  BY DEF IInv, TriageTypeOK, Files, Places, Reading, Readings
<1>2. assessment \in {Default} \cup {AssessmentRules[i].assessment : i \in AssessmentPlaces}
                               \cup {AssessmentRules[i].short : i \in AssessmentPlaces}
  <2>1. Reading("assessment").places \subseteq AssessmentPlaces
    BY <1>1 DEF Readings
  <2> QED BY <2>1 DEF Outcome, Assessment
<1>3. new \in TriageResults
  BY <1>1, <1>2, DerivationTypes DEF Triage, TriageResults
<1>4. /\ results \in Seq(TriageResults) /\ Len(results) \in Nat /\ Incidents \in Nat
      /\ Len(results) < Incidents
  BY RulesAssumption DEF IInv, TriageTypeOK, IncidentAtHand
<1>5. new.derived = DerivedFeatures(rules, true) /\ new.extra = ExtraFeatures(rules, true)
      /\ new.derivedRules = rules /\ new.assessmentRules = Reading("assessment")
      /\ new.assessment = assessment
  BY DEF Triage
<1>6. results' = Append(results, new)
  OBVIOUS
<1>7. Outcome(new.assessmentRules, new.derived, new.assessment)
  BY <1>5
<1> HIDE DEF new
<1>8. /\ results' \in Seq(TriageResults) /\ Len(results') = Len(results) + 1
      /\ DOMAIN results' = 1..(Len(results) + 1) /\ DOMAIN results = 1..Len(results)
      /\ \A n \in 1..Len(results) : results'[n] = results[n]
      /\ results'[Len(results) + 1] = new
  BY <1>3, <1>4, <1>6
<1>9. TriageTypeOK'
  BY <1>4, <1>8, NothingLoaded DEF IInv, TriageTypeOK
<1>10. ResultsFollowRules'
  <2> SUFFICES ASSUME NEW n \in 1..(Len(results) + 1)
               PROVE  /\ results'[n].derived = DerivedFeatures(results'[n].derivedRules, behaviours[n])
                      /\ results'[n].extra = ExtraFeatures(results'[n].derivedRules, behaviours[n])
                      /\ Outcome(results'[n].assessmentRules, results'[n].derived,
                                 results'[n].assessment)
    BY <1>8 DEF ResultsFollowRules, Outcome, Decides, Undecided, Assessment
  <2>1. CASE n \in 1..Len(results)
    BY <2>1, <1>8 DEF IInv, ResultsFollowRules
  <2>2. CASE n = Len(results) + 1
    BY <2>2, <1>5, <1>7, <1>8
  <2>3. n \in 1..Len(results) \/ n = Len(results) + 1
    BY <1>4
  <2> QED BY <2>1, <2>2, <2>3
<1> QED BY <1>9, <1>10 DEF IInv, IncidentAtHand

LEMMA AssessInv ==
  ASSUME IInv, Assess
  PROVE  IInv'
<1> DEFINE true == behaviours[Len(results) + 1]
           derived == DerivedFeatures(rules, true)
           read == Reading("assessment")
           Added(assessment) ==
             /\ results' = Append(results, Triage(derived, ExtraFeatures(rules, true), assessment))
             /\ rules' = NotLoaded /\ status' = "loading"
<1>1. status = "assessing" /\ UNCHANGED <<behaviours, disk, refused, cut, saving, saves>>
  BY DEF Assess
<1>2. \/ RefuseBatch
      \/ Undecided(read.places, derived) /\ Added(Default)
      \/ \E i \in read.places : Decides(read.places, derived, i) /\ Added(Assessment(read, i))
  BY DEF Assess, Reading
<1>3. CASE RefuseBatch
  BY <1>1, <1>3, RefusedInv
<1>4. CASE Undecided(read.places, derived) /\ Added(Default)
  <2>1. Outcome(read, derived, Default)
    BY <1>4 DEF Outcome
  <2> QED BY <1>1, <1>4, <2>1, AddInv
<1>5. ASSUME NEW i \in read.places, Decides(read.places, derived, i), Added(Assessment(read, i))
      PROVE  IInv'
  <2>1. Outcome(read, derived, Assessment(read, i))
    BY <1>5 DEF Outcome
  <2> QED BY <1>1, <1>5, <2>1, AddInv
<1> HIDE DEF Added, read, derived
<1> QED BY <1>2, <1>3, <1>4, <1>5

LEMMA ReturnInv ==
  ASSUME IInv, Return
  PROVE  IInv'
BY DEF IInv, Return, TriageTypeOK, ResultsFollowRules, IncidentAtHand,
       Outcome, Decides, Undecided, Assessment

LEMMA StutterInv ==
  ASSUME IInv, UNCHANGED vars
  PROVE  IInv'
BY DEF vars, IInv, TriageTypeOK, ResultsFollowRules, IncidentAtHand,
       Outcome, Decides, Undecided, Assessment

LEMMA NextInv == IInv /\ [Next]_vars => IInv'
<1> SUFFICES ASSUME IInv, [Next]_vars PROVE IInv'
  OBVIOUS
<1>1. CASE LoadDerivedRules
  BY <1>1, LoadInv
<1>2. CASE Assess
  BY <1>2, AssessInv
<1>3. CASE Return
  BY <1>3, ReturnInv
<1>4. CASE Save
  BY <1>4, SaveInv
<1>5. CASE UNCHANGED vars
  BY <1>5, StutterInv
<1> QED BY <1>1, <1>2, <1>3, <1>4, <1>5 DEF Next

LEMMA Invariant == Spec => []IInv
BY InitInv, NextInv, PTL DEF Spec

LEMMA InvImpliesMonotone == IInv => MoreBehaviourNeverLessRisk
<1> SUFFICES ASSUME IInv, NEW m \in DOMAIN results, NEW n \in DOMAIN results,
                    behaviours[m] \subseteq behaviours[n],
                    results[m].derivedRules = results[n].derivedRules,
                    results[m].assessmentRules = results[n].assessmentRules,
                    results[m].assessmentRules.cut = {}
             PROVE  /\ results[m].assessment.risk_score <= results[n].assessment.risk_score
                    /\ results[m].derived \subseteq results[n].derived
                    /\ results[m].extra \subseteq results[n].extra
  BY DEF MoreBehaviourNeverLessRisk
<1>1. results[m] \in TriageResults
  <2>1. results \in Seq(TriageResults)
    BY DEF IInv, TriageTypeOK
  <2> QED BY <2>1
<1>2. /\ results[m].derivedRules \in Readings(DerivedPlaces)
      /\ results[m].assessmentRules \in Readings(AssessmentPlaces)
  BY <1>1 DEF TriageResults
<1>3. /\ results[m].derived \subseteq results[n].derived
      /\ results[m].extra \subseteq results[n].extra
  BY <1>2, DerivationGrows DEF IInv, ResultsFollowRules
<1>4. /\ Outcome(results[m].assessmentRules, results[m].derived, results[m].assessment)
      /\ Outcome(results[m].assessmentRules, results[n].derived, results[n].assessment)
  BY DEF IInv, ResultsFollowRules
<1> QED BY <1>2, <1>3, <1>4, RiskGrows

\* The rule files, the loaded rules and the results keep their types.
THEOREM TriageTypeCorrect == Spec => []TriageTypeOK
<1>1. IInv => TriageTypeOK
  BY DEF IInv
<1> QED BY <1>1, Invariant, PTL

\* Whatever the rules of the assumed shape and whichever are enabled: of two
\* incidents triaged by the same rules, none of them cut inside its risk score, more
\* behaviour never means less risk.
THEOREM TriageMonotone == Spec => []MoreBehaviourNeverLessRisk
BY Invariant, InvImpliesMonotone, PTL

LEMMA DemandIsMet ==
  ASSUME NEW rule, NEW feature, Demands(rule, feature), NEW true, Applies(rule, true)
  PROVE  feature \in true
<1>1. PICK c \in rule.conditions : c.equals /\ c.feature = feature
  BY DEF Demands
<1>2. (c.feature \in true) = c.equals
  BY <1>1 DEF Demands, Applies
<1>3. c.feature \in true
  BY <1>1, <1>2
<1> QED BY <1>1, <1>3

\* From the verdict back to the incident: the rule that decided found its features
\* derived, and whatever derived them found the signal.
LEMMA InvImpliesSignals == IInv => MaliciousNeedsEverySignal
<1> SUFFICES ASSUME IInv, NEW n \in DOMAIN results,
                    results[n].assessment.verdict = "malicious", NEW signal \in Signals
             PROVE  signal \in behaviours[n]
  BY DEF MaliciousNeedsEverySignal
<1>1. /\ results[n].derivedRules.places \subseteq DerivedPlaces
      /\ results[n].assessmentRules.places \subseteq AssessmentPlaces
  <2>1. results \in Seq(TriageResults)
    BY DEF IInv, TriageTypeOK
  <2>2. results[n] \in TriageResults
    BY <2>1
  <2> QED BY <2>2 DEF TriageResults, Readings
<1>2. /\ results[n].derived = DerivedFeatures(results[n].derivedRules, behaviours[n])
      /\ Outcome(results[n].assessmentRules, results[n].derived, results[n].assessment)
  BY DEF IInv, ResultsFollowRules
<1>3. PICK i \in results[n].assessmentRules.places :
        /\ Decides(results[n].assessmentRules.places, results[n].derived, i)
        /\ AssessmentRules[i].assessment.verdict = "malicious"
  <2>1. PICK i \in results[n].assessmentRules.places :
          /\ Decides(results[n].assessmentRules.places, results[n].derived, i)
          /\ results[n].assessment = Assessment(results[n].assessmentRules, i)
    BY <1>2, MaliciousAssumption DEF Outcome
  <2>2. AssessmentRules[i].short.verdict = AssessmentRules[i].assessment.verdict
    BY <1>1, <2>1, RulesAssumption
  <2> QED BY <2>1, <2>2 DEF Assessment
<1>4. PICK c \in AssessmentRules[i].conditions :
        /\ Demands(AssessmentRules[i], c.feature)
        /\ \A j \in DerivedPlaces :
             c.feature \in DerivedRules[j].sets => Demands(DerivedRules[j], signal)
  BY <1>1, <1>3, MaliciousAssumption
<1>5. c.feature \in results[n].derived
  BY <1>3, <1>4, DemandIsMet DEF Decides
<1>6. PICK j \in Applying(results[n].derivedRules, behaviours[n]) :
        c.feature \in DerivedRules[j].sets
  BY <1>2, <1>5 DEF DerivedFeatures
<1>7. Demands(DerivedRules[j], signal) /\ Applies(DerivedRules[j], behaviours[n])
  BY <1>1, <1>4, <1>6 DEF Applying
<1> QED BY <1>7, DemandIsMet

\* Whichever rules are enabled and however much of a file could be read: a malicious
\* verdict rests on all four signals of a download that is run.
THEOREM MaliciousNeedsSignals == Spec => []MaliciousNeedsEverySignal
BY Invariant, InvImpliesSignals, PTL
=============================================================================
