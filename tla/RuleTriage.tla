----------------------------- MODULE RuleTriage -----------------------------
(***************************************************************************)
(* Deterministic rule triage of a batch of incidents                       *)
(* (agents/rule-triage-agent/src: main.py, evaluator.py, rule_loader.py,   *)
(* rule_validator.py).  Both rule files are read again for every incident, *)
(* one after the other, while somebody may be saving them: an interrupted  *)
(* text can read as the first rules of the file, as none, or be refused.   *)
(* It can also end inside the last value of a rule: a shorter number is    *)
(* still a risk_score, a shorter name still an extra pattern.              *)
(* A rule file is represented by the places of the rules a reader finds in *)
(* it and finds enabled.  A behaviour that an incident lacks reads as      *)
(* False, so an incident is the set of behaviours that are True.           *)
(***************************************************************************)
EXTENDS Naturals, Sequences

CONSTANTS
  DerivedRules,      \* rules/derived_feature_rules.yaml, in file order
  AssessmentRules,   \* rules/assessment_rules.yaml, in file order
                     \* (a rule's "short" is what is read of it when it is cut)
  Default,           \* the assessment when no rule applies
  Reported,          \* the derived features triage_schema.json admits
  Behaviours,        \* sets of behaviours an incident may show
  Incidents,         \* number of incidents of the batch, in incident_id order
  Shipped,           \* places of the rules enabled in each file at the start
  MaxSaves           \* bound on saves of a rule file during the batch

DerivedPlaces == DOMAIN DerivedRules
AssessmentPlaces == DOMAIN AssessmentRules
Files == {"derived", "assessment"}
Places(file) == IF file = "derived" THEN DerivedPlaces ELSE AssessmentPlaces

\* A condition compares one feature with a boolean.
Rising(rule) == \A c \in rule.conditions : c.equals

\* The shape of the rules: derived-feature rules look for behaviour that is there
\* and set features to True; assessment rules come with the higher risk first,
\* and one that looks for something missing has the lowest risk.
ASSUME RulesAssumption ==
  /\ DerivedPlaces \subseteq Nat /\ AssessmentPlaces \subseteq Nat
  /\ Incidents \in Nat /\ MaxSaves \in Nat
  /\ Shipped \in [Files -> SUBSET (DerivedPlaces \cup AssessmentPlaces)]
  /\ \A file \in Files : Shipped[file] \subseteq Places(file)
  /\ \A i \in DerivedPlaces : Rising(DerivedRules[i])
  /\ Default.risk_score \in Nat
  /\ \A i \in AssessmentPlaces :
       LET risk == AssessmentRules[i].assessment.risk_score IN
       /\ risk \in Nat /\ Default.risk_score <= risk
       /\ Rising(AssessmentRules[i]) \/ risk = Default.risk_score
       /\ AssessmentRules[i].short.verdict = AssessmentRules[i].assessment.verdict
       /\ \A j \in AssessmentPlaces :
            i <= j => AssessmentRules[j].assessment.risk_score <= risk

\* A rule that applies only when a feature is there.
Demands(rule, feature) ==
  rule.when = "all" /\ \E c \in rule.conditions : c.equals /\ c.feature = feature

Signals ==
  {"remote_download", "execution_after_download", "temporary_path_execution", "direct_ip_download"}
\* The rules with the verdict malicious: for each signal they demand a derived feature
\* that no rule sets without demanding the signal.
ASSUME MaliciousAssumption ==
  /\ Default.verdict # "malicious"
  /\ \A i \in AssessmentPlaces : \A signal \in Signals :
       AssessmentRules[i].assessment.verdict = "malicious" =>
         \E c \in AssessmentRules[i].conditions :
           /\ Demands(AssessmentRules[i], c.feature)
           /\ \A j \in DerivedPlaces :
                c.feature \in DerivedRules[j].sets => Demands(DerivedRules[j], signal)

VARIABLES
  behaviours,   \* the incidents of the batch
  disk,         \* the enabled rules a reader of each file finds now
  refused,      \* files that cannot be loaded now
  cut,          \* the place of the rule cut inside its last value, if any
  saving,       \* the file being saved and what it will hold, or nothing
  saves,        \* saves begun so far
  rules,        \* what was loaded of the derived-feature rules
  results,      \* triage results so far
  status        \* "loading", "assessing", "returned" or "raised" (an exception)

vars == <<behaviours, disk, refused, cut, saving, saves, rules, results, status>>

\* What load_rules returns: the enabled rules, and those of them cut short.
Reading(file) ==
  [places |-> disk[file], cut |-> IF saving.file = file THEN cut ELSE {}]
NotLoaded == [places |-> {}, cut |-> {}]

\* A mistake: conditions are alternatives.
AppliesAny(rule, true) == \E c \in rule.conditions : (c.feature \in true) = c.equals

Applies(rule, true) ==
  IF rule.when = "all" THEN \A c \in rule.conditions : (c.feature \in true) = c.equals
                       ELSE \E c \in rule.conditions : (c.feature \in true) = c.equals
Applying(read, true) == {i \in read.places : Applies(DerivedRules[i], true)}
\* A mistake: the dictionary of derived features outlives the call.
DerivedCarriedOver(read, true) ==
  UNION {DerivedRules[i].sets : i \in Applying(read, true)}
    \cup IF results = <<>> THEN {} ELSE results[Len(results)].derived

DerivedFeatures(read, true) == UNION {DerivedRules[i].sets : i \in Applying(read, true)}
ExtraFeatures(read, true) ==
  UNION {IF i \in read.cut THEN DerivedRules[i].short ELSE DerivedRules[i].extra :
           i \in Applying(read, true)}

\* The first rule of the file that applies decides.
Decides(places, derived, i) ==
  /\ i \in places /\ Applies(AssessmentRules[i], derived)
  /\ \A j \in places : Applies(AssessmentRules[j], derived) => i <= j
Undecided(places, derived) ==
  \A i \in places : ~Applies(AssessmentRules[i], derived)
Assessment(read, i) ==
  IF i \in read.cut THEN AssessmentRules[i].short ELSE AssessmentRules[i].assessment

RefuseBatch == status' = "raised" /\ results' = <<>> /\ rules' = NotLoaded

Init ==
  /\ behaviours \in [1..Incidents -> Behaviours]
  /\ disk = Shipped /\ refused = {} /\ cut = {}
  /\ saving = [file |-> "none", content |-> {}] /\ saves = 0
  /\ rules = NotLoaded /\ results = <<>> /\ status = "loading"

\* load_rules raises on a missing file, a text that is no YAML, or rules the
\* validator refuses.
LoadDerivedRules ==
  /\ status = "loading" /\ Len(results) < Incidents
  /\ IF "derived" \in refused
     THEN RefuseBatch
     ELSE rules' = Reading("derived") /\ status' = "assessing" /\ results' = results
  /\ UNCHANGED <<behaviours, disk, refused, cut, saving, saves>>

Triage(derived, extra, assessment) ==
  [derived |-> derived, extra |-> extra, assessment |-> assessment,
   derivedRules |-> rules, assessmentRules |-> Reading("assessment")]

\* build_output: the result for the next incident; one that does not fit the
\* schema refuses the whole batch.
Assess ==
  LET true == behaviours[Len(results) + 1]
      derived == DerivedFeatures(rules, true)
      extra == ExtraFeatures(rules, true)
      places == disk["assessment"]
      Add(assessment) ==
        /\ results' = Append(results, Triage(derived, extra, assessment))
        /\ rules' = NotLoaded /\ status' = "loading"
  IN
  /\ status = "assessing"
  /\ \/ ("assessment" \in refused \/ ~(derived \subseteq Reported)) /\ RefuseBatch
     \/ /\ "assessment" \notin refused /\ derived \subseteq Reported
        /\ \/ Undecided(places, derived) /\ Add(Default)
           \/ \E i \in places :
                Decides(places, derived, i) /\ Add(Assessment(Reading("assessment"), i))
  /\ UNCHANGED <<behaviours, disk, refused, cut, saving, saves>>

\* A mistake: the results are handed out twice.
ReturnsTwice ==
  /\ status = "loading" /\ Len(results) = Incidents /\ status' = "returned"
  /\ results' = results \o results
  /\ UNCHANGED <<behaviours, disk, refused, cut, saving, saves, rules>>

Return ==
  /\ status = "loading" /\ Len(results) = Incidents /\ status' = "returned"
  /\ UNCHANGED <<behaviours, disk, refused, cut, saving, saves, rules, results>>

\* Somebody enables or disables a rule and saves the file.  Until the save is
\* finished a reader finds its first rules, the last of them perhaps cut inside its
\* last value (a derived feature's True cut short is refused), or a text that is
\* refused.
BeginSave(file, i) ==
  /\ saving.file = "none" /\ saves < MaxSaves /\ saves' = saves + 1
  /\ LET new == IF i \in disk[file] THEN disk[file] \ {i} ELSE disk[file] \cup {i} IN
     /\ saving' = [file |-> file, content |-> new]
     /\ \E k \in Places(file) :
          \/ disk' = [disk EXCEPT ![file] = {j \in new : j < k}] /\ cut' = {}
          \/ /\ k \in new /\ (file = "assessment" \/ DerivedRules[k].extra # {})
             /\ disk' = [disk EXCEPT ![file] = {j \in new : j <= k}] /\ cut' = {k}
     /\ refused' \in {{}, {file}}
  /\ UNCHANGED <<behaviours, rules, results, status>>
FinishSave ==
  /\ saving.file # "none"
  /\ disk' = [disk EXCEPT ![saving.file] = saving.content] /\ refused' = {} /\ cut' = {}
  /\ saving' = [file |-> "none", content |-> {}]
  /\ UNCHANGED <<behaviours, saves, rules, results, status>>

Save == FinishSave \/ \E file \in Files : \E i \in Places(file) : BeginSave(file, i)
Next == LoadDerivedRules \/ Assess \/ Return \/ Save

Spec == Init /\ [][Next]_vars

-----------------------------------------------------------------------------
Readings(places) == [places : SUBSET places, cut : SUBSET places]

TriageResults ==
  [derived : SUBSET UNION {DerivedRules[i].sets : i \in DerivedPlaces},
   extra : SUBSET UNION {DerivedRules[i].extra \cup DerivedRules[i].short : i \in DerivedPlaces},
   assessment : {Default} \cup {AssessmentRules[i].assessment : i \in AssessmentPlaces}
                          \cup {AssessmentRules[i].short : i \in AssessmentPlaces},
   derivedRules : Readings(DerivedPlaces), assessmentRules : Readings(AssessmentPlaces)]

TriageTypeOK ==
  /\ behaviours \in [1..Incidents -> Behaviours]
  /\ disk \in [Files -> SUBSET (DerivedPlaces \cup AssessmentPlaces)]
  /\ \A file \in Files : disk[file] \subseteq Places(file)
  /\ refused \subseteq Files
  /\ \A file \in Files : saving.file = file => cut \subseteq Places(file)
  /\ saving.file \in Files => saving.content \subseteq Places(saving.file)
  /\ saving.file \in Files \cup {"none"} /\ saves \in 0..MaxSaves
  /\ rules \in Readings(DerivedPlaces)
  /\ results \in Seq(TriageResults) /\ Len(results) <= Incidents
  /\ status \in {"loading", "assessing", "returned", "raised"}

\* Of two incidents triaged by the same rules, the one that shows more behaviour
\* never gets the lower risk, nor loses a derived feature (evaluator.py
\* apply_derived_feature_rules, apply_assessment_rules), whichever rules are
\* enabled and however few rules of a file were on disk when both were read.  The
\* assessment rules must have been read whole: a risk_score of 90 of which the
\* reader finds the 9 passes rule_validator.py and ranks below the default.
MoreBehaviourNeverLessRisk ==
  \A m, n \in DOMAIN results :
    /\ behaviours[m] \subseteq behaviours[n]
    /\ results[m].derivedRules = results[n].derivedRules
    /\ results[m].assessmentRules = results[n].assessmentRules
    /\ results[m].assessmentRules.cut = {}
    => /\ results[m].assessment.risk_score <= results[n].assessment.risk_score
       /\ results[m].derived \subseteq results[n].derived
       /\ results[m].extra \subseteq results[n].extra

\* A malicious verdict rests on all four signals of a download that is run: none of
\* them can come from another incident, a disabled rule or a cut-off file.
MaliciousNeedsEverySignal ==
  \A n \in DOMAIN results :
    results[n].assessment.verdict = "malicious" => Signals \subseteq behaviours[n]
=============================================================================
