---------------------------- MODULE MCRuleTriage ----------------------------
(***************************************************************************)
(* The shipped rule files, without the rules for extra patterns that add   *)
(* nothing new, and with a disabled candidate that sets a feature the      *)
(* triage schema does not know.                                            *)
(***************************************************************************)
EXTENDS RuleTriage

True(feature) == [feature |-> feature, equals |-> TRUE]
Rule(features, sets, extra) ==
  [when |-> "all", conditions |-> {True(f) : f \in features}, sets |-> sets, extra |-> extra,
   short |-> IF extra = {} THEN {} ELSE {"script_ex"}]

MCDerivedRules == <<
  Rule({"remote_download", "execution_after_download"}, {"download_and_execute_chain"}, {}),
  Rule({"temporary_path_execution"}, {"high_risk_execution_flow"}, {}),
  Rule({"direct_ip_download"}, {"external_payload_source"}, {}),
  Rule({"temporary_path_execution", "execution_after_download"}, {},
       {"script_execution_from_tmp"}),
  Rule({"permission_change_before_execution"}, {"staged_execution"}, {}) >>

Scored(verdict, score) == [verdict |-> verdict, risk_score |-> score]
\* Scores have two digits; one that is cut has the first.
AssessmentRule(conditions, assessment) ==
  [when |-> "all", conditions |-> conditions, assessment |-> assessment,
   short |-> [assessment EXCEPT !.risk_score = @ \div 10]]
MCAssessmentRules == <<
  AssessmentRule({True("download_and_execute_chain"), True("high_risk_execution_flow"),
                  True("external_payload_source")}, Scored("malicious", 90)),
  AssessmentRule({True("download_and_execute_chain")}, Scored("suspicious", 70)),
  AssessmentRule({[feature |-> "download_and_execute_chain", equals |-> FALSE]},
                 Scored("benign", 10)) >>
MCDefault == Scored("benign", 10)
MCReported ==
  {"download_and_execute_chain", "high_risk_execution_flow", "external_payload_source"}
MCShipped == [file \in {"derived", "assessment"} |-> IF file = "derived" THEN 1..4 ELSE 1..3]

Chain == {"remote_download", "execution_after_download"}
MCBehaviours ==
  {{}, {"remote_download"}, Chain, Chain \cup {"temporary_path_execution"},
   Chain \cup {"direct_ip_download", "permission_change_before_execution"},
   {"temporary_path_execution", "direct_ip_download"},
   Chain \cup {"temporary_path_execution", "direct_ip_download"}}
=============================================================================
