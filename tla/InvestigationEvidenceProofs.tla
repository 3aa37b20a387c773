-------------------- MODULE InvestigationEvidenceProofs --------------------
(***************************************************************************)
(* Proofs about InvestigationEvidence, for any investigations and any      *)
(* context limit.  The invariant says which enrichers have run: at each    *)
(* stage the evidence is what they make of the input, one after the other. *)
(* The report is then a function of the input, and what holds of a report  *)
(* follows from how the enrichers treat their sources.                     *)
(***************************************************************************)
EXTENDS InvestigationEvidence, FiniteSetTheorems, TLAPS

-----------------------------------------------------------------------------
(* What stands after each enricher. *)

OfNothing == [e |-> NoEvidence, f |-> {}]
OfBase(i) == [e |-> BaseEvidence(i), f |-> BaseFeatures(i)]
OfProcess(i) == AddProcessContext(i, OfBase(i))
OfAuditd(i) == AddAuditdContext(i, OfProcess(i))
OfEndpoint(i) == AddEndpointContext(i, OfAuditd(i))
OfArchive(i) == AddArchiveContext(i, OfEndpoint(i))
OfHits(i) == AddChainHits(i, OfArchive(i))
OfAuth(i) == AddAuthContext(i, OfHits(i))
OfPromotion(i) == Promote(OfAuth(i))
OfZeek(i) == AddZeek(i, OfPromotion(i))
OfAuthPatch(i) == MergePatch(OfZeek(i), AuthPatch(i, OfZeek(i)))
OfFimPatch(i) == MergePatch(OfAuthPatch(i), WazuhPatch(i.fim, i, FALSE))
OfSudoPatch(i) == MergePatch(OfFimPatch(i), WazuhPatch(i.sudo, i, TRUE))

\* Evidence and features, with every field of the evidence.
Fields ==
  {"urls", "saved", "ran", "payload", "executed", "downloads", "chmods", "executions", "before", "after",
   "children", "descendants", "auditd", "endpoint", "archive", "rules", "logins",
   "network", "http", "ips", "failures", "successes", "fim", "sudo"}
Shaped(r) == r = [e |-> r.e, f |-> r.f] /\ DOMAIN r.e = Fields

\* The fields an enricher writes; it leaves the others alone.
Leaves(q, r, written) == \A k \in Fields \ written : r.e[k] = q.e[k]

LEMMA BaseShape ==
  ASSUME NEW i
  PROVE  Shaped(OfBase(i)) /\ Shaped(OfNothing)
<1>1. Shaped(OfBase(i))
  BY DEF OfBase, BaseEvidence, Shaped, Fields
<1>2. Shaped(OfNothing)
  BY DEF OfNothing, NoEvidence, BaseEvidence, Shaped, Fields
<1> QED
  BY <1>1, <1>2

LEMMA ProcessWrites ==
  ASSUME NEW i, NEW r, Shaped(r)
  PROVE  /\ Shaped(AddProcessContext(i, r))
         /\ Leaves(r, AddProcessContext(i, r), {"before", "after", "children", "descendants"})
         /\ r.f \subseteq AddProcessContext(i, r).f
BY DEF AddProcessContext, Shaped, Leaves, Fields

LEMMA AuditdWrites ==
  ASSUME NEW i, NEW r, Shaped(r)
  PROVE  /\ Shaped(AddAuditdContext(i, r))
         /\ Leaves(r, AddAuditdContext(i, r), {"auditd"})
         /\ AddAuditdContext(i, r).f = r.f /\ AddAuditdContext(i, r).e.auditd = i.auditd
BY DEF AddAuditdContext, Shaped, Leaves, Fields

LEMMA EndpointWrites ==
  ASSUME NEW i, NEW r, Shaped(r)
  PROVE  /\ Shaped(AddEndpointContext(i, r))
         /\ Leaves(r, AddEndpointContext(i, r), {"endpoint"})
         /\ AddEndpointContext(i, r).f = r.f \cup EndpointFeatures(Bound(i))
         /\ AddEndpointContext(i, r).e.endpoint = Bound(i)
BY DEF AddEndpointContext, Shaped, Leaves, Fields

LEMMA ArchiveWrites ==
  ASSUME NEW i, NEW r, Shaped(r)
  PROVE  /\ Shaped(AddArchiveContext(i, r))
         /\ Leaves(r, AddArchiveContext(i, r), {"archive"})
         /\ r.f \subseteq AddArchiveContext(i, r).f
BY DEF AddArchiveContext, Shaped, Leaves, Fields

LEMMA HitsWrites ==
  ASSUME NEW i, NEW r, Shaped(r)
  PROVE  /\ Shaped(AddChainHits(i, r))
         /\ Leaves(r, AddChainHits(i, r), {"rules"})
         /\ AddChainHits(i, r).f = r.f \cup Where("process_chain_hit_present", i.hits)
         /\ AddChainHits(i, r).e.rules = i.hits
BY DEF AddChainHits, Shaped, Leaves, Fields

LEMMA AuthWrites ==
  ASSUME NEW i, NEW r, Shaped(r)
  PROVE  /\ Shaped(AddAuthContext(i, r))
         /\ Leaves(r, AddAuthContext(i, r), {"logins", "ips"})
         /\ r.f \subseteq AddAuthContext(i, r).f
BY DEF AddAuthContext, Shaped, Leaves, Fields

LEMMA PromoteWrites ==
  ASSUME NEW r, Shaped(r)
  PROVE  /\ Shaped(Promote(r))
         /\ Leaves(r, Promote(r), {"urls", "saved", "ran", "payload", "executed"})
         /\ Promote(r).f = r.f
         /\ Promote(r).e.urls = r.e.urls \cup Targets(r.e.before \cup r.e.after)
         /\ Promote(r).e.saved = r.e.saved \cup SavedTo(r.e.before \cup r.e.after)
         /\ Promote(r).e.ran = r.e.ran \cup RunFrom(r.e.before \cup r.e.after)
         /\ Promote(r).e.payload =
              Either(r.e.payload, Either(FirstSaving(r.e.before), FirstSaving(r.e.after)))
         /\ Promote(r).e.executed =
              Either(r.e.executed, Either(FirstRunning(r.e.before), FirstRunning(r.e.after)))
BY DEF Promote, Shaped, Leaves, Fields

LEMMA ZeekWrites ==
  ASSUME NEW i, NEW r, Shaped(r)
  PROVE  /\ Shaped(AddZeek(i, r)) /\ Leaves(r, AddZeek(i, r), {"network", "http"})
         /\ r.f \subseteq AddZeek(i, r).f
BY DEF AddZeek, Shaped, Leaves, Fields

\* A patch adds to the fields it has and leaves the others alone.
LEMMA PatchWrites ==
  ASSUME NEW r, Shaped(r), NEW patch
  PROVE  /\ Shaped(MergePatch(r, patch)) /\ Leaves(r, MergePatch(r, patch), DOMAIN patch.e)
         /\ MergePatch(r, patch).f = r.f \cup patch.f
         /\ \A k \in Fields \cap DOMAIN patch.e : MergePatch(r, patch).e[k] = r.e[k] \cup patch.e[k]
BY DEF MergePatch, Shaped, Leaves

\* The shape of what stands after every enricher.
LEMMA Shapes ==
  ASSUME NEW i
  PROVE  /\ Shaped(OfBase(i)) /\ Shaped(OfProcess(i)) /\ Shaped(OfAuditd(i))
         /\ Shaped(OfEndpoint(i)) /\ Shaped(OfArchive(i)) /\ Shaped(OfHits(i))
         /\ Shaped(OfAuth(i)) /\ Shaped(OfPromotion(i)) /\ Shaped(OfZeek(i))
         /\ Shaped(OfAuthPatch(i)) /\ Shaped(OfFimPatch(i)) /\ Shaped(OfSudoPatch(i))
<1>1. Shaped(OfBase(i))
  BY BaseShape
<1>2. Shaped(OfProcess(i))
  BY <1>1, ProcessWrites DEF OfProcess
<1>3. Shaped(OfAuditd(i))
  BY <1>2, AuditdWrites DEF OfAuditd
<1>4. Shaped(OfEndpoint(i))
  BY <1>3, EndpointWrites DEF OfEndpoint
<1>5. Shaped(OfArchive(i))
  BY <1>4, ArchiveWrites DEF OfArchive
<1>6. Shaped(OfHits(i))
  BY <1>5, HitsWrites DEF OfHits
<1>7. Shaped(OfAuth(i))
  BY <1>6, AuthWrites DEF OfAuth
<1>8. Shaped(OfPromotion(i))
  BY <1>7, PromoteWrites DEF OfPromotion
<1>9. Shaped(OfZeek(i))
  BY <1>8, ZeekWrites DEF OfZeek
<1>10. Shaped(OfAuthPatch(i))
  BY <1>9, PatchWrites DEF OfAuthPatch
<1>11. Shaped(OfFimPatch(i))
  BY <1>10, PatchWrites DEF OfFimPatch
<1>12. Shaped(OfSudoPatch(i))
  BY <1>11, PatchWrites DEF OfSudoPatch
<1> QED
  BY <1>1, <1>2, <1>3, <1>4, <1>5, <1>6, <1>7, <1>8, <1>9, <1>10, <1>11, <1>12

-----------------------------------------------------------------------------
(* The invariant. *)

Stages == {"base", "process", "auditd", "endpoint", "archive", "hits", "auth", "promote",
           "zeek", "auth patch", "fim patch", "sudo patch", "report", "done"}

\* What stands when a stage is next.
Standing(i, s) ==
  CASE s = "base" -> OfNothing [] s = "process" -> OfBase(i) [] s = "auditd" -> OfProcess(i)
    [] s = "endpoint" -> OfAuditd(i) [] s = "archive" -> OfEndpoint(i)
    [] s = "hits" -> OfArchive(i) [] s = "auth" -> OfHits(i) [] s = "promote" -> OfAuth(i)
    [] s = "zeek" -> OfPromotion(i) [] s = "auth patch" -> OfZeek(i)
    [] s = "fim patch" -> OfAuthPatch(i) [] s = "sudo patch" -> OfFimPatch(i)
    [] s \in {"report", "done"} -> OfSudoPatch(i) [] OTHER -> OfNothing

EvidenceInv ==
  /\ input \in Inputs
  /\ stage \in Stages \cup {"refused"}
  /\ Now = Standing(input, stage)
  /\ stage \in Stages \ {"base"} => ~Refused(input)
  /\ stage # "done" => report = NoReport
  /\ stage = "done" => report = ReportOf(input, OfSudoPatch(input))

\* A step that enriches puts what the next stage is to find.
LEMMA EnrichKeeps ==
  ASSUME EvidenceInv, NEW at, NEW next, NEW r, Enrich(at, next, r),
         at # "done", next \in Stages \ {"base", "done"}, ~Refused(input),
         Shaped(r), r = Standing(input, next)
  PROVE  EvidenceInv'
<1>1. /\ stage = at /\ stage' = next /\ evidence' = r.e /\ features' = r.f
      /\ input' = input /\ report' = report
  BY DEF Enrich
<1>2. Now' = r
  BY <1>1 DEF Now, Shaped
<1>3. Standing(input, next)' = Standing(input, next)
  BY <1>1
<1> QED
  BY <1>1, <1>2, <1>3 DEF EvidenceInv

LEMMA StandingAt ==
  ASSUME NEW i
  PROVE  /\ Standing(i, "base") = OfNothing /\ Standing(i, "process") = OfBase(i)
         /\ Standing(i, "auditd") = OfProcess(i) /\ Standing(i, "endpoint") = OfAuditd(i)
         /\ Standing(i, "archive") = OfEndpoint(i) /\ Standing(i, "hits") = OfArchive(i)
         /\ Standing(i, "auth") = OfHits(i) /\ Standing(i, "promote") = OfAuth(i)
         /\ Standing(i, "zeek") = OfPromotion(i) /\ Standing(i, "auth patch") = OfZeek(i)
         /\ Standing(i, "fim patch") = OfAuthPatch(i)
         /\ Standing(i, "sudo patch") = OfFimPatch(i)
         /\ Standing(i, "report") = OfSudoPatch(i) /\ Standing(i, "done") = OfSudoPatch(i)
         /\ Standing(i, "refused") = OfNothing
BY DEF Standing

LEMMA EvidenceInvariant == EvidenceSpec => []EvidenceInv
<1> USE StandingAt
<1>1. EvidenceInit => EvidenceInv
  BY DEF EvidenceInit, EvidenceInv, Now, OfNothing, Stages
<1>2. ASSUME EvidenceInv, [EvidenceNext]_vars PROVE EvidenceInv'
  <2> USE DEF Stages
  <2>1. CASE BindAndBase
    <3>1. CASE Refused(input)
      <4>1. stage = "base" /\ stage' = "refused" /\ UNCHANGED <<input, evidence, features, report>>
        BY <2>1, <3>1 DEF BindAndBase
      <4>2. Now' = Now
        BY <4>1 DEF Now
      <4>3. Now = OfNothing
        BY <1>2, <4>1 DEF EvidenceInv
      <4> QED
        BY <1>2, <4>1, <4>2, <4>3 DEF EvidenceInv
    <3>2. CASE ~Refused(input)
      <4>1. Enrich("base", "process", OfBase(input))
        BY <2>1, <3>2 DEF BindAndBase, OfBase
      <4> QED
        BY <1>2, <3>2, <4>1, Shapes, EnrichKeeps
    <3> QED
      BY <3>1, <3>2
  <2>2. CASE ProcessStep
    <3>1. stage = "process"
      BY <2>2 DEF ProcessStep, Enrich
    <3>2. Now = OfBase(input) /\ ~Refused(input)
      BY <1>2, <3>1 DEF EvidenceInv
    <3>3. Enrich("process", "auditd", OfProcess(input))
      BY <2>2, <3>2 DEF ProcessStep, OfProcess
    <3> QED
      BY <1>2, <3>2, <3>3, Shapes, EnrichKeeps
  <2>3. CASE AuditdStep
    <3>1. stage = "auditd"
      BY <2>3 DEF AuditdStep, Enrich
    <3>2. Now = OfProcess(input) /\ ~Refused(input)
      BY <1>2, <3>1 DEF EvidenceInv
    <3>3. Enrich("auditd", "endpoint", OfAuditd(input))
      BY <2>3, <3>2 DEF AuditdStep, OfAuditd
    <3> QED
      BY <1>2, <3>2, <3>3, Shapes, EnrichKeeps
  <2>4. CASE EndpointStep
    <3>1. stage = "endpoint"
      BY <2>4 DEF EndpointStep, Enrich
    <3>2. Now = OfAuditd(input) /\ ~Refused(input)
      BY <1>2, <3>1 DEF EvidenceInv
    <3>3. Enrich("endpoint", "archive", OfEndpoint(input))
      BY <2>4, <3>2 DEF EndpointStep, OfEndpoint
    <3> QED
      BY <1>2, <3>2, <3>3, Shapes, EnrichKeeps
  <2>5. CASE ArchiveStep
    <3>1. stage = "archive"
      BY <2>5 DEF ArchiveStep, Enrich
    <3>2. Now = OfEndpoint(input) /\ ~Refused(input)
      BY <1>2, <3>1 DEF EvidenceInv
    <3>3. Enrich("archive", "hits", OfArchive(input))
      BY <2>5, <3>2 DEF ArchiveStep, OfArchive
    <3> QED
      BY <1>2, <3>2, <3>3, Shapes, EnrichKeeps
  <2>6. CASE ChainHitsStep
    <3>1. stage = "hits"
      BY <2>6 DEF ChainHitsStep, Enrich
    <3>2. Now = OfArchive(input) /\ ~Refused(input)
      BY <1>2, <3>1 DEF EvidenceInv
    <3>3. Enrich("hits", "auth", OfHits(input))
      BY <2>6, <3>2 DEF ChainHitsStep, OfHits
    <3> QED
      BY <1>2, <3>2, <3>3, Shapes, EnrichKeeps
  <2>7. CASE AuthStep
    <3>1. stage = "auth"
      BY <2>7 DEF AuthStep, Enrich
    <3>2. Now = OfHits(input) /\ ~Refused(input)
      BY <1>2, <3>1 DEF EvidenceInv
    <3>3. Enrich("auth", "promote", OfAuth(input))
      BY <2>7, <3>2 DEF AuthStep, OfAuth
    <3> QED
      BY <1>2, <3>2, <3>3, Shapes, EnrichKeeps
  <2>8. CASE PromoteStep
    <3>1. stage = "promote"
      BY <2>8 DEF PromoteStep, Enrich
    <3>2. Now = OfAuth(input) /\ ~Refused(input)
      BY <1>2, <3>1 DEF EvidenceInv
    <3>3. Enrich("promote", "zeek", OfPromotion(input))
      BY <2>8, <3>2 DEF PromoteStep, OfPromotion
    <3> QED
      BY <1>2, <3>2, <3>3, Shapes, EnrichKeeps
  <2>9. CASE ZeekStep
    <3>1. stage = "zeek"
      BY <2>9 DEF ZeekStep, Enrich
    <3>2. Now = OfPromotion(input) /\ ~Refused(input)
      BY <1>2, <3>1 DEF EvidenceInv
    <3>3. Enrich("zeek", "auth patch", OfZeek(input))
      BY <2>9, <3>2 DEF ZeekStep, OfZeek
    <3> QED
      BY <1>2, <3>2, <3>3, Shapes, EnrichKeeps
  <2>10. CASE AuthPatchStep
    <3>1. stage = "auth patch"
      BY <2>10 DEF AuthPatchStep, Enrich
    <3>2. Now = OfZeek(input) /\ ~Refused(input)
      BY <1>2, <3>1 DEF EvidenceInv
    <3>3. Enrich("auth patch", "fim patch", OfAuthPatch(input))
      BY <2>10, <3>2 DEF AuthPatchStep, OfAuthPatch
    <3> QED
      BY <1>2, <3>2, <3>3, Shapes, EnrichKeeps
  <2>11. CASE FimPatchStep
    <3>1. stage = "fim patch"
      BY <2>11 DEF FimPatchStep, Enrich
    <3>2. Now = OfAuthPatch(input) /\ ~Refused(input)
      BY <1>2, <3>1 DEF EvidenceInv
    <3>3. Enrich("fim patch", "sudo patch", OfFimPatch(input))
      BY <2>11, <3>2 DEF FimPatchStep, OfFimPatch
    <3> QED
      BY <1>2, <3>2, <3>3, Shapes, EnrichKeeps
  <2>12. CASE SudoPatchStep
    <3>1. stage = "sudo patch"
      BY <2>12 DEF SudoPatchStep, Enrich
    <3>2. Now = OfFimPatch(input) /\ ~Refused(input)
      BY <1>2, <3>1 DEF EvidenceInv
    <3>3. Enrich("sudo patch", "report", OfSudoPatch(input))
      BY <2>12, <3>2 DEF SudoPatchStep, OfSudoPatch
    <3> QED
      BY <1>2, <3>2, <3>3, Shapes, EnrichKeeps
  <2>13. CASE Conclude
    <3>1. /\ stage = "report" /\ stage' = "done" /\ report' = ReportOf(input, Now)
          /\ UNCHANGED <<input, evidence, features>>
      BY <2>13 DEF Conclude
    <3>2. Now = OfSudoPatch(input) /\ Now' = Now
      BY <1>2, <3>1 DEF EvidenceInv, Now
    <3> QED
      BY <1>2, <3>1, <3>2 DEF EvidenceInv
  <2>14. CASE UNCHANGED vars
    <3>1. UNCHANGED <<input, stage, evidence, features, report>>
      BY <2>14 DEF vars
    <3>2. Now' = Now
      BY <3>1 DEF Now
    <3> QED
      BY <1>2, <3>1, <3>2 DEF EvidenceInv
  <2> QED
    BY <1>2, <2>1, <2>2, <2>3, <2>4, <2>5, <2>6, <2>7, <2>8, <2>9, <2>10, <2>11, <2>12,
       <2>13, <2>14 DEF EvidenceNext
<1> QED
  BY <1>1, <1>2, PTL DEF EvidenceSpec

-----------------------------------------------------------------------------
(* Evidence only grows. *)

Grows(q, r) ==
  /\ q.f \subseteq r.f
  /\ q.e.urls \subseteq r.e.urls /\ q.e.saved \subseteq r.e.saved
  /\ q.e.ran \subseteq r.e.ran /\ q.e.fim \subseteq r.e.fim /\ q.e.ips \subseteq r.e.ips
  /\ q.e.payload # {} => r.e.payload = q.e.payload
  /\ q.e.executed # {} => r.e.executed = q.e.executed

\* Nothing sets the source addresses or the logins before the enricher of key
\* logins does.
LEMMA NoAddressYet ==
  ASSUME NEW i
  PROVE  /\ OfNothing.e.urls = {} /\ OfNothing.e.saved = {} /\ OfNothing.e.ran = {}
         /\ OfNothing.e.fim = {} /\ OfNothing.e.ips = {} /\ OfNothing.f = {}
         /\ OfNothing.e.payload = {} /\ OfNothing.e.executed = {}
         /\ OfHits(i).e.ips = {} /\ OfHits(i).e.logins = {}
<1>1. OfBase(i).e.ips = {} /\ OfBase(i).e.logins = {}
  BY DEF OfBase, BaseEvidence
<1>2. OfProcess(i).e.ips = {} /\ OfProcess(i).e.logins = {}
  BY <1>1, Shapes, ProcessWrites DEF OfProcess, Leaves, Fields
<1>3. OfAuditd(i).e.ips = {} /\ OfAuditd(i).e.logins = {}
  BY <1>2, Shapes, AuditdWrites DEF OfAuditd, Leaves, Fields
<1>4. OfEndpoint(i).e.ips = {} /\ OfEndpoint(i).e.logins = {}
  BY <1>3, Shapes, EndpointWrites DEF OfEndpoint, Leaves, Fields
<1>5. OfArchive(i).e.ips = {} /\ OfArchive(i).e.logins = {}
  BY <1>4, Shapes, ArchiveWrites DEF OfArchive, Leaves, Fields
<1>6. OfHits(i).e.ips = {} /\ OfHits(i).e.logins = {}
  BY <1>5, Shapes, HitsWrites DEF OfHits, Leaves, Fields
<1>7. /\ OfNothing.f = {} /\ OfNothing.e.fim = {} /\ OfNothing.e.ips = {}
      /\ OfNothing.e.urls = Targets(Range(<<>>)) /\ OfNothing.e.saved = SavedTo(Range(<<>>))
      /\ OfNothing.e.ran = RunFrom(Range(<<>>))
  BY DEF OfNothing, NoEvidence, BaseEvidence
<1>8. Range(<<>>) = {}
  BY DEF Range
<1>9. OfNothing.e.payload = {} /\ OfNothing.e.executed = {}
  <2>1. \A S : {n \in DOMAIN <<>> : n \in S} = {}
    OBVIOUS
  <2>2. /\ OfNothing.e.payload =
             SavedTo(FirstAt(<<>>, {n \in DOMAIN <<>> : SavedTo({<<>>[n]}) # {}}))
        /\ OfNothing.e.executed =
             RunFrom(FirstAt(<<>>, {n \in DOMAIN <<>> : RunFrom({<<>>[n]}) # {}}))
    BY DEF OfNothing, NoEvidence, BaseEvidence
  <2>3. /\ {n \in DOMAIN <<>> : SavedTo({<<>>[n]}) # {}} = {}
        /\ {n \in DOMAIN <<>> : RunFrom({<<>>[n]}) # {}} = {}
    OBVIOUS
  <2>4. FirstAt(<<>>, {}) = {}
    BY DEF FirstAt
  <2>5. SavedTo({}) = {} /\ RunFrom({}) = {}
    BY DEF SavedTo, RunFrom
  <2> QED
    BY <2>2, <2>3, <2>4, <2>5
<1> QED
  BY <1>6, <1>7, <1>8, <1>9 DEF Targets, SavedTo, RunFrom

LEMMA LeavesGrows ==
  ASSUME NEW q, NEW r, NEW written, Leaves(q, r, written), q.f \subseteq r.f,
         written \cap {"urls", "saved", "ran", "payload", "executed", "fim", "ips"} = {}
  PROVE  Grows(q, r)
BY DEF Leaves, Grows, Fields

LEMMA PatchDomains ==
  ASSUME NEW i, NEW r, NEW alerts, NEW candidates
  PROVE  /\ DOMAIN AuthPatch(i, r).e = {"failures", "successes", "ips"}
         /\ DOMAIN WazuhPatch(alerts, i, candidates).e = {"fim", "sudo"}
BY DEF AuthPatch, WazuhPatch

LEMMA PatchGrows ==
  ASSUME NEW r, Shaped(r), NEW patch, {"payload", "executed"} \cap DOMAIN patch.e = {}
  PROVE  Grows(r, MergePatch(r, patch))
<1>1. \A k \in Fields : r.e[k] \subseteq MergePatch(r, patch).e[k] \/ k \notin DOMAIN patch.e
  BY PatchWrites
<1>2. \A k \in Fields : k \notin DOMAIN patch.e => MergePatch(r, patch).e[k] = r.e[k]
  BY PatchWrites DEF Leaves
<1>3. r.f \subseteq MergePatch(r, patch).f
  BY PatchWrites
<1> HIDE DEF MergePatch
<1> QED
  BY <1>1, <1>2, <1>3 DEF Grows, Fields

LEMMA StagesGrow ==
  ASSUME NEW i
  PROVE  /\ Grows(OfNothing, OfBase(i)) /\ Grows(OfBase(i), OfProcess(i))
         /\ Grows(OfProcess(i), OfAuditd(i)) /\ Grows(OfAuditd(i), OfEndpoint(i))
         /\ Grows(OfEndpoint(i), OfArchive(i)) /\ Grows(OfArchive(i), OfHits(i))
         /\ Grows(OfHits(i), OfAuth(i)) /\ Grows(OfAuth(i), OfPromotion(i))
         /\ Grows(OfPromotion(i), OfZeek(i)) /\ Grows(OfZeek(i), OfAuthPatch(i))
         /\ Grows(OfAuthPatch(i), OfFimPatch(i)) /\ Grows(OfFimPatch(i), OfSudoPatch(i))
<1>1. Grows(OfNothing, OfBase(i))
  BY NoAddressYet DEF Grows
<1>2. Grows(OfBase(i), OfProcess(i))
  BY Shapes, ProcessWrites, LeavesGrows DEF OfProcess
<1>3. Grows(OfProcess(i), OfAuditd(i))
  BY Shapes, AuditdWrites, LeavesGrows DEF OfAuditd
<1>4. Grows(OfAuditd(i), OfEndpoint(i))
  BY Shapes, EndpointWrites, LeavesGrows DEF OfEndpoint
<1>5. Grows(OfEndpoint(i), OfArchive(i))
  BY Shapes, ArchiveWrites, LeavesGrows DEF OfArchive
<1>6. Grows(OfArchive(i), OfHits(i))
  BY Shapes, HitsWrites, LeavesGrows DEF OfHits
<1>7. Grows(OfHits(i), OfAuth(i))
  BY Shapes, AuthWrites, NoAddressYet DEF OfAuth, Grows, Leaves, Fields
<1>8. Grows(OfAuth(i), OfPromotion(i))
  BY Shapes, PromoteWrites DEF OfPromotion, Grows, Leaves, Fields, Either
<1>9. Grows(OfPromotion(i), OfZeek(i))
  BY Shapes, ZeekWrites, LeavesGrows DEF OfZeek
<1>10. Grows(OfZeek(i), OfAuthPatch(i))
  BY Shapes, PatchDomains, PatchGrows DEF OfAuthPatch
<1>11. Grows(OfAuthPatch(i), OfFimPatch(i))
  BY Shapes, PatchDomains, PatchGrows DEF OfFimPatch
<1>12. Grows(OfFimPatch(i), OfSudoPatch(i))
  BY Shapes, PatchDomains, PatchGrows DEF OfSudoPatch
<1> QED
  BY <1>1, <1>2, <1>3, <1>4, <1>5, <1>6, <1>7, <1>8, <1>9, <1>10, <1>11, <1>12

\* What the invariant says of a step: the evidence goes from what stands at one
\* stage to what stands at the next, or stays.
LEMMA StepGrows ==
  ASSUME EvidenceInv, EvidenceInv', EvidenceNext
  PROVE  Grows(Now, Now')
<1>1. /\ Now = Standing(input, stage) /\ Now' = Standing(input', stage')
  BY DEF EvidenceInv
<1>2. /\ input' = input
      /\ \/ <<stage, stage'>> \in {<<"base", "process">>, <<"base", "refused">>,
              <<"process", "auditd">>, <<"auditd", "endpoint">>, <<"endpoint", "archive">>,
              <<"archive", "hits">>, <<"hits", "auth">>, <<"auth", "promote">>,
              <<"promote", "zeek">>, <<"zeek", "auth patch">>, <<"auth patch", "fim patch">>,
              <<"fim patch", "sudo patch">>, <<"sudo patch", "report">>, <<"report", "done">>}
  BY DEF EvidenceNext, BindAndBase, ProcessStep, AuditdStep, EndpointStep, ArchiveStep,
     ChainHitsStep, AuthStep, PromoteStep, ZeekStep, AuthPatchStep, FimPatchStep,
     SudoPatchStep, Conclude, Enrich
<1>3. \A r : Grows(r, r)
  BY DEF Grows
<1> QED
  BY <1>1, <1>2, <1>3, StandingAt, StagesGrow

\* No enricher takes back a feature, a URL, a path, a changed file or a source
\* address that an earlier one found, or exchanges the path stated of the payload or
\* of the execution.
THEOREM EvidenceIsNeverTakenBack == EvidenceSpec => EvidenceOnlyGrows
<1>1. ASSUME EvidenceInv, EvidenceInv', [EvidenceNext]_vars
      PROVE  \/ UNCHANGED vars
             \/ /\ features \subseteq features'
                /\ evidence.urls \subseteq evidence'.urls /\ evidence.saved \subseteq evidence'.saved
                /\ evidence.ran \subseteq evidence'.ran /\ evidence.fim \subseteq evidence'.fim
                /\ evidence.ips \subseteq evidence'.ips
                /\ evidence.payload # {} => evidence'.payload = evidence.payload
                /\ evidence.executed # {} => evidence'.executed = evidence.executed
  <2>1. CASE EvidenceNext
    <3>1. Grows(Now, Now')
      BY <1>1, <2>1, StepGrows
    <3> QED
      BY <3>1 DEF Grows, Now
  <2> QED
    BY <1>1, <2>1
<1> QED
  BY <1>1, EvidenceInvariant, PTL DEF EvidenceSpec, EvidenceOnlyGrows

-----------------------------------------------------------------------------
(* What is in the evidence at each stage, and at the end. *)

LEMMA PatchesLeave ==
  ASSUME NEW i
  PROVE  /\ Leaves(OfZeek(i), OfAuthPatch(i), {"failures", "successes", "ips"})
         /\ Leaves(OfAuthPatch(i), OfFimPatch(i), {"fim", "sudo"})
         /\ Leaves(OfFimPatch(i), OfSudoPatch(i), {"fim", "sudo"})
<1>1. Leaves(OfZeek(i), OfAuthPatch(i), DOMAIN AuthPatch(i, OfZeek(i)).e)
  BY Shapes, PatchWrites DEF OfAuthPatch
<1>2. Leaves(OfAuthPatch(i), OfFimPatch(i), DOMAIN WazuhPatch(i.fim, i, FALSE).e)
  BY Shapes, PatchWrites DEF OfFimPatch
<1>3. Leaves(OfFimPatch(i), OfSudoPatch(i), DOMAIN WazuhPatch(i.sudo, i, TRUE).e)
  BY Shapes, PatchWrites DEF OfSudoPatch
<1>4. /\ DOMAIN AuthPatch(i, OfZeek(i)).e = {"failures", "successes", "ips"}
      /\ DOMAIN WazuhPatch(i.fim, i, FALSE).e = {"fim", "sudo"}
      /\ DOMAIN WazuhPatch(i.sudo, i, TRUE).e = {"fim", "sudo"}
  BY PatchDomains
<1> QED
  BY <1>1, <1>2, <1>3, <1>4

\* The process context and the stated paths stand unchanged until the promotion.
LEMMA ContextKept ==
  ASSUME NEW i
  PROVE  /\ OfAuth(i).e.before = OfProcess(i).e.before /\ OfAuth(i).e.after = OfProcess(i).e.after
         /\ OfAuth(i).e.payload = OfBase(i).e.payload
         /\ OfAuth(i).e.executed = OfBase(i).e.executed
<1> DEFINE Paths(q, r) == r.e.payload = q.e.payload /\ r.e.executed = q.e.executed
           Same(q, r) == r.e.before = q.e.before /\ r.e.after = q.e.after /\ Paths(q, r)
<1>1. Paths(OfBase(i), OfProcess(i))
  BY Shapes, ProcessWrites DEF OfProcess, Leaves, Fields
<1>2. Same(OfProcess(i), OfAuditd(i))
  BY Shapes, AuditdWrites DEF OfAuditd, Leaves, Fields
<1>3. Same(OfAuditd(i), OfEndpoint(i))
  BY Shapes, EndpointWrites DEF OfEndpoint, Leaves, Fields
<1>4. Same(OfEndpoint(i), OfArchive(i))
  BY Shapes, ArchiveWrites DEF OfArchive, Leaves, Fields
<1>5. Same(OfArchive(i), OfHits(i))
  BY Shapes, HitsWrites DEF OfHits, Leaves, Fields
<1>6. Same(OfHits(i), OfAuth(i))
  BY Shapes, AuthWrites DEF OfAuth, Leaves, Fields
<1> QED
  BY <1>1, <1>2, <1>3, <1>4, <1>5, <1>6

\* The process context is taken from the process records.
LEMMA ContextRecorded ==
  ASSUME NEW i
  PROVE  /\ OfAuth(i).e.before \subseteq i.process
         /\ OfAuth(i).e.after \subseteq i.process
<1>1. OfBase(i).e.before = {} /\ OfBase(i).e.after = {}
  BY DEF OfBase, BaseEvidence
<1>2. OfProcess(i).e.before \subseteq i.process /\ OfProcess(i).e.after \subseteq i.process
  <2> DEFINE related == RelatedProcess(i)
             anchors == IF i.timeline = <<>> THEN {}
                        ELSE ProcessAnchors(related, ExecutionAnchor(i.timeline))
             new == {e \in related : Identity(e) \notin Identities(i.timeline)}
             x == CHOOSE e \in anchors : TRUE
             before == IF x.at = NoTime THEN {} ELSE LastOf(Before(new, x), ContextLimit)
             after == IF x.at = NoTime THEN {}
                      ELSE FirstOf(new \cap After(related, x), ContextLimit)
  <2>1. before \subseteq i.process /\ after \subseteq i.process
    <3>1. Before(new, x) \subseteq related /\ new \cap After(related, x) \subseteq related
      BY DEF Before
    <3>2. \A S, n : LastOf(S, n) \subseteq S /\ FirstOf(S, n) \subseteq S
      BY DEF LastOf, FirstOf
    <3>3. related \subseteq i.process
      BY DEF RelatedProcess
    <3> HIDE DEF related, new, x
    <3> QED
      BY <3>1, <3>2, <3>3
  <2>2. CASE anchors = {}
    <3>1. OfProcess(i) = OfBase(i)
      BY <2>2 DEF OfProcess, AddProcessContext
    <3> QED
      BY <1>1, <3>1
  <2>3. CASE anchors # {}
    <3>1. /\ OfProcess(i).e.before = before /\ OfProcess(i).e.after = after
      <4>1. DOMAIN OfBase(i).e = Fields
        BY Shapes DEF Shaped
      <4> QED
        BY <2>3, <4>1 DEF OfProcess, AddProcessContext, Fields
    <3> HIDE DEF before, after
    <3> QED
      BY <2>1, <3>1
  <2> HIDE DEF anchors
  <2> QED
    BY <2>2, <2>3
<1> QED
  BY <1>2, ContextKept

\* URLs come from the timeline until the context is promoted, then from the
\* process records too.
LEMMA UrlsRecorded ==
  ASSUME NEW i, NEW s \in Stages \cup {"refused"}
  PROVE  Standing(i, s).e.urls \subseteq Targets(Range(i.timeline) \cup i.process)
<1> DEFINE T == Targets(Range(i.timeline) \cup i.process)
<1>1. OfBase(i).e.urls = Targets(Range(i.timeline))
  BY DEF OfBase, BaseEvidence
<1>2. OfBase(i).e.urls \subseteq T
  BY <1>1 DEF Targets
<1>3. /\ OfProcess(i).e.urls = OfBase(i).e.urls /\ OfAuditd(i).e.urls = OfBase(i).e.urls
      /\ OfEndpoint(i).e.urls = OfBase(i).e.urls /\ OfArchive(i).e.urls = OfBase(i).e.urls
      /\ OfHits(i).e.urls = OfBase(i).e.urls /\ OfAuth(i).e.urls = OfBase(i).e.urls
  <2>1. OfProcess(i).e.urls = OfBase(i).e.urls
    BY Shapes, ProcessWrites DEF OfProcess, Leaves, Fields
  <2>2. OfAuditd(i).e.urls = OfBase(i).e.urls
    BY <2>1, Shapes, AuditdWrites DEF OfAuditd, Leaves, Fields
  <2>3. OfEndpoint(i).e.urls = OfBase(i).e.urls
    BY <2>2, Shapes, EndpointWrites DEF OfEndpoint, Leaves, Fields
  <2>4. OfArchive(i).e.urls = OfBase(i).e.urls
    BY <2>3, Shapes, ArchiveWrites DEF OfArchive, Leaves, Fields
  <2>5. OfHits(i).e.urls = OfBase(i).e.urls
    BY <2>4, Shapes, HitsWrites DEF OfHits, Leaves, Fields
  <2>6. OfAuth(i).e.urls = OfBase(i).e.urls
    BY <2>5, Shapes, AuthWrites DEF OfAuth, Leaves, Fields
  <2> QED
    BY <2>1, <2>2, <2>3, <2>4, <2>5, <2>6
<1>4. OfPromotion(i).e.urls \subseteq T
  <2>1. OfPromotion(i).e.urls =
          OfAuth(i).e.urls \cup Targets(OfAuth(i).e.before \cup OfAuth(i).e.after)
    BY Shapes, PromoteWrites DEF OfPromotion
  <2>2. Targets(OfAuth(i).e.before \cup OfAuth(i).e.after) \subseteq T
    BY ContextRecorded DEF Targets
  <2> HIDE DEF T
  <2> QED
    BY <1>2, <1>3, <2>1, <2>2
<1>5. /\ OfZeek(i).e.urls = OfPromotion(i).e.urls /\ OfAuthPatch(i).e.urls = OfPromotion(i).e.urls
      /\ OfFimPatch(i).e.urls = OfPromotion(i).e.urls
      /\ OfSudoPatch(i).e.urls = OfPromotion(i).e.urls
  <2>1. OfZeek(i).e.urls = OfPromotion(i).e.urls
    BY Shapes, ZeekWrites DEF OfZeek, Leaves, Fields
  <2>2. OfAuthPatch(i).e.urls = OfPromotion(i).e.urls
    BY <2>1, PatchesLeave DEF Leaves, Fields
  <2>3. OfFimPatch(i).e.urls = OfPromotion(i).e.urls
    BY <2>2, PatchesLeave DEF Leaves, Fields
  <2>4. OfSudoPatch(i).e.urls = OfPromotion(i).e.urls
    BY <2>3, PatchesLeave DEF Leaves, Fields
  <2> QED
    BY <2>1, <2>2, <2>3, <2>4
<1> HIDE DEF T
<1>6. OfNothing.e.urls \subseteq T
  BY NoAddressYet
<1>7. Standing(i, s).e.urls \subseteq T
  BY <1>2, <1>3, <1>4, <1>5, <1>6, StandingAt DEF Stages
<1> QED
  BY <1>7 DEF T

\* The endpoint events are none, then the bound ones.
LEMMA EndpointRecorded ==
  ASSUME NEW i, NEW s \in Stages \cup {"refused"}
  PROVE  Standing(i, s).e.endpoint \in {{}, Bound(i)} /\ OfSudoPatch(i).e.endpoint = Bound(i)
<1>1. OfBase(i).e.endpoint = {} /\ OfNothing.e.endpoint = {}
  BY DEF OfBase, OfNothing, NoEvidence, BaseEvidence
<1>2. OfProcess(i).e.endpoint = {}
  BY <1>1, Shapes, ProcessWrites DEF OfProcess, Leaves, Fields
<1>3. OfAuditd(i).e.endpoint = {}
  BY <1>2, Shapes, AuditdWrites DEF OfAuditd, Leaves, Fields
<1>4. OfEndpoint(i).e.endpoint = Bound(i)
  BY Shapes, EndpointWrites DEF OfEndpoint
<1>5. OfArchive(i).e.endpoint = Bound(i)
  BY <1>4, Shapes, ArchiveWrites DEF OfArchive, Leaves, Fields
<1>6. OfHits(i).e.endpoint = Bound(i)
  BY <1>5, Shapes, HitsWrites DEF OfHits, Leaves, Fields
<1>7. OfAuth(i).e.endpoint = Bound(i)
  BY <1>6, Shapes, AuthWrites DEF OfAuth, Leaves, Fields
<1>8. OfPromotion(i).e.endpoint = Bound(i)
  BY <1>7, Shapes, PromoteWrites DEF OfPromotion, Leaves, Fields
<1>9. OfZeek(i).e.endpoint = Bound(i)
  BY <1>8, Shapes, ZeekWrites DEF OfZeek, Leaves, Fields
<1>10. OfAuthPatch(i).e.endpoint = Bound(i)
  BY <1>9, PatchesLeave DEF Leaves, Fields
<1>11. OfFimPatch(i).e.endpoint = Bound(i)
  BY <1>10, PatchesLeave DEF Leaves, Fields
<1>12. OfSudoPatch(i).e.endpoint = Bound(i)
  BY <1>11, PatchesLeave DEF Leaves, Fields
<1> QED
  BY <1>1, <1>2, <1>3, <1>4, <1>5, <1>6, <1>7, <1>8, <1>9, <1>10, <1>11, <1>12, StandingAt
  DEF Stages

\* The events of the timeline and the chain rules are never touched again.
LEMMA TimelineKept ==
  ASSUME NEW i
  PROVE  /\ OfSudoPatch(i).e.downloads = {e \in Range(i.timeline) : Downloads(e)}
         /\ OfSudoPatch(i).e.chmods = {e \in Range(i.timeline) : IsChmod(e)}
         /\ OfSudoPatch(i).e.executions = {e \in Range(i.timeline) : Executes(e)}
         /\ OfSudoPatch(i).e.rules = i.hits
<1> DEFINE Same(q, r) == /\ r.e.downloads = q.e.downloads /\ r.e.chmods = q.e.chmods
                         /\ r.e.executions = q.e.executions
<1>1. /\ OfBase(i).e.downloads = {e \in Range(i.timeline) : Downloads(e)}
      /\ OfBase(i).e.chmods = {e \in Range(i.timeline) : IsChmod(e)}
      /\ OfBase(i).e.executions = {e \in Range(i.timeline) : Executes(e)}
  BY DEF OfBase, BaseEvidence
<1>2. Same(OfBase(i), OfProcess(i))
  BY Shapes, ProcessWrites DEF OfProcess, Leaves, Fields
<1>3. Same(OfProcess(i), OfAuditd(i))
  BY Shapes, AuditdWrites DEF OfAuditd, Leaves, Fields
<1>4. Same(OfAuditd(i), OfEndpoint(i))
  BY Shapes, EndpointWrites DEF OfEndpoint, Leaves, Fields
<1>5. Same(OfEndpoint(i), OfArchive(i))
  BY Shapes, ArchiveWrites DEF OfArchive, Leaves, Fields
<1>6. Same(OfArchive(i), OfHits(i)) /\ OfHits(i).e.rules = i.hits
  BY Shapes, HitsWrites DEF OfHits, Leaves, Fields
<1>7. Same(OfHits(i), OfAuth(i)) /\ OfAuth(i).e.rules = OfHits(i).e.rules
  BY Shapes, AuthWrites DEF OfAuth, Leaves, Fields
<1>8. Same(OfAuth(i), OfPromotion(i)) /\ OfPromotion(i).e.rules = OfAuth(i).e.rules
  <2>1. Leaves(OfAuth(i), OfPromotion(i), {"urls", "saved", "ran", "payload", "executed"})
    BY Shapes, PromoteWrites DEF OfPromotion
  <2> QED
    BY <2>1 DEF Leaves, Fields
<1>9. Same(OfPromotion(i), OfZeek(i)) /\ OfZeek(i).e.rules = OfPromotion(i).e.rules
  BY Shapes, ZeekWrites DEF OfZeek, Leaves, Fields
<1>10. Same(OfZeek(i), OfAuthPatch(i)) /\ OfAuthPatch(i).e.rules = OfZeek(i).e.rules
  BY PatchesLeave DEF Leaves, Fields
<1>11. Same(OfAuthPatch(i), OfFimPatch(i)) /\ OfFimPatch(i).e.rules = OfAuthPatch(i).e.rules
  BY PatchesLeave DEF Leaves, Fields
<1>12. Same(OfFimPatch(i), OfSudoPatch(i)) /\ OfSudoPatch(i).e.rules = OfFimPatch(i).e.rules
  BY PatchesLeave DEF Leaves, Fields
<1> QED
  BY <1>1, <1>2, <1>3, <1>4, <1>5, <1>6, <1>7, <1>8, <1>9, <1>10, <1>11, <1>12

\* An incident whose references were not refused binds events it names.
LEMMA BoundNamed ==
  ASSUME NEW i \in Inputs, ~Refused(i)
  PROVE  /\ Bound(i) \subseteq Range(i.endpoint)
         /\ Bound(i) \subseteq IF i.correlated /\ i.refs # <<>>
                               THEN {i.endpoint[n] : n \in Range(i.refs) \cap DOMAIN i.endpoint}
                               ELSE Range(i.endpoint)
<1>1. i.endpoint \in Seq(Range(i.endpoint)) /\ i.refs \in Seq(Nat \ {0})
  BY InvestigationAssumption
<1>2. DOMAIN i.endpoint = 1..Len(i.endpoint) /\ Len(i.endpoint) \in Nat
  BY <1>1
<1>3. Range(i.refs) \subseteq Nat \ {0}
  BY <1>1 DEF Range
<1>4. CASE Binds(i)
  <2>1. \A n \in Range(i.refs) : n \in DOMAIN i.endpoint
    <3>1. \A n \in Range(i.refs) : ~(n > Len(i.endpoint))
      BY <1>4 DEF Refused
    <3> QED
      BY <1>2, <1>3, <3>1
  <2>2. Bound(i) = {i.endpoint[n] : n \in Range(i.refs)}
    BY <1>4 DEF Bound
  <2> QED
    BY <1>4, <2>1, <2>2 DEF Binds, Range
<1>5. CASE ~Binds(i)
  <2>1. Bound(i) = Range(i.endpoint)
    BY <1>5 DEF Bound
  <2>2. i.correlated /\ i.refs # <<>> => i.endpoint = <<>>
    BY <1>5, InvestigationAssumption DEF Binds
  <2>3. Range(<<>>) = {}
    BY DEF Range
  <2> QED
    BY <2>1, <2>2, <2>3
<1> QED
  BY <1>4, <1>5

-----------------------------------------------------------------------------
(* What is stated. *)

\* The URLs are those of commands of the timeline or of the process records, the
\* endpoint events are among the given ones, and only a finished investigation
\* has a report, with one of the four levels.
THEOREM EvidenceTypeCorrect == EvidenceSpec => []EvidenceTypeOK
<1>1. ASSUME EvidenceInv PROVE EvidenceTypeOK
  <2>1. stage \in Stages \cup {"refused"} /\ Now = Standing(input, stage) /\ input \in Inputs
    BY <1>1 DEF EvidenceInv
  <2>2. Now.e = evidence
    BY DEF Now
  <2>3. evidence.urls \subseteq Targets(Range(input.timeline) \cup input.process)
    BY <2>1, <2>2, UrlsRecorded
  <2>4. evidence.endpoint \subseteq Range(input.endpoint)
    <3>1. CASE stage \in {"base", "refused"}
      <4>1. Now = OfNothing
        BY <2>1, <3>1, StandingAt
      <4>2. OfNothing.e.endpoint = {}
        BY DEF OfNothing, NoEvidence, BaseEvidence
      <4>3. evidence.endpoint = {}
        BY <2>2, <4>1, <4>2
      <4> QED
        BY <4>3
    <3>2. CASE stage \notin {"base", "refused"}
      <4>1. ~Refused(input)
        BY <1>1, <3>2 DEF EvidenceInv
      <4> QED
        BY <2>1, <2>2, <4>1, EndpointRecorded, BoundNamed
    <3> QED
      BY <3>1, <3>2
  <2>5. stage = "done" => report.level \in 0..3
    <3>1. \A r : Level(r) \in 0..3
      BY DEF Level
    <3> QED
      BY <1>1, <3>1 DEF EvidenceInv, ReportOf
  <2> QED
    BY <1>1, <2>3, <2>4, <2>5 DEF EvidenceTypeOK, EvidenceInv
<1> QED
  BY <1>1, EvidenceInvariant, PTL

\* More events never undo a chain.
LEMMA ChainMonotone ==
  ASSUME NEW S, NEW T, S \subseteq T, OrderedSamePathChain(S)
  PROVE  OrderedSamePathChain(T)
BY DEF OrderedSamePathChain

\* What a story or a summary that confirms the chain has behind it.
LEMMA ChainConfirmed ==
  ASSUME NEW i, NEW r, "chain" \in {Summary(i, r), Story(i, r)}
  PROVE  \/ r.e.rules \/ OrderedSamePathChain(r.e.endpoint)
         \/ OrderedSamePathChain(r.e.downloads \cup r.e.chmods \cup r.e.executions)
<1>1. ChainStory(ChainState(r)) = "chain"
  BY DEF Summary, Story
<1>2. ChainState(r).full
  BY <1>1 DEF ChainStory
<1> QED
  BY <1>2 DEF ChainState

\* A report confirms download, permission change and execution only when a chain
\* rule fired or three events of this incident show them in order on one path;
\* endpoint events of other incidents in the shared input never count.
THEOREM ChainsRestOnTheIncident == EvidenceSpec => []ChainRestsOnIncident
<1>1. ASSUME EvidenceInv PROVE ChainRestsOnIncident
  <2> DEFINE named == IF input.correlated /\ input.refs # <<>>
                      THEN {input.endpoint[n] : n \in Range(input.refs) \cap DOMAIN input.endpoint}
                      ELSE Range(input.endpoint)
             r == OfSudoPatch(input)
  <2>1. SUFFICES ASSUME stage = "done", "chain" \in {report.summary, report.story}
                 PROVE  \/ input.hits \/ OrderedSamePathChain(Range(input.timeline))
                        \/ OrderedSamePathChain(named)
    BY DEF ChainRestsOnIncident
  <2>2. input \in Inputs /\ ~Refused(input) /\ report = ReportOf(input, r)
    BY <1>1, <2>1 DEF EvidenceInv, Stages
  <2>3. report.summary = Summary(input, r) /\ report.story = Story(input, r)
    BY <2>2 DEF ReportOf
  <2>4. /\ r.e.endpoint = Bound(input) /\ r.e.rules = input.hits
        /\ r.e.downloads \cup r.e.chmods \cup r.e.executions \subseteq Range(input.timeline)
    BY EndpointRecorded, TimelineKept DEF Stages
  <2>5. Bound(input) \subseteq named
    BY <2>2, BoundNamed
  <2> HIDE DEF named, r
  <2>6. \/ r.e.rules \/ OrderedSamePathChain(r.e.endpoint)
        \/ OrderedSamePathChain(r.e.downloads \cup r.e.chmods \cup r.e.executions)
    BY <2>1, <2>3, ChainConfirmed
  <2> QED
    BY <2>4, <2>5, <2>6, ChainMonotone
<1> QED
  BY <1>1, EvidenceInvariant, PTL

\* What the chain state is made of.
LEMMA ChainStateParts ==
  ASSUME NEW r, NEW st, st = ChainState(r)
  PROVE  /\ st.endpointFull => st.full
         /\ st.missing \subseteq {"download", "permission change", "execution"}
         /\ st.gaps = IF ~st.full /\ st.missing = {}
                      THEN {"ordered same-payload-path correlation"} ELSE st.missing
         /\ r.e.rules => st.missing = {}
         /\ st.endpointFull => st.missing = {}
         /\ r.e.downloads # {} /\ r.e.chmods # {} /\ r.e.executions # {} => st.missing = {}
         /\ st.full => \/ r.e.rules \/ st.endpointFull
                       \/ OrderedSamePathChain(r.e.downloads \cup r.e.chmods \cup r.e.executions)
<1> DEFINE fetched == "endpoint_url_fetch_observed" \in r.f
           changed == "endpoint_chmod_execute_chain_observed" \in r.f
           executed == {"endpoint_download_then_execute_pattern",
                        "endpoint_chmod_execute_chain_observed"} \cap r.f # {}
           endpointChain == fetched /\ changed /\ executed /\ OrderedSamePathChain(r.e.endpoint)
           full == \/ r.e.rules \/ endpointChain
                   \/ OrderedSamePathChain(r.e.downloads \cup r.e.chmods \cup r.e.executions)
           noDownload == ~(r.e.downloads # {} \/ r.e.urls # {} \/ fetched \/ r.e.rules)
           noChange == ~(r.e.chmods # {} \/ changed \/ r.e.rules)
           noRun == ~(\/ r.e.executions # {} \/ r.e.ran # {} \/ executed \/ r.e.rules
                      \/ "execution_chain_confirmed_by_process_events" \in r.f)
           missing == Where("download", noDownload) \cup Where("permission change", noChange)
                        \cup Where("execution", noRun)
<1>1. /\ st.full = full /\ st.endpointFull = endpointChain /\ st.missing = missing
      /\ st.gaps = IF ~full /\ missing = {}
                   THEN {"ordered same-payload-path correlation"} ELSE missing
  BY DEF ChainState
<1>2. /\ missing \subseteq {"download", "permission change", "execution"}
      /\ ~noDownload /\ ~noChange /\ ~noRun => missing = {}
  <2> HIDE DEF noDownload, noChange, noRun
  <2> QED
    BY DEF Where
<1>3. r.e.rules \/ endpointChain => ~noDownload /\ ~noChange /\ ~noRun
  OBVIOUS
<1>4. r.e.downloads # {} /\ r.e.chmods # {} /\ r.e.executions # {}
        => ~noDownload /\ ~noChange /\ ~noRun
  OBVIOUS
<1>5. /\ endpointChain => full
      /\ full => \/ r.e.rules \/ endpointChain
                 \/ OrderedSamePathChain(r.e.downloads \cup r.e.chmods \cup r.e.executions)
  OBVIOUS
<1> HIDE DEF full, endpointChain, missing, noDownload, noChange, noRun
<1> QED
  BY <1>1, <1>2, <1>3, <1>4, <1>5

\* A confirmed chain lacks none of its three elements: an ordered chain in the
\* timeline has a download, a permission change and an execution.
LEMMA FullLacksNothing ==
  ASSUME NEW r, NEW T, ChainState(r).full,
         r.e.downloads = {e \in T : Downloads(e)}, r.e.chmods = {e \in T : IsChmod(e)},
         r.e.executions = {e \in T : Executes(e)}
  PROVE  ChainState(r).missing = {} /\ ChainState(r).gaps = {}
<1>1. CASE r.e.rules \/ ChainState(r).endpointFull
  BY <1>1, ChainStateParts
<1>2. CASE OrderedSamePathChain(r.e.downloads \cup r.e.chmods \cup r.e.executions)
  <2>1. PICK d \in T, c \in T, x \in T :
          IsChmod(c) /\ Executes(x) /\ LocalPaths(d) # {}
    BY <1>2 DEF OrderedSamePathChain
  <2>2. Downloads(d)
    BY <2>1 DEF LocalPaths, Downloads
  <2>3. r.e.downloads # {} /\ r.e.chmods # {} /\ r.e.executions # {}
    BY <2>1, <2>2
  <2> QED
    BY <2>3, ChainStateParts
<1> QED
  BY <1>1, <1>2, ChainStateParts

\* The seven functions read one chain state.
LEMMA ReportAgrees ==
  ASSUME NEW i, NEW r, NEW st, st = ChainState(r), st.full => st.missing = {} /\ st.gaps = {}
  PROVE  /\ Story(i, r) = "chain" => /\ st.gaps = {}
                                     /\ "full chain" \notin UnsupportedClaims(i, r)
                                     /\ "collect missing" \notin NextSteps(i, r)
         /\ Story(i, r) \in {"limited", "nothing"} => st.gaps # {}
         /\ Story(i, r) \in {"limited", "nothing"} /\ r.e.fim = {}
              => "full chain" \in UnsupportedClaims(i, r)
         /\ Summary(i, r) \in {Story(i, r), "persistence"}
         /\ Story(i, r) = "nothing" => "preserve payload" \notin NextSteps(i, r)
         /\ "inspect ordered chain" \in MissingPivots(i, r) /\ Story(i, r) # "archive"
              => Story(i, r) \in {"chain", "after login"}
<1>1. /\ st.endpointFull => st.full
      /\ st.gaps = IF ~st.full /\ st.missing = {}
                   THEN {"ordered same-payload-path correlation"} ELSE st.missing
  BY ChainStateParts
<1>2. /\ ChainStory(st) = "chain" <=> st.full
      /\ ChainStory(st) \in {"chain", "limited", "nothing"}
      /\ ChainStory(st) = "nothing" => "download" \in st.missing
  BY DEF ChainStory
<1>3. /\ Story(i, r) = "archive" <=> i.archive
      /\ Story(i, r) = "after login" <=> ~i.archive /\ AfterLogin(r)
      /\ Story(i, r) \in {"chain", "limited", "nothing"} => Story(i, r) = ChainStory(st)
      /\ Story(i, r) \in {"archive", "after login", "chain", "limited", "nothing"}
  BY <1>2 DEF Story
<1>4. Summary(i, r) \in {Story(i, r), "persistence"}
  BY DEF Summary, Story
<1>5. "full chain" \in UnsupportedClaims(i, r) <=> UsesGenericNarrative(i, r) /\ ~st.full
  BY DEF UnsupportedClaims, Where
<1>6. /\ ~i.archive /\ st.full => "collect missing" \notin NextSteps(i, r)
      /\ ~i.archive /\ ~st.full /\ "download" \in st.missing =>
           "preserve payload" \notin NextSteps(i, r)
  BY DEF NextSteps, Where
<1>7. "inspect ordered chain" \in MissingPivots(i, r) => st.endpointFull
  BY DEF MissingPivots, Where
<1> HIDE DEF Story, Summary
<1>8. Story(i, r) = "chain" => st.full /\ ~i.archive
  BY <1>2, <1>3
<1>9. Story(i, r) \in {"limited", "nothing"} => ~st.full /\ ~i.archive /\ ~AfterLogin(r)
  BY <1>2, <1>3
<1>10. Story(i, r) \in {"limited", "nothing"} => st.gaps # {}
  BY <1>1, <1>9
<1>11. Story(i, r) \in {"limited", "nothing"} /\ r.e.fim = {}
         => "full chain" \in UnsupportedClaims(i, r)
  BY <1>5, <1>9 DEF UsesGenericNarrative
<1>12. Story(i, r) = "nothing" => "preserve payload" \notin NextSteps(i, r)
  BY <1>2, <1>3, <1>6, <1>9
<1>13. "inspect ordered chain" \in MissingPivots(i, r) /\ Story(i, r) # "archive"
         => Story(i, r) \in {"chain", "after login"}
  BY <1>1, <1>2, <1>3, <1>7, <1>9
<1> QED
  BY <1>4, <1>5, <1>6, <1>8, <1>10, <1>11, <1>12, <1>13

\* Summary, story, gaps, claims, pivots and steps are stated by seven functions;
\* they never contradict each other.
THEOREM StatementsNeverContradict == EvidenceSpec => []StatementsAgree
<1>1. ASSUME EvidenceInv PROVE StatementsAgree
  <2>1. SUFFICES ASSUME stage = "done"
                 PROVE  StatementsAgree
    BY DEF StatementsAgree
  <2> DEFINE r == OfSudoPatch(input)
  <2>2. report = ReportOf(input, r) /\ Now = r
    BY <1>1, <2>1, StandingAt DEF EvidenceInv
  <2>3. evidence.fim = r.e.fim
    BY <2>2 DEF Now
  <2>4. ChainState(r).full => ChainState(r).missing = {} /\ ChainState(r).gaps = {}
    BY TimelineKept, FullLacksNothing
  <2> HIDE DEF r
  <2>5. /\ report.story = Story(input, r) /\ report.summary = Summary(input, r)
        /\ report.chainGaps = ChainState(r).gaps
        /\ report.claims = UnsupportedClaims(input, r)
        /\ report.steps = NextSteps(input, r) /\ report.missing = MissingPivots(input, r)
    BY <2>2 DEF ReportOf
  <2>6. /\ Story(input, r) = "chain" =>
             /\ ChainState(r).gaps = {}
             /\ "full chain" \notin UnsupportedClaims(input, r)
             /\ "collect missing" \notin NextSteps(input, r)
        /\ Story(input, r) \in {"limited", "nothing"} => ChainState(r).gaps # {}
        /\ Story(input, r) \in {"limited", "nothing"} /\ r.e.fim = {}
             => "full chain" \in UnsupportedClaims(input, r)
        /\ Summary(input, r) \in {Story(input, r), "persistence"}
        /\ Story(input, r) = "nothing" => "preserve payload" \notin NextSteps(input, r)
        /\ "inspect ordered chain" \in MissingPivots(input, r) /\ Story(input, r) # "archive"
             => Story(input, r) \in {"chain", "after login"}
    BY <2>4, ReportAgrees
  <2> QED
    BY <2>3, <2>5, <2>6 DEF StatementsAgree
<1> QED
  BY <1>1, EvidenceInvariant, PTL

-----------------------------------------------------------------------------
(* Two investigations compared. *)

LEMMA OutcomeIs ==
  ASSUME NEW i
  PROVE  Outcome(i) = ReportOf(i, OfSudoPatch(i))
BY DEF Outcome, OfSudoPatch, OfFimPatch, OfAuthPatch, OfZeek, OfPromotion, OfAuth, OfHits,
   OfArchive, OfEndpoint, OfAuditd, OfProcess, OfBase

\* i and j differ at most in their process, login and Wazuh records and in endpoint
\* events that are not bound.
Alike(i, j) ==
  /\ j.timeline = i.timeline /\ Bound(j) = Bound(i) /\ j.auditd = i.auditd
  /\ j.zeek = i.zeek
  /\ j.hits = i.hits /\ j.archive = i.archive /\ j.host = i.host /\ j.user = i.user
  /\ j.start = i.start /\ j.end = i.end

\* ... and the records that concern them are the same.
SameRecords(i, j) ==
  /\ {e \in j.process : Related(e, i)} = {e \in i.process : Related(e, i)}
  /\ {a \in j.auth : Related(a, i)} = {a \in i.auth : Related(a, i)}
  /\ {a \in j.fim : i.host = Unknown \/ a.host = i.host} =
       {a \in i.fim : i.host = Unknown \/ a.host = i.host}
  /\ {a \in j.sudo : i.host = Unknown \/ a.host = i.host} =
       {a \in i.sudo : i.host = Unknown \/ a.host = i.host}

\* The patch of three sets of login records.
PatchOf(failures, successes, keys, r) ==
  LET ips == Known({a.src : a \in failures \cup successes \cup keys})
      follows == successes # {} /\ \E a \in failures : a.at <= Min({s.at : s \in successes})
  IN [e |-> [failures |-> failures, successes |-> successes, ips |-> ips],
      f |-> Where("auth_bruteforce_observed", failures # {})
              \cup Where("auth_success_after_failures_observed", follows)
              \cup Where("same_source_ip_auth_and_payload_observed",
                         ips \cap {u.host : u \in r.e.urls} # {})]

LEMMA AuthPatchOf ==
  ASSUME NEW i, NEW r
  PROVE  AuthPatch(i, r) =
           PatchOf(AuthBetween(i, {"ssh_failed_login", "ssh_auth_failure"}, i.start - 600, i.end),
                   AuthBetween(i, {"ssh_success_login"}, i.start - 180, i.end + 180),
                   AuthBetween(i, {"ssh_publickey_login"}, i.start - 180, i.end + 180), r)
BY DEF AuthPatch, PatchOf

LEMMA SameOutcome ==
  ASSUME NEW i, NEW j, Alike(i, j), SameRecords(i, j)
  PROVE  Outcome(j) = Outcome(i)
<1> USE DEF Alike
<1>1. \A e : Related(e, j) <=> Related(e, i)
  BY DEF Related
<1>2. OfBase(j) = OfBase(i)
  BY DEF OfBase, BaseEvidence, BaseFeatures
<1>3. OfProcess(j) = OfProcess(i)
  <2>1. RelatedProcess(j) = RelatedProcess(i)
    BY <1>1 DEF RelatedProcess, SameRecords
  <2> QED
    BY <1>2, <2>1 DEF OfProcess, AddProcessContext
<1>4. OfAuditd(j) = OfAuditd(i)
  BY <1>3 DEF OfAuditd, AddAuditdContext
<1>5. Bound(j) = Bound(i)
  OBVIOUS
<1>6. OfEndpoint(j) = OfEndpoint(i)
  BY <1>4, <1>5 DEF OfEndpoint, AddEndpointContext
<1>7. OfArchive(j) = OfArchive(i)
  BY <1>5, <1>6 DEF OfArchive, AddArchiveContext
<1>8. OfHits(j) = OfHits(i)
  BY <1>7 DEF OfHits, AddChainHits
<1>9. OfAuth(j) = OfAuth(i)
  <2>1. FirstInstant(j) = FirstInstant(i)
    BY DEF FirstInstant
  <2>2. KeyLogins(j) = KeyLogins(i)
    <3>1. \A l : l \in j.auth /\ Related(l, i) <=> l \in i.auth /\ Related(l, i)
      BY DEF SameRecords
    <3> QED
      BY <1>1, <2>1, <3>1 DEF KeyLogins
  <2> QED
    BY <1>8, <2>2 DEF OfAuth, AddAuthContext
<1>10. OfPromotion(j) = OfPromotion(i)
  BY <1>9 DEF OfPromotion
<1>11. OfZeek(j) = OfZeek(i)
  BY <1>10 DEF OfZeek, AddZeek
<1>12. OfAuthPatch(j) = OfAuthPatch(i)
  <2>1. \A types, lo, hi : AuthBetween(j, types, lo, hi) = AuthBetween(i, types, lo, hi)
    <3>1. \A l : l \in j.auth /\ Related(l, i) <=> l \in i.auth /\ Related(l, i)
      BY DEF SameRecords
    <3>2. SUFFICES ASSUME NEW types, NEW lo, NEW hi
                   PROVE  AuthBetween(j, types, lo, hi) = AuthBetween(i, types, lo, hi)
      OBVIOUS
    <3> DEFINE when(a) == a.type \in types /\ a.at # NoTime /\ a.at >= lo /\ a.at <= hi
    <3>3. \A a : a \in AuthBetween(j, types, lo, hi) <=> a \in j.auth /\ Related(a, j) /\ when(a)
      BY DEF AuthBetween
    <3>4. \A a : a \in AuthBetween(i, types, lo, hi) <=> a \in i.auth /\ Related(a, i) /\ when(a)
      BY DEF AuthBetween
    <3> HIDE DEF when
    <3>5. \A a : a \in AuthBetween(j, types, lo, hi) <=> a \in AuthBetween(i, types, lo, hi)
      BY <1>1, <3>1, <3>3, <3>4
    <3> QED
      BY <3>5 DEF AuthBetween
  <2>2. ASSUME NEW r PROVE AuthPatch(j, r) = AuthPatch(i, r)
    <3>1. /\ AuthBetween(j, {"ssh_failed_login", "ssh_auth_failure"}, j.start - 600, j.end)
               = AuthBetween(i, {"ssh_failed_login", "ssh_auth_failure"}, i.start - 600, i.end)
          /\ AuthBetween(j, {"ssh_success_login"}, j.start - 180, j.end + 180)
               = AuthBetween(i, {"ssh_success_login"}, i.start - 180, i.end + 180)
          /\ AuthBetween(j, {"ssh_publickey_login"}, j.start - 180, j.end + 180)
               = AuthBetween(i, {"ssh_publickey_login"}, i.start - 180, i.end + 180)
      BY <2>1
    <3> QED
      BY <3>1, AuthPatchOf
  <2> QED
    BY <1>11, <2>2 DEF OfAuthPatch
<1>13. OfFimPatch(j) = OfFimPatch(i)
  <2>1. Matching(j.fim, j, FALSE) = Matching(i.fim, i, FALSE)
    BY DEF Matching, SameRecords
  <2>2. WazuhPatch(j.fim, j, FALSE) = WazuhPatch(i.fim, i, FALSE)
    BY <2>1 DEF WazuhPatch
  <2> QED
    BY <1>12, <2>2 DEF OfFimPatch
<1>14. OfSudoPatch(j) = OfSudoPatch(i)
  <2>1. Matching(j.sudo, j, TRUE) = Matching(i.sudo, i, TRUE)
    <3>1. \A a : a \in j.sudo /\ (i.host = Unknown \/ a.host = i.host)
                  <=> a \in i.sudo /\ (i.host = Unknown \/ a.host = i.host)
      BY DEF SameRecords
    <3> QED
      BY <3>1 DEF Matching
  <2>2. WazuhPatch(j.sudo, j, TRUE) = WazuhPatch(i.sudo, i, TRUE)
    BY <2>1 DEF WazuhPatch
  <2> QED
    BY <1>13, <2>2 DEF OfSudoPatch
<1>15. ReportOf(j, OfSudoPatch(j)) = ReportOf(i, OfSudoPatch(i))
  BY <1>14 DEF ReportOf, Summary, Story, EvidenceGaps, UnsupportedClaims, MissingPivots,
     RecommendedPivots, NextSteps, UsesGenericNarrative
<1> QED
  BY <1>15, OutcomeIs

\* Of the inputs all incidents share, process and login records of another host or
\* user, Wazuh alerts of another host and, for a correlation incident with references,
\* endpoint events it does not name change nothing in the report.
THEOREM RecordsOfOthersDoNotCount == EvidenceSpec => []OthersChangeNothing
<1>1. ASSUME EvidenceInv PROVE OthersChangeNothing
  <2> DEFINE mine == {e \in input.process : Agrees(e.host, input.host) /\ Agrees(e.user, input.user)}
             logins == {a \in input.auth : Agrees(a.host, input.host) /\ Agrees(a.user, input.user)}
             onHost(S) == {a \in S : input.host = Unknown \/ a.host = input.host}
             named == input.given /\ input.correlated /\ input.refs # <<>>
             own == [n \in DOMAIN input.refs |-> input.endpoint[input.refs[n]]]
             places == [n \in DOMAIN input.refs |-> n]
             endpoint == IF named THEN own ELSE input.endpoint
             refs == IF named THEN places ELSE input.refs
             j == [input EXCEPT !.process = mine, !.auth = logins,
                                !.fim = onHost(@), !.sudo = onHost(@),
                                !.endpoint = IF named THEN own ELSE @,
                                !.refs = IF named THEN places ELSE @]
  <2>1. SUFFICES ASSUME stage = "done" PROVE report = Outcome(j)
    BY DEF OthersChangeNothing
  <2>2. input \in Inputs /\ report = Outcome(input)
    BY <1>1, <2>1, OutcomeIs DEF EvidenceInv
  <2>3. DOMAIN input = SourceNames \cup {"timeline", "given", "correlated", "refs", "foreignRefs",
                                         "hits", "archive", "host", "user", "start", "end"}
    BY <2>2, InvestigationAssumption
  <2>4. /\ j.process = mine /\ j.auth = logins
        /\ j.fim = onHost(input.fim) /\ j.sudo = onHost(input.sudo)
        /\ j.endpoint = endpoint /\ j.refs = refs
        /\ j.given = input.given /\ j.correlated = input.correlated
        /\ j.timeline = input.timeline /\ j.auditd = input.auditd /\ j.zeek = input.zeek
        /\ j.hits = input.hits /\ j.archive = input.archive
        /\ j.host = input.host /\ j.user = input.user
        /\ j.start = input.start /\ j.end = input.end
    <3> HIDE DEF mine, logins, onHost, named, own, places
    <3> QED
      BY <2>3 DEF SourceNames, endpoint, refs
  <2>5. Bound(j) = Bound(input)
    <3>1. CASE ~named
      BY <2>4, <3>1 DEF Bound, Binds
    <3>2. CASE named
      <4>1. places # <<>> /\ DOMAIN places = DOMAIN input.refs
        <5>1. input.refs \in Seq(Nat \ {0})
          BY <2>2, InvestigationAssumption
        <5>2. DOMAIN input.refs # {}
          <6>1. input.refs # <<>> /\ Len(input.refs) \in Nat /\ Len(input.refs) # 0
            BY <3>2, <5>1
          <6>2. 1 \in 1..Len(input.refs) /\ DOMAIN input.refs = 1..Len(input.refs)
            BY <5>1, <6>1
          <6> QED
            BY <6>2
        <5> QED
          BY <5>2
      <4>2. Binds(input) /\ Binds(j)
        <5> HIDE DEF j, places, own
        <5> QED
          BY <2>4, <3>2, <4>1 DEF Binds
      <4>3. Bound(j) = {own[n] : n \in Range(places)}
        <5> HIDE DEF j, places, own
        <5> QED
          BY <2>4, <3>2, <4>2 DEF Bound
      <4>4. Range(places) = DOMAIN input.refs
        BY DEF Range
      <4>5. Bound(j) = {input.endpoint[input.refs[n]] : n \in DOMAIN input.refs}
        <5> HIDE DEF j, places
        <5> QED
          BY <4>3, <4>4
      <4>6. Bound(input) = {input.endpoint[m] : m \in Range(input.refs)}
        BY <4>2 DEF Bound
      <4> HIDE DEF j
      <4> QED
        BY <4>5, <4>6 DEF Range
    <3> QED
      BY <3>1, <3>2
  <2>6. Alike(input, j)
    <3> HIDE DEF j
    <3> QED
      BY <2>4, <2>5 DEF Alike
  <2>7. SameRecords(input, j)
    <3> HIDE DEF j
    <3>1. \A e : e \in j.process /\ Related(e, input) <=> e \in input.process /\ Related(e, input)
      BY <2>4 DEF Related
    <3>2. \A e : e \in j.auth /\ Related(e, input) <=> e \in input.auth /\ Related(e, input)
      BY <2>4 DEF Related
    <3> QED
      BY <2>4, <3>1, <3>2 DEF SameRecords
  <2> HIDE DEF j
  <2> QED
    BY <2>2, <2>6, <2>7, SameOutcome
<1> QED
  BY <1>1, EvidenceInvariant, PTL

-----------------------------------------------------------------------------
(* One source less. *)

Weaker(q, r) ==
  /\ q.f \subseteq r.f
  /\ \A k \in Fields \ {"rules", "http"} : q.e[k] \subseteq r.e[k]
  /\ q.e.rules => r.e.rules
  /\ q.e.http => r.e.http

\* Each source of j is that of i, or nothing.
Lesser(j, i) ==
  /\ j.process \in {{}, i.process}
  /\ \/ j.endpoint = i.endpoint /\ j.given = i.given
     \/ j.endpoint = <<>> /\ j.given = FALSE
  /\ j.auditd \in {{}, i.auditd} /\ j.auth \in {{}, i.auth} /\ j.zeek \in {{}, i.zeek}
  /\ j.fim \in {{}, i.fim} /\ j.sudo \in {{}, i.sudo}
  /\ j.timeline = i.timeline /\ j.correlated = i.correlated /\ j.refs = i.refs
  /\ j.hits = i.hits /\ j.archive = i.archive /\ j.host = i.host /\ j.user = i.user
  /\ j.start = i.start /\ j.end = i.end

LEMMA LessProcess ==
  ASSUME NEW i, NEW j, Lesser(j, i)
  PROVE  Weaker(OfProcess(j), OfProcess(i))
<1>1. OfBase(j) = OfBase(i)
  BY DEF OfBase, BaseEvidence, BaseFeatures, Lesser
<1>2. CASE j.process = i.process
  <2>1. RelatedProcess(j) = RelatedProcess(i)
    BY <1>2 DEF RelatedProcess, Related, Lesser
  <2>2. OfProcess(j) = OfProcess(i)
    BY <1>1, <2>1 DEF OfProcess, AddProcessContext, Lesser
  <2> QED
    BY <2>2 DEF Weaker
<1>3. CASE j.process = {}
  <2>1. \A anchor : ProcessAnchors(RelatedProcess(j), anchor) = {}
    BY <1>3 DEF RelatedProcess, ProcessAnchors
  <2>2. OfProcess(j) = OfBase(i)
    BY <1>1, <2>1 DEF OfProcess, AddProcessContext
  <2>3. /\ OfBase(i).e.before = {} /\ OfBase(i).e.after = {}
        /\ OfBase(i).e.children = {} /\ OfBase(i).e.descendants = {}
    BY DEF OfBase, BaseEvidence
  <2>4. /\ Leaves(OfBase(i), OfProcess(i), {"before", "after", "children", "descendants"})
        /\ OfBase(i).f \subseteq OfProcess(i).f
    BY Shapes, ProcessWrites DEF OfProcess
  <2> QED
    BY <2>2, <2>3, <2>4 DEF Weaker, Leaves, Fields
<1> QED
  BY <1>2, <1>3 DEF Lesser

LEMMA LessBound ==
  ASSUME NEW i, NEW j, Lesser(j, i)
  PROVE  /\ Bound(j) \subseteq Bound(i)
         /\ EndpointFeatures(Bound(j)) \subseteq EndpointFeatures(Bound(i))
<1>1. CASE j.endpoint = i.endpoint /\ j.given = i.given
  <2>1. Bound(j) = Bound(i)
    BY <1>1 DEF Bound, Binds, Lesser
  <2> QED
    BY <2>1
<1>2. CASE j.endpoint = <<>> /\ j.given = FALSE
  <2>1. Bound(j) = {}
    BY <1>2 DEF Bound, Binds, Range
  <2>2. EndpointFeatures({}) = {}
    BY DEF EndpointFeatures, Where
  <2> QED
    BY <2>1, <2>2
<1> QED
  BY <1>1, <1>2 DEF Lesser

LEMMA LessTelemetry ==
  ASSUME NEW i, NEW j, Lesser(j, i)
  PROVE  Weaker(OfHits(j), OfHits(i))
<1>1. Weaker(OfAuditd(j), OfAuditd(i))
  <2>1. j.auditd \subseteq i.auditd
    BY DEF Lesser
  <2>2. /\ Leaves(OfProcess(j), OfAuditd(j), {"auditd"}) /\ Leaves(OfProcess(i), OfAuditd(i), {"auditd"})
        /\ OfAuditd(j).f = OfProcess(j).f /\ OfAuditd(i).f = OfProcess(i).f
        /\ OfAuditd(j).e.auditd = j.auditd /\ OfAuditd(i).e.auditd = i.auditd
    BY Shapes, AuditdWrites DEF OfAuditd
  <2> QED
    BY <2>1, <2>2, LessProcess DEF Weaker, Leaves, Fields
<1>2. Weaker(OfEndpoint(j), OfEndpoint(i))
  <2>1. /\ Leaves(OfAuditd(j), OfEndpoint(j), {"endpoint"}) /\ Leaves(OfAuditd(i), OfEndpoint(i), {"endpoint"})
        /\ OfEndpoint(j).f = OfAuditd(j).f \cup EndpointFeatures(Bound(j))
        /\ OfEndpoint(i).f = OfAuditd(i).f \cup EndpointFeatures(Bound(i))
        /\ OfEndpoint(j).e.endpoint = Bound(j) /\ OfEndpoint(i).e.endpoint = Bound(i)
    BY Shapes, EndpointWrites DEF OfEndpoint
  <2>2. OfEndpoint(j).f \subseteq OfEndpoint(i).f
    BY <1>1, <2>1, LessBound DEF Weaker
  <2> QED
    BY <1>1, <2>1, <2>2, LessBound DEF Weaker, Leaves, Fields
<1>3. Weaker(OfArchive(j), OfArchive(i))
  <2>1. CASE ~i.archive
    BY <1>2, <2>1 DEF OfArchive, AddArchiveContext, Lesser
  <2>2. CASE i.archive
    <3> DEFINE seen(k) == {e \in Bound(k) : e.type \in {"process_exec", "file_write"}
                                            /\ (e.form # "none" \/ e.path # Unknown)}
    <3>1. /\ OfArchive(j).e.archive = seen(j) /\ OfArchive(i).e.archive = seen(i)
          /\ OfArchive(j).f = OfEndpoint(j).f \cup Where("archive_staging_behavior_observed", seen(j) # {})
          /\ OfArchive(i).f = OfEndpoint(i).f \cup Where("archive_staging_behavior_observed", seen(i) # {})
      <4>1. i.archive /\ j.archive
        BY <2>2 DEF Lesser
      <4>2. DOMAIN OfEndpoint(j).e = Fields /\ DOMAIN OfEndpoint(i).e = Fields
        BY Shapes DEF Shaped
      <4> QED
        BY <4>1, <4>2 DEF OfArchive, AddArchiveContext, Fields
    <3>2. /\ Leaves(OfEndpoint(j), OfArchive(j), {"archive"})
          /\ Leaves(OfEndpoint(i), OfArchive(i), {"archive"})
      BY Shapes, ArchiveWrites DEF OfArchive
    <3>3. seen(j) \subseteq seen(i)
      BY LessBound
    <3> HIDE DEF seen
    <3>4. OfArchive(j).f \subseteq OfArchive(i).f
      BY <1>2, <3>1, <3>3 DEF Weaker, Where
    <3> QED
      BY <1>2, <3>1, <3>2, <3>3, <3>4 DEF Weaker, Leaves, Fields
  <2> QED
    BY <2>1, <2>2
<1>4. /\ Leaves(OfArchive(j), OfHits(j), {"rules"}) /\ Leaves(OfArchive(i), OfHits(i), {"rules"})
      /\ OfHits(j).f = OfArchive(j).f \cup Where("process_chain_hit_present", j.hits)
      /\ OfHits(i).f = OfArchive(i).f \cup Where("process_chain_hit_present", i.hits)
      /\ OfHits(j).e.rules = j.hits /\ OfHits(i).e.rules = i.hits
  BY Shapes, HitsWrites DEF OfHits
<1>5. j.hits = i.hits
  BY DEF Lesser
<1>6. OfHits(j).f \subseteq OfHits(i).f
  BY <1>3, <1>4, <1>5 DEF Weaker
<1> QED
  BY <1>3, <1>4, <1>5, <1>6 DEF Weaker, Leaves, Fields

LEMMA LessLogins ==
  ASSUME NEW i, NEW j, Lesser(j, i)
  PROVE  Weaker(OfAuth(j), OfAuth(i))
<1>1. Weaker(OfHits(j), OfHits(i)) /\ OfHits(j).e.ips = {} /\ OfHits(j).e.logins = {}
  BY LessTelemetry, NoAddressYet
<1>2. KeyLogins(j) \in {{}, KeyLogins(i)}
  <2>1. FirstInstant(j) = FirstInstant(i)
    BY DEF FirstInstant, Lesser
  <2>2. \A a : Related(a, j) <=> Related(a, i)
    BY DEF Related, Lesser
  <2>3. CASE j.auth = {}
    BY <2>3 DEF KeyLogins
  <2>4. CASE j.auth = i.auth
    BY <2>1, <2>2, <2>4 DEF KeyLogins
  <2> QED
    BY <2>3, <2>4 DEF Lesser
<1>3. j.timeline = i.timeline
  BY DEF Lesser
<1>4. CASE i.timeline = <<>> \/ KeyLogins(i) = {}
  <2>1. OfAuth(i) = OfHits(i) /\ OfAuth(j) = OfHits(j)
    BY <1>2, <1>3, <1>4 DEF OfAuth, AddAuthContext
  <2> QED
    BY <1>1, <2>1
<1>5. CASE KeyLogins(j) = {}
  <2>1. OfAuth(j) = OfHits(j)
    BY <1>5 DEF OfAuth, AddAuthContext
  <2>2. /\ Leaves(OfHits(i), OfAuth(i), {"logins", "ips"}) /\ OfHits(i).f \subseteq OfAuth(i).f
    BY Shapes, AuthWrites DEF OfAuth
  <2> QED
    BY <1>1, <2>1, <2>2 DEF Weaker, Leaves, Fields
<1>6. CASE ~(i.timeline = <<>> \/ KeyLogins(i) = {}) /\ KeyLogins(j) = KeyLogins(i)
  <2> DEFINE found == {"ssh_key_login_observed", "public_key_authentication_observed",
                       "public_key_login_to_execution_observed"}
  <2>1. /\ OfAuth(j).e.logins = KeyLogins(i) /\ OfAuth(i).e.logins = KeyLogins(i)
        /\ OfAuth(j).e.ips = OfAuth(i).e.ips
        /\ OfAuth(j).f = OfHits(j).f \cup found /\ OfAuth(i).f = OfHits(i).f \cup found
    <3>1. DOMAIN OfHits(j).e = Fields /\ DOMAIN OfHits(i).e = Fields
      BY Shapes DEF Shaped
    <3> QED
      BY <1>3, <1>6, <3>1 DEF OfAuth, AddAuthContext, Fields
  <2>2. /\ Leaves(OfHits(i), OfAuth(i), {"logins", "ips"})
        /\ Leaves(OfHits(j), OfAuth(j), {"logins", "ips"})
    BY Shapes, AuthWrites DEF OfAuth
  <2> HIDE DEF found
  <2>3. OfAuth(j).f \subseteq OfAuth(i).f
    BY <1>1, <2>1 DEF Weaker
  <2> QED
    BY <1>1, <2>1, <2>2, <2>3 DEF Weaker, Leaves, Fields
<1> QED
  BY <1>2, <1>4, <1>5, <1>6

\* The process context is that of all the sources, or there is none.
LEMMA LessContext ==
  ASSUME NEW i, NEW j, Lesser(j, i)
  PROVE  /\ \/ OfAuth(j).e.before = OfAuth(i).e.before /\ OfAuth(j).e.after = OfAuth(i).e.after
            \/ OfAuth(j).e.before = {} /\ OfAuth(j).e.after = {}
         /\ OfAuth(j).e.payload = OfAuth(i).e.payload
         /\ OfAuth(j).e.executed = OfAuth(i).e.executed
<1>1. OfBase(j) = OfBase(i)
  BY DEF OfBase, BaseEvidence, BaseFeatures, Lesser
<1>2. CASE j.process = i.process
  <2>1. RelatedProcess(j) = RelatedProcess(i)
    BY <1>2 DEF RelatedProcess, Related, Lesser
  <2>2. OfProcess(j) = OfProcess(i)
    BY <1>1, <2>1 DEF OfProcess, AddProcessContext, Lesser
  <2> QED
    BY <1>1, <2>2, ContextKept
<1>3. CASE j.process = {}
  <2>1. OfAuth(j).e.before = {} /\ OfAuth(j).e.after = {}
    BY <1>3, ContextRecorded
  <2> QED
    BY <1>1, <2>1, ContextKept
<1> QED
  BY <1>2, <1>3 DEF Lesser

LEMMA LessNetwork ==
  ASSUME NEW i, NEW j, Lesser(j, i)
  PROVE  Weaker(OfZeek(j), OfZeek(i))
<1>1. Weaker(OfPromotion(j), OfPromotion(i))
  <2>1. /\ Leaves(OfAuth(j), OfPromotion(j), {"urls", "saved", "ran", "payload", "executed"})
        /\ OfPromotion(j).f = OfAuth(j).f
        /\ OfPromotion(j).e.urls = OfAuth(j).e.urls \cup Targets(OfAuth(j).e.before \cup OfAuth(j).e.after)
        /\ OfPromotion(j).e.saved = OfAuth(j).e.saved \cup SavedTo(OfAuth(j).e.before \cup OfAuth(j).e.after)
        /\ OfPromotion(j).e.ran = OfAuth(j).e.ran \cup RunFrom(OfAuth(j).e.before \cup OfAuth(j).e.after)
    BY Shapes, PromoteWrites DEF OfPromotion
  <2>2. /\ Leaves(OfAuth(i), OfPromotion(i), {"urls", "saved", "ran", "payload", "executed"})
        /\ OfPromotion(i).f = OfAuth(i).f
        /\ OfPromotion(i).e.urls = OfAuth(i).e.urls \cup Targets(OfAuth(i).e.before \cup OfAuth(i).e.after)
        /\ OfPromotion(i).e.saved = OfAuth(i).e.saved \cup SavedTo(OfAuth(i).e.before \cup OfAuth(i).e.after)
        /\ OfPromotion(i).e.ran = OfAuth(i).e.ran \cup RunFrom(OfAuth(i).e.before \cup OfAuth(i).e.after)
    BY Shapes, PromoteWrites DEF OfPromotion
  <2>3. /\ OfAuth(j).f \subseteq OfAuth(i).f
        /\ OfAuth(j).e.urls \subseteq OfAuth(i).e.urls /\ OfAuth(j).e.saved \subseteq OfAuth(i).e.saved
        /\ OfAuth(j).e.ran \subseteq OfAuth(i).e.ran
        /\ OfAuth(j).e.before \cup OfAuth(j).e.after \subseteq OfAuth(i).e.before \cup OfAuth(i).e.after
    BY LessLogins DEF Weaker, Fields
  <2>4. \A S, T : S \subseteq T => /\ Targets(S) \subseteq Targets(T)
                                   /\ SavedTo(S) \subseteq SavedTo(T) /\ RunFrom(S) \subseteq RunFrom(T)
    BY DEF Targets, SavedTo, RunFrom
  <2>5. /\ OfPromotion(j).f \subseteq OfPromotion(i).f
        /\ OfPromotion(j).e.urls \subseteq OfPromotion(i).e.urls
        /\ OfPromotion(j).e.saved \subseteq OfPromotion(i).e.saved
        /\ OfPromotion(j).e.ran \subseteq OfPromotion(i).e.ran
    <3> DEFINE cj == OfAuth(j).e.before \cup OfAuth(j).e.after
               ci == OfAuth(i).e.before \cup OfAuth(i).e.after
    <3>1. /\ Targets(cj) \subseteq Targets(ci) /\ SavedTo(cj) \subseteq SavedTo(ci)
          /\ RunFrom(cj) \subseteq RunFrom(ci)
      BY <2>3, <2>4
    <3> HIDE DEF cj, ci
    <3> QED
      BY <2>1, <2>2, <2>3, <3>1 DEF cj, ci
  <2>6. /\ OfPromotion(j).e.payload \subseteq OfPromotion(i).e.payload
        /\ OfPromotion(j).e.executed \subseteq OfPromotion(i).e.executed
    <3> DEFINE saving(k) == Either(FirstSaving(OfAuth(k).e.before), FirstSaving(OfAuth(k).e.after))
               running(k) == Either(FirstRunning(OfAuth(k).e.before), FirstRunning(OfAuth(k).e.after))
    <3>1. \A k : /\ OfPromotion(k).e.payload = Either(OfAuth(k).e.payload, saving(k))
                 /\ OfPromotion(k).e.executed = Either(OfAuth(k).e.executed, running(k))
      BY Shapes, PromoteWrites DEF OfPromotion
    <3>2. FirstSaving({}) = {} /\ FirstRunning({}) = {}
      BY DEF FirstSaving, FirstRunning, Earliest, SavedTo, RunFrom
    <3>3. saving(j) \in {{}, saving(i)} /\ running(j) \in {{}, running(i)}
      BY <3>2, LessContext DEF Either
    <3> HIDE DEF saving, running
    <3> QED
      BY <3>1, <3>3, LessContext DEF Either
  <2> QED
    BY <2>1, <2>2, <2>5, <2>6, LessLogins DEF Weaker, Leaves, Fields
<1> DEFINE net(k) == UNION {g.net : g \in Relevant(k.zeek, OfPromotion(k).e.urls)}
           web(k) == \E g \in Relevant(k.zeek, OfPromotion(k).e.urls) : g.http
<1>2. \A k : /\ OfZeek(k).e.network = net(k) /\ OfZeek(k).e.http = web(k)
             /\ OfZeek(k).f = OfPromotion(k).f \cup Where("network_context_observed", net(k) # {})
                                \cup Where("http_context_observed", web(k))
             /\ Leaves(OfPromotion(k), OfZeek(k), {"network", "http"})
  <2>1. SUFFICES ASSUME NEW k
                 PROVE  /\ OfZeek(k).e.network = net(k) /\ OfZeek(k).e.http = web(k)
                        /\ OfZeek(k).f = OfPromotion(k).f \cup Where("network_context_observed", net(k) # {})
                                           \cup Where("http_context_observed", web(k))
                        /\ Leaves(OfPromotion(k), OfZeek(k), {"network", "http"})
    OBVIOUS
  <2>2. DOMAIN OfPromotion(k).e = Fields
    BY Shapes DEF Shaped
  <2>3. Leaves(OfPromotion(k), OfZeek(k), {"network", "http"})
    BY Shapes, ZeekWrites DEF OfZeek
  <2> QED
    BY <2>2, <2>3 DEF OfZeek, AddZeek, Fields
<1>3. Relevant(j.zeek, OfPromotion(j).e.urls) \subseteq Relevant(i.zeek, OfPromotion(i).e.urls)
  <2>1. j.zeek \subseteq i.zeek
    BY DEF Lesser
  <2>2. OfPromotion(j).e.urls \subseteq OfPromotion(i).e.urls
    BY <1>1 DEF Weaker, Fields
  <2> QED
    BY <2>1, <2>2 DEF Relevant
<1>4. net(j) \subseteq net(i) /\ (web(j) => web(i))
  BY <1>3
<1> HIDE DEF net, web
<1>5. OfZeek(j).f \subseteq OfZeek(i).f
  BY <1>1, <1>2, <1>4 DEF Weaker, Where
<1> QED
  BY <1>1, <1>2, <1>4, <1>5 DEF Weaker, Leaves, Fields

LEMMA LessPatch ==
  ASSUME NEW q, NEW r, Shaped(q), Shaped(r), Weaker(q, r), NEW p, NEW o,
         DOMAIN p.e = DOMAIN o.e, DOMAIN p.e \cap {"rules", "http"} = {},
         \A k \in DOMAIN p.e : p.e[k] \subseteq o.e[k], p.f \subseteq o.f
  PROVE  Weaker(MergePatch(q, p), MergePatch(r, o))
<1>1. /\ Leaves(q, MergePatch(q, p), DOMAIN p.e) /\ Leaves(r, MergePatch(r, o), DOMAIN p.e)
      /\ MergePatch(q, p).f = q.f \cup p.f /\ MergePatch(r, o).f = r.f \cup o.f
      /\ \A k \in Fields \cap DOMAIN p.e : /\ MergePatch(q, p).e[k] = q.e[k] \cup p.e[k]
                                           /\ MergePatch(r, o).e[k] = r.e[k] \cup o.e[k]
  BY PatchWrites
<1> HIDE DEF MergePatch
<1>2. \A k \in Fields \ {"rules", "http"} : MergePatch(q, p).e[k] \subseteq MergePatch(r, o).e[k]
  <2>1. SUFFICES ASSUME NEW k \in Fields \ {"rules", "http"}
                 PROVE  MergePatch(q, p).e[k] \subseteq MergePatch(r, o).e[k]
    OBVIOUS
  <2>2. q.e[k] \subseteq r.e[k]
    BY DEF Weaker
  <2>3. CASE k \in DOMAIN p.e
    <3>1. p.e[k] \subseteq o.e[k]
      BY <2>3
    <3> QED
      BY <1>1, <2>2, <2>3, <3>1
  <2>4. CASE k \notin DOMAIN p.e
    BY <1>1, <2>2, <2>4 DEF Leaves
  <2> QED
    BY <2>3, <2>4
<1>3. /\ MergePatch(q, p).e.rules = q.e.rules /\ MergePatch(r, o).e.rules = r.e.rules
      /\ MergePatch(q, p).e.http = q.e.http /\ MergePatch(r, o).e.http = r.e.http
  BY <1>1 DEF Leaves, Fields
<1>4. MergePatch(q, p).f \subseteq MergePatch(r, o).f
  BY <1>1 DEF Weaker
<1> QED
  BY <1>2, <1>3, <1>4 DEF Weaker

LEMMA LessAuthPatch ==
  ASSUME NEW i, NEW j, Lesser(j, i)
  PROVE  Weaker(OfAuthPatch(j), OfAuthPatch(i))
<1> DEFINE p == AuthPatch(j, OfZeek(j))
           o == AuthPatch(i, OfZeek(i))
           failures(k) == AuthBetween(k, {"ssh_failed_login", "ssh_auth_failure"}, k.start - 600, k.end)
           successes(k) == AuthBetween(k, {"ssh_success_login"}, k.start - 180, k.end + 180)
           keys(k) == AuthBetween(k, {"ssh_publickey_login"}, k.start - 180, k.end + 180)
<1>1. OfZeek(j).e.urls \subseteq OfZeek(i).e.urls
  BY LessNetwork DEF Weaker, Fields
<1>2. /\ p = PatchOf(failures(j), successes(j), keys(j), OfZeek(j))
      /\ o = PatchOf(failures(i), successes(i), keys(i), OfZeek(i))
  BY AuthPatchOf
<1>3. \/ failures(j) = {} /\ successes(j) = {} /\ keys(j) = {}
      \/ failures(j) = failures(i) /\ successes(j) = successes(i) /\ keys(j) = keys(i)
  <2>1. CASE j.auth = {}
    BY <2>1 DEF AuthBetween
  <2>2. CASE j.auth = i.auth
    <3>1. \A a : Related(a, j) <=> Related(a, i)
      BY DEF Related, Lesser
    <3>2. \A types, lo, hi : AuthBetween(j, types, lo, hi) = AuthBetween(i, types, lo, hi)
      BY <2>2, <3>1 DEF AuthBetween
    <3> QED
      BY <3>2 DEF Lesser
  <2> QED
    BY <2>1, <2>2 DEF Lesser
<1> HIDE DEF failures, successes, keys
<1>4. /\ \A k \in {"failures", "successes", "ips"} : p.e[k] \subseteq o.e[k]
      /\ p.f \subseteq o.f
  <2>1. CASE failures(j) = {} /\ successes(j) = {} /\ keys(j) = {}
    <3>1. p = PatchOf({}, {}, {}, OfZeek(j))
      BY <1>2, <2>1
    <3>2. p.e.failures = {} /\ p.e.successes = {} /\ p.e.ips = {} /\ p.f = {}
      BY <3>1 DEF PatchOf, Known, Where
    <3> HIDE DEF p
    <3> QED
      BY <3>2
  <2>2. CASE failures(j) = failures(i) /\ successes(j) = successes(i) /\ keys(j) = keys(i)
    <3> DEFINE ips == Known({a.src : a \in failures(i) \cup successes(i) \cup keys(i)})
               hosts(k) == {u.host : u \in OfZeek(k).e.urls}
               follows == successes(i) # {}
                            /\ \E a \in failures(i) : a.at <= Min({s.at : s \in successes(i)})
               sure == Where("auth_bruteforce_observed", failures(i) # {})
                         \cup Where("auth_success_after_failures_observed", follows)
    <3>1. p = PatchOf(failures(i), successes(i), keys(i), OfZeek(j))
      BY <1>2, <2>2
    <3>2. \A k : LET made == PatchOf(failures(i), successes(i), keys(i), OfZeek(k))
                IN /\ made.e = [failures |-> failures(i), successes |-> successes(i), ips |-> ips]
                   /\ made.f = sure \cup Where("same_source_ip_auth_and_payload_observed",
                                              ips \cap hosts(k) # {})
      BY DEF PatchOf
    <3>3. hosts(j) \subseteq hosts(i)
      BY <1>1
    <3> HIDE DEF p, o, ips, hosts, sure
    <3>4. /\ p.e = o.e
          /\ p.f = sure \cup Where("same_source_ip_auth_and_payload_observed", ips \cap hosts(j) # {})
          /\ o.f = sure \cup Where("same_source_ip_auth_and_payload_observed", ips \cap hosts(i) # {})
      BY <1>2, <2>2, <3>1, <3>2
    <3> QED
      BY <3>3, <3>4 DEF Where
  <2> QED
    BY <1>3, <2>1, <2>2
<1>5. DOMAIN p.e = {"failures", "successes", "ips"} /\ DOMAIN o.e = {"failures", "successes", "ips"}
  BY PatchDomains
<1>6. Shaped(OfZeek(j)) /\ Shaped(OfZeek(i)) /\ Weaker(OfZeek(j), OfZeek(i))
  BY Shapes, LessNetwork
<1> HIDE DEF p, o
<1>7. Weaker(MergePatch(OfZeek(j), p), MergePatch(OfZeek(i), o))
  BY <1>4, <1>5, <1>6, LessPatch
<1> QED
  BY <1>7 DEF OfAuthPatch, p, o

FimPatchOf(i) == WazuhPatch(i.fim, i, FALSE)
SudoPatchOf(i) == WazuhPatch(i.sudo, i, TRUE)

LEMMA LessWazuhPatch ==
  ASSUME NEW i, NEW j, Lesser(j, i), NEW q, NEW r, Shaped(q), Shaped(r), Weaker(q, r)
  PROVE  /\ Weaker(MergePatch(q, FimPatchOf(j)), MergePatch(r, FimPatchOf(i)))
         /\ Weaker(MergePatch(q, SudoPatchOf(j)), MergePatch(r, SudoPatchOf(i)))
<1>1. Weaker(MergePatch(q, FimPatchOf(j)), MergePatch(r, FimPatchOf(i)))
  <2> DEFINE p == FimPatchOf(j)
             o == FimPatchOf(i)
  <2>1. (\A k \in {"fim", "sudo"} : p.e[k] \subseteq o.e[k]) /\ p.f \subseteq o.f
    <3>1. CASE j.fim = {}
      <4>1. Matching(j.fim, j, FALSE) = {}
        BY <3>1 DEF Matching
      <4>2. p.e.fim = {} /\ p.e.sudo = {} /\ p.f = {}
        BY <4>1 DEF FimPatchOf, WazuhPatch, Where
      <4> HIDE DEF p
      <4> QED
        BY <4>2
    <3>2. CASE j.fim = i.fim
      <4>1. Matching(j.fim, j, FALSE) = Matching(i.fim, i, FALSE)
        BY <3>2 DEF Matching, Lesser
      <4>2. p = o
        BY <4>1 DEF FimPatchOf, WazuhPatch
      <4> QED
        BY <4>2
    <3> QED
      BY <3>1, <3>2 DEF Lesser
  <2>2. DOMAIN p.e = {"fim", "sudo"} /\ DOMAIN o.e = {"fim", "sudo"}
    BY PatchDomains DEF FimPatchOf
  <2> HIDE DEF p, o
  <2>3. Weaker(MergePatch(q, p), MergePatch(r, o))
    BY <2>1, <2>2, LessPatch
  <2> QED
    BY <2>3 DEF p, o
<1>2. Weaker(MergePatch(q, SudoPatchOf(j)), MergePatch(r, SudoPatchOf(i)))
  <2> DEFINE p == SudoPatchOf(j)
             o == SudoPatchOf(i)
  <2>1. (\A k \in {"fim", "sudo"} : p.e[k] \subseteq o.e[k]) /\ p.f \subseteq o.f
    <3>1. CASE j.sudo = {}
      <4>1. Matching(j.sudo, j, TRUE) = {}
        BY <3>1 DEF Matching
      <4>2. p.e.fim = {} /\ p.e.sudo = {} /\ p.f = {}
        BY <4>1 DEF SudoPatchOf, WazuhPatch, Where
      <4> HIDE DEF p
      <4> QED
        BY <4>2
    <3>2. CASE j.sudo = i.sudo
      <4>1. Matching(j.sudo, j, TRUE) = Matching(i.sudo, i, TRUE)
        BY <3>2 DEF Matching, Lesser
      <4>2. p = o
        BY <4>1 DEF SudoPatchOf, WazuhPatch
      <4> QED
        BY <4>2
    <3> QED
      BY <3>1, <3>2 DEF Lesser
  <2>2. DOMAIN p.e = {"fim", "sudo"} /\ DOMAIN o.e = {"fim", "sudo"}
    BY PatchDomains DEF SudoPatchOf
  <2> HIDE DEF p, o
  <2>3. Weaker(MergePatch(q, p), MergePatch(r, o))
    BY <2>1, <2>2, LessPatch
  <2> QED
    BY <2>3 DEF p, o
<1> QED
  BY <1>1, <1>2

\* Less evidence leaves less, at the end of all enrichers.
LEMMA LessStands ==
  ASSUME NEW i, NEW j, Lesser(j, i)
  PROVE  Weaker(OfSudoPatch(j), OfSudoPatch(i))
<1>1. /\ Shaped(OfAuthPatch(j)) /\ Shaped(OfAuthPatch(i)) /\ Weaker(OfAuthPatch(j), OfAuthPatch(i))
      /\ Shaped(OfFimPatch(j)) /\ Shaped(OfFimPatch(i))
  BY Shapes, LessAuthPatch
<1>2. \A k : /\ OfFimPatch(k) = MergePatch(OfAuthPatch(k), FimPatchOf(k))
             /\ OfSudoPatch(k) = MergePatch(OfFimPatch(k), SudoPatchOf(k))
  BY DEF OfFimPatch, OfSudoPatch, FimPatchOf, SudoPatchOf
<1>3. Weaker(MergePatch(OfAuthPatch(j), FimPatchOf(j)), MergePatch(OfAuthPatch(i), FimPatchOf(i)))
  BY <1>1, LessWazuhPatch
<1>4. Weaker(OfFimPatch(j), OfFimPatch(i))
  BY <1>2, <1>3
<1>5. Weaker(MergePatch(OfFimPatch(j), SudoPatchOf(j)), MergePatch(OfFimPatch(i), SudoPatchOf(i)))
  BY <1>1, <1>4, LessWazuhPatch
<1> QED
  BY <1>2, <1>5

-----------------------------------------------------------------------------
(* What the report says of less. *)

LEMMA LessChain ==
  ASSUME NEW q, NEW r, Weaker(q, r), ChainState(q).full
  PROVE  ChainState(r).full
<1> DEFINE endpointChain(x) ==
             /\ "endpoint_url_fetch_observed" \in x.f
             /\ "endpoint_chmod_execute_chain_observed" \in x.f
             /\ {"endpoint_download_then_execute_pattern",
                 "endpoint_chmod_execute_chain_observed"} \cap x.f # {}
             /\ OrderedSamePathChain(x.e.endpoint)
           full(x) == \/ x.e.rules \/ endpointChain(x)
                      \/ OrderedSamePathChain(x.e.downloads \cup x.e.chmods \cup x.e.executions)
<1>1. ChainState(q).full = full(q) /\ ChainState(r).full = full(r)
  BY DEF ChainState
<1>2. /\ q.f \subseteq r.f /\ q.e.endpoint \subseteq r.e.endpoint /\ (q.e.rules => r.e.rules)
      /\ q.e.downloads \cup q.e.chmods \cup q.e.executions
           \subseteq r.e.downloads \cup r.e.chmods \cup r.e.executions
  BY DEF Weaker, Fields
<1>3. endpointChain(q) => endpointChain(r)
  BY <1>2, ChainMonotone
<1>4. OrderedSamePathChain(q.e.downloads \cup q.e.chmods \cup q.e.executions)
        => OrderedSamePathChain(r.e.downloads \cup r.e.chmods \cup r.e.executions)
  BY <1>2, ChainMonotone
<1> HIDE DEF endpointChain
<1> QED
  BY <1>1, <1>2, <1>3, <1>4

LEMMA LessLevel ==
  ASSUME NEW q, NEW r, Weaker(q, r)
  PROVE  Level(q) <= Level(r)
<1> DEFINE counts(x, n) ==
             CASE n = 1 -> x.e.downloads # {} \/ x.e.urls # {}
               [] n = 2 -> x.e.chmods # {}
               [] n = 3 -> x.e.executions # {} \/ x.e.ran # {}
               [] n = 4 -> x.e.rules
               [] n = 5 -> "execution_chain_confirmed_by_process_events" \in x.f
               [] n = 6 -> x.e.network # {} \/ x.e.http
               [] n = 7 -> AfterLogin(x)
               [] OTHER -> x.e.archive # {}
           points(x) == {n \in 1..8 : counts(x, n)}
<1>1. /\ q.f \subseteq r.f /\ (q.e.rules => r.e.rules) /\ (q.e.http => r.e.http)
      /\ q.e.downloads \subseteq r.e.downloads /\ q.e.urls \subseteq r.e.urls
      /\ q.e.chmods \subseteq r.e.chmods /\ q.e.executions \subseteq r.e.executions
      /\ q.e.ran \subseteq r.e.ran /\ q.e.network \subseteq r.e.network
      /\ q.e.archive \subseteq r.e.archive
  BY DEF Weaker, Fields
<1>2. \A n \in 1..8 : counts(q, n) => counts(r, n)
  BY <1>1 DEF AfterLogin
<1>3. Points(q) = Cardinality(points(q)) /\ Points(r) = Cardinality(points(r))
  BY DEF Points
<1> HIDE DEF counts
<1>4. points(q) \subseteq points(r) /\ points(r) \subseteq 1..8
  <2> DEFINE D == 1..8
  <2>1. \A n \in D : counts(q, n) => counts(r, n)
    BY <1>2
  <2> HIDE DEF D
  <2>2. {n \in D : counts(q, n)} \subseteq {n \in D : counts(r, n)}
    BY <2>1, Zenon
  <2>3. {n \in D : counts(r, n)} \subseteq D
    BY Zenon
  <2> QED
    BY <2>2, <2>3 DEF D
<1>5. IsFiniteSet(1..8)
  <2>1. \A a, b \in Int : IsFiniteSet(a..b)
    BY FS_Interval
  <2>2. 1 \in Int /\ 8 \in Int
    OBVIOUS
  <2> QED
    BY <2>1, <2>2, Zenon
<1>6. IsFiniteSet(points(r))
  BY <1>4, <1>5, FS_Subset
<1>7. /\ IsFiniteSet(points(q)) /\ Cardinality(points(q)) <= Cardinality(points(r))
  BY <1>4, <1>6, FS_Subset
<1>8. Points(q) \in Nat /\ Points(r) \in Nat /\ Points(q) <= Points(r)
  BY <1>3, <1>6, <1>7, FS_CardinalityType
<1> QED
  BY <1>8 DEF Level

LEMMA LessFacts ==
  ASSUME NEW q, NEW r, Weaker(q, r)
  PROVE  Facts(q) \subseteq Facts(r)
<1>1. /\ q.e.urls \subseteq r.e.urls /\ q.e.payload \subseteq r.e.payload
      /\ q.e.chmods \subseteq r.e.chmods /\ q.e.executed \subseteq r.e.executed
      /\ q.e.ips \subseteq r.e.ips /\ q.e.children \subseteq r.e.children
      /\ q.e.endpoint \subseteq r.e.endpoint /\ q.e.auditd \subseteq r.e.auditd
  BY DEF Weaker, Fields
<1>2. \A S, T : S \subseteq T => AuditdFacts(S) \subseteq AuditdFacts(T)
  BY DEF AuditdFacts
<1>3. \A S, T : S \subseteq T => EndpointFacts(S) \subseteq EndpointFacts(T)
  BY DEF EndpointFacts
<1>4. /\ AuditdFacts(q.e.auditd) \subseteq AuditdFacts(r.e.auditd)
      /\ EndpointFacts(q.e.endpoint) \subseteq EndpointFacts(r.e.endpoint)
  BY <1>1, <1>2, <1>3
<1> QED
  BY <1>1, <1>4 DEF Facts

LEMMA LessUnsupported ==
  ASSUME NEW i, NEW j, j.archive = i.archive, NEW q, NEW r, Weaker(q, r)
  PROVE  UnsupportedClaims(i, r) \subseteq UnsupportedClaims(j, q)
<1>1. /\ q.f \subseteq r.f /\ q.e.network \subseteq r.e.network /\ (q.e.http => r.e.http)
      /\ q.e.fim \subseteq r.e.fim
  BY DEF Weaker, Fields
<1>2. /\ r.e.network = {} /\ ~r.e.http => q.e.network = {} /\ ~q.e.http
      /\ AfterLogin(q) => AfterLogin(r)
      /\ UsesGenericNarrative(i, r) => UsesGenericNarrative(j, q)
      /\ ChainState(q).full => ChainState(r).full
  BY <1>1, LessChain DEF AfterLogin, UsesGenericNarrative
<1> HIDE DEF AfterLogin, UsesGenericNarrative
<1> QED
  BY <1>2 DEF UnsupportedClaims, Where

LEMMA WithoutIsLesser ==
  ASSUME NEW i \in Inputs, NEW s \in SourceNames
  PROVE  Lesser(Without(i, s), i)
<1>1. DOMAIN i = SourceNames \cup {"timeline", "given", "correlated", "refs", "foreignRefs",
                                   "hits", "archive", "host", "user", "start", "end"}
  BY InvestigationAssumption
<1>2. CASE s = "endpoint"
  <2>1. Without(i, s) = [i EXCEPT !.endpoint = <<>>, !.given = FALSE]
    BY <1>2 DEF Without
  <2> QED
    BY <1>1, <2>1 DEF Lesser, SourceNames
<1>3. CASE s # "endpoint"
  <2>1. Without(i, s) = [i EXCEPT ![s] = {}]
    BY <1>3 DEF Without
  <2>2. \A k \in DOMAIN i : Without(i, s)[k] = IF k = s THEN {} ELSE i[k]
    BY <2>1
  <2> HIDE DEF Without
  <2>3. /\ Without(i, s).endpoint = i.endpoint /\ Without(i, s).given = i.given
        /\ Without(i, s).refs = i.refs /\ Without(i, s).foreignRefs = i.foreignRefs
    BY <1>1, <1>3, <2>2, Z3 DEF SourceNames
  <2>4. \A k \in DOMAIN i : Without(i, s)[k] \in {{}, i[k]}
    BY <2>2
  <2>5. \A k \in DOMAIN i \ SourceNames : Without(i, s)[k] = i[k]
    BY <2>2
  <2>6. /\ Without(i, s).process \in {{}, i.process}
        /\ Without(i, s).auditd \in {{}, i.auditd} /\ Without(i, s).auth \in {{}, i.auth}
        /\ Without(i, s).zeek \in {{}, i.zeek}
        /\ Without(i, s).fim \in {{}, i.fim} /\ Without(i, s).sudo \in {{}, i.sudo}
    BY <1>1, <2>4 DEF SourceNames
  <2>7. /\ Without(i, s).timeline = i.timeline /\ Without(i, s).correlated = i.correlated
        /\ Without(i, s).hits = i.hits /\ Without(i, s).archive = i.archive
        /\ Without(i, s).host = i.host /\ Without(i, s).user = i.user
        /\ Without(i, s).start = i.start /\ Without(i, s).end = i.end
    BY <1>1, <2>5 DEF SourceNames
  <2> QED
    BY <2>3, <2>6, <2>7 DEF Lesser
<1> QED
  BY <1>2, <1>3

\* Evidence is monotone in its sources: whichever source is taken away, the level
\* is no higher, no feature or fact is new and no unsupported claim disappears.
THEOREM LessEvidenceNeverClaimsMore == EvidenceSpec => []LessEvidenceClaimsLess
<1>1. ASSUME EvidenceInv PROVE LessEvidenceClaimsLess
  <2>1. SUFFICES ASSUME stage = "done", NEW s \in SourceNames
                 PROVE  LET less == Outcome(Without(input, s))
                        IN /\ less.level <= report.level
                           /\ less.features \subseteq report.features
                           /\ less.facts \subseteq report.facts
                           /\ report.claims \subseteq less.claims
    BY DEF LessEvidenceClaimsLess
  <2> DEFINE j == Without(input, s)
             q == OfSudoPatch(j)
             r == OfSudoPatch(input)
  <2>2. input \in Inputs /\ report = ReportOf(input, r)
    BY <1>1, <2>1 DEF EvidenceInv
  <2>3. Outcome(j) = ReportOf(j, q)
    BY OutcomeIs
  <2>4. Lesser(j, input)
    BY <2>2, WithoutIsLesser
  <2> HIDE DEF j
  <2>5. Weaker(q, r) /\ j.archive = input.archive
    BY <2>4, LessStands DEF Lesser
  <2> HIDE DEF q, r
  <2>6. /\ Level(q) <= Level(r) /\ q.f \subseteq r.f /\ Facts(q) \subseteq Facts(r)
        /\ UnsupportedClaims(input, r) \subseteq UnsupportedClaims(j, q)
    BY <2>5, LessLevel, LessFacts, LessUnsupported DEF Weaker
  <2>7. /\ Outcome(j).level = Level(q) /\ report.level = Level(r)
        /\ Outcome(j).features = q.f /\ report.features = r.f
        /\ Outcome(j).facts = Facts(q) /\ report.facts = Facts(r)
        /\ Outcome(j).claims = UnsupportedClaims(j, q)
        /\ report.claims = UnsupportedClaims(input, r)
    BY <2>2, <2>3 DEF ReportOf
  <2>8. /\ Outcome(j).level <= report.level /\ Outcome(j).features \subseteq report.features
        /\ Outcome(j).facts \subseteq report.facts /\ report.claims \subseteq Outcome(j).claims
    BY <2>6, <2>7
  <2> QED
    BY <2>8 DEF j
<1> QED
  BY <1>1, EvidenceInvariant, PTL
=============================================================================
