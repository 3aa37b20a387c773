----------------------- MODULE InvestigationEvidence -----------------------
(***************************************************************************)
(* The evidence of one investigation                                       *)
(* (agents/investigation-agent/src/main.py build_investigation_result and  *)
(* the enrichers of the parser agent it calls): evidence and features grow *)
(* source by source, each enricher reading what the ones before it left,   *)
(* until several independent functions turn them into statements.          *)
(*                                                                         *)
(* A command line is reduced to its form and to the path below /tmp and    *)
(* the URL target in it: "curl" and "fetch" (wget too) save a URL to the   *)
(* path, "wrapped" has an interpreter fetch the URL, "script" has it call  *)
(* curl and chmod too, "chmod" and "run" name the path, "id" is any other  *)
(* command, "none" no command.  Timeline events carry no pid, which is how *)
(* the incident builder makes them.  Instants are seconds.                 *)
(***************************************************************************)
EXTENDS Integers, FiniteSets, Sequences, SequencesExt, FiniteSetsExt

CONSTANTS
  Inputs,          \* the investigations considered
  ContextLimit     \* events kept before and after the execution, 5 in the code

Unknown == "unknown"      \* an absent host, user or path
NoUrl == [host |-> Unknown, port |-> 0]
NoPid == 0
NoTime == -1

Forms == {"curl", "fetch", "wrapped", "script", "chmod", "run", "id", "none"}
SourceNames == {"process", "endpoint", "auditd", "auth", "zeek", "fim", "sudo"}

ASSUME InvestigationAssumption ==
  /\ ContextLimit \in Nat \ {0}
  /\ \A i \in Inputs :
       /\ DOMAIN i = SourceNames \cup {"timeline", "given", "correlated", "refs", "foreignRefs",
                                       "hits", "archive", "host", "user", "start", "end"}
       /\ i.endpoint \in Seq(Range(i.endpoint)) /\ i.refs \in Seq(Nat \ {0})
       /\ i.given \in BOOLEAN /\ (~i.given => i.endpoint = <<>>)   \* is there such a file
       /\ \A e \in Range(i.timeline) \cup i.process \cup Range(i.endpoint) :
            e.form \in Forms /\ e.at \in Nat \cup {NoTime}
       /\ i.start \in Nat /\ i.end \in Nat /\ i.start <= i.end

VARIABLES
  input,       \* the incident and its optional sources
  stage,       \* the enricher that runs next
  evidence,    \* evidence, lists without their order
  features,    \* the enriched_features that are true
  report       \* what the result states

vars == <<input, stage, evidence, features, report>>

-----------------------------------------------------------------------------
(* Commands *)

Downloads(e) == e.form \in {"curl", "fetch", "wrapped", "script"}
IsChmod(e) == e.form = "chmod"
Executes(e) == e.form \in {"run", "wrapped", "script"}
Known(S) == S \ {Unknown}
\* extract_local_download_paths: only curl, wget or fetch themselves have one
LocalPaths(e) == IF e.form \in {"curl", "fetch"} THEN Known({e.path}) ELSE {}
TmpPaths(e) == IF e.form \in Forms \ {"none"} THEN Known({e.path}) ELSE {}
\* payload_paths and execution_paths of build_base_evidence
SavedTo(S) == UNION {LocalPaths(e) : e \in S}
RunFrom(S) == UNION {TmpPaths(e) : e \in {x \in S : Executes(x) /\ ~Downloads(x)}}
Targets(S) == {e.url : e \in {x \in S : Downloads(x)}}

Agrees(value, wanted) == Unknown \in {value, wanted} \/ value = wanted

\* A mistake: only the host is compared.
RelatedByHost(e, i) == Agrees(e.host, i.host)

\* filter_related_events
Related(e, i) == Agrees(e.host, i.host) /\ Agrees(e.user, i.user)

\* select_execution_anchor: the last execution, else the last event that names
\* a path, else the last event
ExecutionAnchor(timeline) ==
  LET last(S) == timeline[Max(S)]
      runs == {n \in DOMAIN timeline : Executes(timeline[n])}
      paths == {n \in DOMAIN timeline : TmpPaths(timeline[n]) # {}}
  IN CASE runs # {} -> last(runs)
       [] runs = {} /\ paths # {} -> last(paths)
       [] OTHER -> last(DOMAIN timeline)

\* ordered_same_path_chain
OrderedSamePathChain(S) ==
  LET timed == {e \in S : e.at # NoTime}
  IN \E d, c, x \in timed :
       /\ IsChmod(c) /\ Executes(x) /\ ~Downloads(x)
       /\ LocalPaths(d) \cap TmpPaths(c) \cap TmpPaths(x) # {}
       /\ d.at < c.at /\ c.at < x.at

-----------------------------------------------------------------------------
(* bind_endpoint_events_to_incident *)

Binds(i) == i.given /\ i.correlated /\ i.refs # <<>>
Refused(i) ==
  /\ Binds(i)
  /\ i.foreignRefs \/ \E n \in Range(i.refs) : n > Len(i.endpoint)

\* A mistake: the references are not looked at.
BindNothing(i) == Range(i.endpoint)

Bound(i) == IF Binds(i) THEN {i.endpoint[n] : n \in Range(i.refs)} ELSE Range(i.endpoint)

\* The first event of a timeline at one of the places.
FirstAt(timeline, places) == IF places = {} THEN {} ELSE {timeline[Min(places)]}

\* build_base_evidence
BaseEvidence(i) ==
  LET t == Range(i.timeline)
      saving == {n \in DOMAIN i.timeline : SavedTo({i.timeline[n]}) # {}}
      running == {n \in DOMAIN i.timeline : RunFrom({i.timeline[n]}) # {}}
  IN [urls |-> Targets(t), saved |-> SavedTo(t), ran |-> RunFrom(t),
      payload |-> SavedTo(FirstAt(i.timeline, saving)),
      executed |-> RunFrom(FirstAt(i.timeline, running)),
      downloads |-> {e \in t : Downloads(e)}, chmods |-> {e \in t : IsChmod(e)},
      executions |-> {e \in t : Executes(e)},
      before |-> {}, after |-> {}, children |-> {}, descendants |-> {},
      auditd |-> {}, endpoint |-> {}, archive |-> {}, rules |-> FALSE, logins |-> {},
      network |-> {}, http |-> FALSE, ips |-> {}, failures |-> {}, successes |-> {},
      fim |-> {}, sudo |-> {}]

Where(name, holds) == IF holds THEN {name} ELSE {}

BaseFeatures(i) ==
  LET b == BaseEvidence(i)
  IN Where("payload_path_confirmed", b.saved # {})
       \cup Where("multiple_download_targets_observed", Cardinality(b.downloads) >= 2)
       \cup Where("port_change_observed", Cardinality({u.port : u \in b.urls}) >= 2)
       \cup Where("same_host_and_user_context_confirmed", Unknown \notin {i.host, i.user})

-----------------------------------------------------------------------------
(* add_process_context *)

Sooner(a, b) == a.at < b.at \/ (a.at = b.at /\ a.pid < b.pid)
Abs(n) == IF n < 0 THEN -n ELSE n

\* The score of find_process_event_anchor; the timeline event has no pid.
Score(e, anchor) ==
  LET apart == Abs(e.at - anchor.at)
      timed == e.at # NoTime /\ anchor.at # NoTime
      same == anchor.form # "none" /\ <<e.form, e.path, e.url>> = <<anchor.form, anchor.path, anchor.url>>
  IN (IF same THEN 3 ELSE 0)
       + (CASE timed /\ apart <= 2 -> 3 [] timed /\ apart \in 3..10 -> 2
            [] timed /\ apart \in 11..60 -> 1 [] OTHER -> 0)

\* The best score, the latest of those, the first of those in order.
ProcessAnchors(S, anchor) ==
  LET scored == {e \in S : Score(e, anchor) > 0}
      better(a, b) == \/ Score(a, anchor) > Score(b, anchor)
                      \/ Score(a, anchor) = Score(b, anchor) /\ a.at > b.at
                      \/ Score(a, anchor) = Score(b, anchor) /\ a.at = b.at /\ a.pid < b.pid
  IN {e \in scored : \A o \in scored \ {e} : better(e, o)}

ChildrenOf(S, pids) == {e \in S : e.ppid \in pids \ {NoPid}}
\* The breadth-first walk: two generations, no pid twice.
Descendants(S, pid) ==
  LET first == {e \in ChildrenOf(S, {pid}) : e.pid \notin {NoPid, pid}}
      visited == {pid} \cup {e.pid : e \in first}
  IN first \cup {e \in ChildrenOf(S, {f.pid : f \in first}) : e.pid \notin visited \cup {NoPid}}

LastOf(S, n) == {e \in S : Cardinality({o \in S : Sooner(e, o)}) < n}
FirstOf(S, n) == {e \in S : Cardinality({o \in S : Sooner(o, e)}) < n}

\* event_identity; a timeline event has no pid.
Identity(e) == <<e.at, e.pid, e.ppid, e.form, e.path, e.url>>
Identities(timeline) == {<<e.at, NoPid, NoPid, e.form, e.path, e.url>> : e \in Range(timeline)}

Before(S, x) == {e \in S : e.at # NoTime /\ e.at >= x.at - 120 /\ e.at < x.at}
After(S, x) ==
  {e \in S :
     /\ e.at >= x.at /\ e.at <= x.at + 180 /\ Identity(e) # Identity(x)
     /\ \/ e.at > x.at \/ (x.pid # NoPid /\ e.ppid = x.pid)
        \/ Identity(e) \in {Identity(d) : d \in Descendants(S, x.pid)}}

RelatedProcess(i) == {e \in i.process : Related(e, i)}

AddProcessContext(i, r) ==
  LET related == RelatedProcess(i)
      new == {e \in related : Identity(e) \notin Identities(i.timeline)}
      anchors == IF i.timeline = <<>> THEN {} ELSE ProcessAnchors(related, ExecutionAnchor(i.timeline))
  IN IF anchors = {} THEN r
     ELSE LET x == CHOOSE e \in anchors : TRUE
              before == IF x.at = NoTime THEN {} ELSE LastOf(Before(new, x), ContextLimit)
              after == IF x.at = NoTime THEN {} ELSE FirstOf(new \cap After(related, x), ContextLimit)
              children == {e \in ChildrenOf(related, {x.pid}) : e.form # "none"}
              descendants == {e \in Descendants(related, x.pid) : e.form # "none"}
          IN [e |-> [r.e EXCEPT !.before = before, !.after = after,
                                !.children = children, !.descendants = descendants],
              f |-> r.f \cup {"execution_chain_confirmed_by_process_events"}
                      \cup Where("post_execution_child_process_observed", children # {})
                      \cup Where("descendant_process_observed", descendants # {})
                      \cup Where("pre_execution_context_observed", before # {})
                      \cup Where("post_execution_context_observed", after # {})
                      \cup Where("execution_context_expanded", before \cup after # {})]

-----------------------------------------------------------------------------
(* Endpoint and audit telemetry *)

AddAuditdContext(i, r) == [e |-> [r.e EXCEPT !.auditd = i.auditd], f |-> r.f]

EndpointFeatures(S) ==
  LET run == {e \in S : e.type = "process_exec" /\ e.form # "none"}
      curls == \E e \in run : e.form \in {"curl", "script"}
      chmods == \E e \in run : e.form \in {"chmod", "script"}
      executes == \E e \in run : Executes(e)
      paths == UNION {IF Downloads(e) THEN LocalPaths(e) ELSE TmpPaths(e) : e \in run}
  IN Where("endpoint_command_sequence_observed", run # {})
       \cup Where("endpoint_payload_path_observed", paths # {})
       \cup Where("endpoint_url_fetch_observed", \E e \in run : Downloads(e))
       \cup Where("endpoint_download_then_execute_pattern", curls /\ executes)
       \cup Where("endpoint_chmod_execute_chain_observed", chmods /\ executes)

AddEndpointContext(i, r) ==
  [e |-> [r.e EXCEPT !.endpoint = Bound(i)], f |-> r.f \cup EndpointFeatures(Bound(i))]

\* add_archive_staging_context; {} also stands for "not an archive incident"
AddArchiveContext(i, r) ==
  IF ~i.archive THEN r
  ELSE LET seen == {e \in Bound(i) : e.type \in {"process_exec", "file_write"}
                                     /\ (e.form # "none" \/ e.path # Unknown)}
       IN [e |-> [r.e EXCEPT !.archive = seen],
           f |-> r.f \cup Where("archive_staging_behavior_observed", seen # {})]

-----------------------------------------------------------------------------
(* Detections, logins, network *)

AddChainHits(i, r) ==
  [e |-> [r.e EXCEPT !.rules = i.hits], f |-> r.f \cup Where("process_chain_hit_present", i.hits)]

\* add_auth_execution_context: a key login at most five minutes before the
\* first event of the incident
FirstInstant(i) ==
  LET timed == {n \in DOMAIN i.timeline : i.timeline[n].at # NoTime}
  IN IF timed = {} THEN i.start ELSE i.timeline[Min(timed)].at

KeyLogins(i) ==
  {l \in i.auth : /\ l.type = "ssh_key_login" /\ Related(l, i) /\ l.at # NoTime
                  /\ l.at <= FirstInstant(i) /\ FirstInstant(i) - l.at <= 300}

AddAuthContext(i, r) ==
  LET logins == KeyLogins(i)
  IN IF i.timeline = <<>> \/ logins = {} THEN r
     ELSE [e |-> [r.e EXCEPT !.logins = logins, !.ips = Known({l.src : l \in logins})],
           f |-> r.f \cup {"ssh_key_login_observed", "public_key_authentication_observed",
                           "public_key_login_to_execution_observed"}]

\* The paths of the earliest event that has one.
Earliest(S) == {e \in S : \A o \in S \ {e} : Sooner(e, o)}
FirstSaving(S) == SavedTo(Earliest({e \in S : SavedTo({e}) # {}}))
FirstRunning(S) == RunFrom(Earliest({e \in S : RunFrom({e}) # {}}))
Either(first, second) == IF first # {} THEN first ELSE second

\* A mistake: once there is a context, it replaces what the incident showed.
PromoteOnlyContext(r) ==
  LET context == r.e.before \cup r.e.after
  IN IF context = {} THEN r
     ELSE [e |-> [r.e EXCEPT !.urls = Targets(context), !.saved = SavedTo(context),
                             !.ran = RunFrom(context), !.payload = FirstSaving(context)],
           f |-> r.f]

\* promote_context_into_evidence: a path is stated of the earliest event before the
\* execution that has one, else of the earliest after it, unless one is stated.
Promote(r) ==
  LET context == r.e.before \cup r.e.after
  IN [e |-> [r.e EXCEPT
               !.urls = @ \cup Targets(context), !.saved = @ \cup SavedTo(context),
               !.ran = @ \cup RunFrom(context),
               !.payload = Either(@, Either(FirstSaving(r.e.before), FirstSaving(r.e.after))),
               !.executed = Either(@, Either(FirstRunning(r.e.before), FirstRunning(r.e.after)))],
      f |-> r.f]

\* enrich_with_zeek_enrichment: a group counts as a whole
Relevant(groups, urls) ==
  LET hosts == {u.host : u \in urls}
      ports == {u.port : u \in urls}
  IN {g \in groups : g.http \/ \E n \in g.net : n.host \in hosts \/ n.port \in ports}

AddZeek(i, r) ==
  LET relevant == Relevant(i.zeek, r.e.urls)
      network == UNION {g.net : g \in relevant}
      http == \E g \in relevant : g.http
  IN [e |-> [r.e EXCEPT !.network = network, !.http = http],
      f |-> r.f \cup Where("network_context_observed", network # {})
              \cup Where("http_context_observed", http)]

-----------------------------------------------------------------------------
(* The patches of auth_enricher.py and wazuh_enricher.py, and merge_patch *)

AuthBetween(i, types, lo, hi) ==
  {a \in i.auth : /\ a.type \in types /\ Related(a, i)
                  /\ a.at # NoTime /\ a.at >= lo /\ a.at <= hi}

AuthPatch(i, r) ==
  LET failures == AuthBetween(i, {"ssh_failed_login", "ssh_auth_failure"}, i.start - 600, i.end)
      successes == AuthBetween(i, {"ssh_success_login"}, i.start - 180, i.end + 180)
      keys == AuthBetween(i, {"ssh_publickey_login"}, i.start - 180, i.end + 180)
      ips == Known({a.src : a \in failures \cup successes \cup keys})
      follows == successes # {} /\ \E a \in failures : a.at <= Min({s.at : s \in successes})
  IN [e |-> [failures |-> failures, successes |-> successes, ips |-> ips],
      f |-> Where("auth_bruteforce_observed", failures # {})
              \cup Where("auth_success_after_failures_observed", follows)
              \cup Where("same_source_ip_auth_and_payload_observed",
                         ips \cap {u.host : u \in r.e.urls} # {})]

Persistence == {"authorized_keys", "cron"}
\* The sudo call passes WAZUH_PERSISTENCE_PATHS as candidate_paths.
Matching(alerts, i, candidates) ==
  {a \in alerts : /\ i.host = Unknown \/ a.host = i.host
                  /\ candidates => a.target \in Persistence}

WazuhPatch(alerts, i, candidates) ==
  LET matching == Matching(alerts, i, candidates)
      kind(k) == {a \in matching : a.kind = k /\ a.target # "noise"}
      of(k) == {a.target : a \in kind(k)} \cap Persistence
  IN [e |-> [fim |-> {a.target : a \in kind("syscheck")}, sudo |-> {a.target : a \in kind("sudo")}],
      f |-> Where("wazuh_context_observed", matching # {})
              \cup Where("fim_context_observed", kind("syscheck") # {})
              \cup Where("sudo_context_observed", kind("sudo") # {})
              \cup Where("persistence_related_file_change_observed", of("syscheck") # {})
              \cup Where("persistence_related_sudo_observed", of("sudo") # {})]

PatchFeatures ==
  {"auth_bruteforce_observed", "auth_success_after_failures_observed",
   "same_source_ip_auth_and_payload_observed", "wazuh_context_observed",
   "fim_context_observed", "sudo_context_observed",
   "persistence_related_file_change_observed", "persistence_related_sudo_observed"}

\* A mistake: a patch's "false" overwrites what an earlier patch had found.
MergePatchOverwriting(r, patch) ==
  [e |-> [k \in DOMAIN r.e |-> IF k \in DOMAIN patch.e THEN r.e[k] \cup patch.e[k] ELSE r.e[k]],
   f |-> (r.f \ PatchFeatures) \cup patch.f]

MergePatch(r, patch) ==
  [e |-> [k \in DOMAIN r.e |-> IF k \in DOMAIN patch.e THEN r.e[k] \cup patch.e[k] ELSE r.e[k]],
   f |-> r.f \cup patch.f]

-----------------------------------------------------------------------------
(* What the result states *)

ChainState(r) ==
  LET fetched == "endpoint_url_fetch_observed" \in r.f
      changed == "endpoint_chmod_execute_chain_observed" \in r.f
      executed == {"endpoint_download_then_execute_pattern",
                   "endpoint_chmod_execute_chain_observed"} \cap r.f # {}
      endpointChain == fetched /\ changed /\ executed /\ OrderedSamePathChain(r.e.endpoint)
      full == \/ r.e.rules \/ endpointChain
              \/ OrderedSamePathChain(r.e.downloads \cup r.e.chmods \cup r.e.executions)
      missing ==
        Where("download", ~(r.e.downloads # {} \/ r.e.urls # {} \/ fetched \/ r.e.rules))
          \cup Where("permission change", ~(r.e.chmods # {} \/ changed \/ r.e.rules))
          \cup Where("execution",
                 ~(\/ r.e.executions # {} \/ r.e.ran # {} \/ executed \/ r.e.rules
                   \/ "execution_chain_confirmed_by_process_events" \in r.f))
  IN [full |-> full, endpointFull |-> endpointChain, missing |-> missing,
      gaps |-> IF ~full /\ missing = {} THEN {"ordered same-payload-path correlation"} ELSE missing]

AfterLogin(r) == "public_key_login_to_execution_observed" \in r.f

ChainStory(state) ==
  CASE state.full -> "chain"
    [] ~state.full /\ state.missing # {"download", "permission change", "execution"} -> "limited"
    [] OTHER -> "nothing"

\* render_summary
Summary(i, r) ==
  CASE i.archive -> "archive"
    [] ~i.archive /\ AfterLogin(r) -> "after login"
    [] ~i.archive /\ ~AfterLogin(r) /\ "authorized_keys" \in r.e.fim -> "persistence"
    [] OTHER -> ChainStory(ChainState(r))

\* render_attack_story
Story(i, r) ==
  CASE i.archive -> "archive"
    [] ~i.archive /\ AfterLogin(r) -> "after login"
    [] OTHER -> ChainStory(ChainState(r))

Points(r) ==
  Cardinality({n \in 1..8 :
    CASE n = 1 -> r.e.downloads # {} \/ r.e.urls # {}
      [] n = 2 -> r.e.chmods # {}
      [] n = 3 -> r.e.executions # {} \/ r.e.ran # {}
      [] n = 4 -> r.e.rules
      [] n = 5 -> "execution_chain_confirmed_by_process_events" \in r.f
      [] n = 6 -> r.e.network # {} \/ r.e.http
      [] n = 7 -> AfterLogin(r)
      [] OTHER -> r.e.archive # {}})

\* determine_evidence_level: 0 none, 1 limited, 2 moderate, 3 strong
Level(r) ==
  CASE Points(r) >= 5 -> 3 [] Points(r) \in 3..4 -> 2 [] Points(r) \in 1..2 -> 1 [] OTHER -> 0

EndpointFacts(S) ==
  {<<"endpoint", e.type, e.host, e.form, e.path, e.url>> :
     e \in {x \in S : CASE x.type = "process_exec" -> x.form # "none"
                        [] x.type \in {"file_write", "persistence_file_change"} -> x.path # Unknown
                        [] x.type = "network_connection" -> x.url # NoUrl
                        [] OTHER -> TRUE}}

\* build_auditd_signal_context: events under one of its audit keys; an
\* unlisted command and a persistence path outside .ssh make no fact
AuditdFacts(S) ==
  {<<"auditd", a.type, a.what>> : a \in {x \in S : x.key /\ x.what # "unlisted"}}

\* build_evidence_summary
Facts(r) ==
  {<<"url", u>> : u \in r.e.urls} \cup {<<"payload", p>> : p \in r.e.payload}
    \cup {<<"chmod", c.path>> : c \in r.e.chmods} \cup {<<"executed", p>> : p \in r.e.executed}
    \cup {<<"source", p>> : p \in r.e.ips} \cup {<<"child", c.form>> : c \in r.e.children}
    \cup EndpointFacts(r.e.endpoint) \cup AuditdFacts(r.e.auditd)

EvidenceGaps(i, r) ==
  Where("no download", ~i.archive /\ r.e.downloads = {} /\ r.e.urls = {})
    \cup Where("no execution", ~i.archive /\ r.e.executions = {} /\ r.e.ran = {})
    \cup Where("no network", r.e.network = {}) \cup Where("no http", ~r.e.http)
    \cup Where("no login", ~AfterLogin(r)) \cup Where("archive limits", i.archive)

UsesGenericNarrative(i, r) == ~(i.archive \/ AfterLogin(r) \/ r.e.fim # {})

\* A mistake: the elements are counted, not their order and path.
ClaimsByElements(i, r) ==
  Where("network delivery", r.e.network = {} /\ ~r.e.http)
    \cup Where("preceded by login", ~AfterLogin(r)) \cup Where("archive limits", i.archive)
    \cup Where("full chain", UsesGenericNarrative(i, r) /\ ChainState(r).missing # {})

\* build_unsupported_claims
UnsupportedClaims(i, r) ==
  Where("network delivery", r.e.network = {} /\ ~r.e.http)
    \cup Where("preceded by login", ~AfterLogin(r)) \cup Where("archive limits", i.archive)
    \cup Where("full chain", UsesGenericNarrative(i, r) /\ ~ChainState(r).full)

PayloadContext(r) ==
  {"endpoint_download_then_execute_pattern", "endpoint_payload_path_observed",
   "endpoint_url_fetch_observed", "endpoint_chmod_execute_chain_observed"} \cap r.f # {}

MissingPivots(i, r) ==
  Where("archive content", i.archive) \cup Where("ssh auth", ~AfterLogin(r))
    \cup Where("network", r.e.network = {} /\ ~r.e.http)
    \cup Where("download event", "download" \in ChainState(r).missing)
    \cup Where("inspect ordered chain", PayloadContext(r) /\ ChainState(r).endpointFull)
    \cup Where("inspect partial chain", PayloadContext(r) /\ ~ChainState(r).endpointFull)

RecommendedPivots(i, r) ==
  IF i.archive THEN {"archive timeline"}
  ELSE LET found == Where("payload file", r.e.saved # {} \/ r.e.ran # {})
                      \cup Where("payload source", r.e.urls # {})
                      \cup Where("ssh session", AfterLogin(r))
                      \cup Where("inspect payload", PayloadContext(r))
       IN IF found = {} THEN {"incident timeline"} ELSE found

\* build_recommended_next_steps
NextSteps(i, r) ==
  IF i.archive THEN {"review staging"}
  ELSE LET state == ChainState(r)
       IN (IF state.full THEN {"preserve payload", "validate execution"}
           ELSE {"collect missing"} \cup Where("preserve payload", "download" \notin state.missing)
                  \cup Where("review permissions", "permission change" \notin state.missing)
                  \cup Where("validate execution", "execution" \notin state.missing))
            \cup Where("correlate logins", ~AfterLogin(r))
            \cup Where("correlate network", r.e.network = {} /\ ~r.e.http)

NoReport == [summary |-> "none"]

ReportOf(i, r) ==
  [summary |-> Summary(i, r), story |-> Story(i, r), level |-> Level(r), facts |-> Facts(r),
   gaps |-> EvidenceGaps(i, r), claims |-> UnsupportedClaims(i, r),
   chainGaps |-> ChainState(r).gaps, missing |-> MissingPivots(i, r),
   pivots |-> RecommendedPivots(i, r), steps |-> NextSteps(i, r), features |-> r.f]

-----------------------------------------------------------------------------
\* build_investigation_result, one enricher a step
NoEvidence == [BaseEvidence([timeline |-> <<>>]) EXCEPT !.rules = FALSE]

EvidenceInit ==
  /\ input \in Inputs
  /\ stage = "base" /\ evidence = NoEvidence /\ features = {} /\ report = NoReport

Now == [e |-> evidence, f |-> features]

Enrich(at, next, r) ==
  /\ stage = at /\ stage' = next
  /\ evidence' = r.e /\ features' = r.f
  /\ UNCHANGED <<input, report>>

BindAndBase ==
  IF Refused(input)
  THEN stage = "base" /\ stage' = "refused" /\ UNCHANGED <<input, evidence, features, report>>
  ELSE Enrich("base", "process", [e |-> BaseEvidence(input), f |-> BaseFeatures(input)])
ProcessStep == Enrich("process", "auditd", AddProcessContext(input, Now))
AuditdStep == Enrich("auditd", "endpoint", AddAuditdContext(input, Now))
EndpointStep == Enrich("endpoint", "archive", AddEndpointContext(input, Now))
ArchiveStep == Enrich("archive", "hits", AddArchiveContext(input, Now))
ChainHitsStep == Enrich("hits", "auth", AddChainHits(input, Now))
AuthStep == Enrich("auth", "promote", AddAuthContext(input, Now))
PromoteStep == Enrich("promote", "zeek", Promote(Now))
ZeekStep == Enrich("zeek", "auth patch", AddZeek(input, Now))
AuthPatchStep == Enrich("auth patch", "fim patch", MergePatch(Now, AuthPatch(input, Now)))
FimPatchStep == Enrich("fim patch", "sudo patch", MergePatch(Now, WazuhPatch(input.fim, input, FALSE)))
SudoPatchStep == Enrich("sudo patch", "report", MergePatch(Now, WazuhPatch(input.sudo, input, TRUE)))
Conclude ==
  /\ stage = "report" /\ stage' = "done"
  /\ report' = ReportOf(input, Now)
  /\ UNCHANGED <<input, evidence, features>>

EvidenceNext ==
  \/ BindAndBase \/ ProcessStep \/ AuditdStep \/ EndpointStep \/ ArchiveStep
  \/ ChainHitsStep \/ AuthStep \/ PromoteStep \/ ZeekStep
  \/ AuthPatchStep \/ FimPatchStep \/ SudoPatchStep \/ Conclude

EvidenceSpec == EvidenceInit /\ [][EvidenceNext]_vars

\* The whole of it at once, to compare two investigations.
Outcome(i) ==
  LET base == [e |-> BaseEvidence(i), f |-> BaseFeatures(i)]
      observed == AddArchiveContext(i, AddEndpointContext(i, AddAuditdContext(i, AddProcessContext(i, base))))
      logged == AddZeek(i, Promote(AddAuthContext(i, AddChainHits(i, observed))))
      merged == MergePatch(MergePatch(MergePatch(logged, AuthPatch(i, logged)),
                                      WazuhPatch(i.fim, i, FALSE)), WazuhPatch(i.sudo, i, TRUE))
  IN ReportOf(i, merged)

-----------------------------------------------------------------------------
EvidenceTypeOK ==
  /\ evidence.urls \subseteq Targets(Range(input.timeline) \cup input.process)
  /\ evidence.endpoint \subseteq Range(input.endpoint)
  /\ stage \in {"refused", "done"} \/ report = NoReport
  /\ stage = "done" => report.level \in 0..3

\* A report confirms the download, permission change and execution only when a chain
\* rule fired or three timed events show them on one path in that order: events of
\* the incident's timeline, or endpoint events.  Of a correlation incident with
\* references to the shared endpoint file only the events they name count, whoever
\* else has events in the file; of an observation, or an incident with references
\* of another kind, every event of the file does, which the comment in
\* bind_endpoint_events_to_incident and docs/design/defender/
\* windows_downstream_evidence_quality.md intend.
ChainRestsOnIncident ==
  stage = "done" /\ "chain" \in {report.summary, report.story} =>
    \/ input.hits
    \/ OrderedSamePathChain(Range(input.timeline))
    \/ OrderedSamePathChain(
         IF input.correlated /\ input.refs # <<>>
         THEN {input.endpoint[n] : n \in Range(input.refs) \cap DOMAIN input.endpoint}
         ELSE Range(input.endpoint))

\* Seven functions state the result independently.  They never contradict each
\* other: a chain the story confirms is not listed as unsupported and leaves no
\* gap in the chain, one it does not confirm is listed (unless FIM paths make the
\* report about persistence), and steps and pivots agree with it.
StatementsAgree ==
  stage = "done" =>
    /\ report.story = "chain" => report.chainGaps = {} /\ "full chain" \notin report.claims
    /\ report.story \in {"limited", "nothing"} => report.chainGaps # {}
    /\ report.story \in {"limited", "nothing"} /\ evidence.fim = {}
         => "full chain" \in report.claims
    /\ report.summary \in {report.story, "persistence"}
    /\ report.story = "chain" => "collect missing" \notin report.steps
    /\ report.story = "nothing" => "preserve payload" \notin report.steps
    /\ "inspect ordered chain" \in report.missing /\ report.story # "archive"
         => report.story \in {"chain", "after login"}

\* No enricher takes back what an earlier one found, and the one path stated of the
\* payload and of the execution is not exchanged for another.
EvidenceOnlyGrows ==
  [][/\ features \subseteq features'
     /\ evidence.urls \subseteq evidence'.urls /\ evidence.saved \subseteq evidence'.saved
     /\ evidence.ran \subseteq evidence'.ran /\ evidence.fim \subseteq evidence'.fim
     /\ evidence.ips \subseteq evidence'.ips
     /\ evidence.payload # {} => evidence'.payload = evidence.payload
     /\ evidence.executed # {} => evidence'.executed = evidence.executed]_vars

Without(i, source) ==
  IF source = "endpoint" THEN [i EXCEPT !.endpoint = <<>>, !.given = FALSE]
                         ELSE [i EXCEPT ![source] = {}]

\* Evidence is monotone: one source less never gives a higher level, another
\* feature, another fact or one unsupported claim less.
LessEvidenceClaimsLess ==
  stage = "done" =>
    \A s \in SourceNames :
      LET less == Outcome(Without(input, s))
      IN /\ less.level <= report.level
         /\ less.features \subseteq report.features /\ less.facts \subseteq report.facts
         /\ report.claims \subseteq less.claims

\* The inputs are shared by all incidents of a batch.  Process and login records of
\* another host or user, Wazuh alerts of another host, and, for a correlation incident
\* with references, endpoint events it does not name change nothing in the report.
\* (Alerts of another user of the host do: build_wazuh_patch is given no user name.
\* Network records carry neither; they are taken by the target's address or port.)
OthersChangeNothing ==
  stage = "done" =>
    LET mine == {e \in input.process : Agrees(e.host, input.host) /\ Agrees(e.user, input.user)}
        logins == {a \in input.auth : Agrees(a.host, input.host) /\ Agrees(a.user, input.user)}
        onHost(S) == {a \in S : input.host = Unknown \/ a.host = input.host}
        named == input.given /\ input.correlated /\ input.refs # <<>>
        own == [n \in DOMAIN input.refs |-> input.endpoint[input.refs[n]]]
        places == [n \in DOMAIN input.refs |-> n]
    IN report = Outcome([input EXCEPT !.process = mine, !.auth = logins,
                                      !.fim = onHost(@), !.sudo = onHost(@),
                                      !.endpoint = IF named THEN own ELSE @,
                                      !.refs = IF named THEN places ELSE @])

\* docs/design/investigation/auditd_signal_enrichment.md: "If auditd_events.json
\* is missing, empty, or unrelated, investigation output should remain
\* behaviorally unchanged": audit events of other hosts leave the report alone.
UnrelatedAuditdChangesNothing ==
  stage = "done" =>
    LET mine == {a \in input.auditd : a.host = input.host}
    IN report = Outcome([input EXCEPT !.auditd = mine])
=============================================================================
