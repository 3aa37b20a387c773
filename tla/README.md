# Formal model of the SOC lab pipeline

TLA+ modules, TLC configurations and TLAPS proofs for this repository. Paths are
relative to the repository root. `PROJECT.json` lists components, runs, hazards,
theorems and, for every definition, the source lines it stands for.

## 1. The system

A SOC laboratory in Python: alerts are collected from a Wazuh Indexer or parsed
from host logs, normalised to endpoint events, matched by detection rules,
deduplicated, correlated into incidents, triaged (by rules and by a model) and
investigated. Components, state, operations, interaction, hard parts and what
makes each correct:

| Component (code) | State | Operations | Interacts with | Hard part | Correct when |
|---|---|---|---|---|---|
| Query transport (`scripts/siem/wazuh_indexer_transport.py`) | one call: plan, PIT id, pending error, result | create PIT or resume a cursor, search, delete PIT | Indexer over HTTP; adapter and cursor as functions | lost, late and unusable answers, crash between requests, cleanup on every path | success without a cursor means the PIT is gone; every path that knows a PIT id deletes it or hands out a cursor |
| Cursor (`wazuh_indexer_cursor.py`) | encrypted token: request fingerprint, PIT id, position, count, expiry | encode, decode | handed out to and back by callers | replay, sharing, expiry against the PIT's keep-alive | never outlives its PIT, never counts a record twice |
| Query adapter (`wazuh_indexer_query_adapter.py`) | none | plan, resolve cursor, validate a page | transport | a backend that skips, repeats, disorders or miscounts | accepted pages are in strict order after the cursor; the exact final page is exact |
| Live smoke runner (`wazuh_indexer_live_smoke.py`) | records, page count, expected total, cursor, seen cursors | page loop, summary | transport | index grows while it reads; a page loop that must end | a whole result is one snapshot, complete, in order, within the cap |
| Windows security-auth live smoke and pipeline (`wazuh_indexer_windows_security_auth_live_*.py`) | none across calls | one query, map, detect, check coverage | transport, Defender pipeline | a truncated first page abandons its cursor | every alert is mapped exactly once |
| Detection evaluator, loader (`detection/compiler/evaluator.py`, `loader.py`) | none | evaluate string conditions over events | pipeline | missing fields | condition semantics |
| Deduplication (`detection/compiler/dedupe.py`) | none | group by artifact key and time gap, merge | pipeline; incident builder runs it again | missing timestamps, chained windows | partition of its input, idempotent |
| Correlation, selection, incidents (`correlation.py`, `pipeline.py`, `incident_*.py`, `agents/incident-builder-agent`, `common/defender_pipeline.py`) | stage results | correlate, validate, select, build, pair with triages and investigations | each stage recomputes and revalidates the previous one | asymmetric time windows, overlapping correlations, identifiers that depend on order; references looked up by position | a run is refused for missing endpoint events only; every detection is reported once; correlations are exactly the chains of the policies |
| Rule triage (`agents/rule-triage-agent`) | the results of a batch | load both rule files for every incident, derive features, assess | incidents; people who edit the rules | rule files saved while a batch runs | more behaviour never means less risk |
| AI triage, decision log (`agents/ai-triage-agent`, `common/decision_log.py`) | `triage_result.json`, `decision_log.json` | call the model, write the result, append an entry | files shared by all invocations of a run | unlocked read-modify-write, death between truncation and dump | a logged decision has a result; a readable log is complete |
| Investigation (`agents/investigation-agent`, `auth_enricher.py`, `wazuh_enricher.py`) | evidence, features, report | bind endpoint events, a dozen enrichers, patches, statements | all telemetry files, triage | enrichers read what others wrote; seven functions state the result separately | confirmed chains rest on events admitted to the incident, statements agree, evidence only adds |
| Parsers (`agents/parser-agent`) | audit records grouped by host, epoch and serial | parse, deduplicate, group, normalise, convert | log files of the collector | records late, mixed, repeated, lost | one event per call, typed as the contracts say; missing records claim nothing |
| Windows source adapters (`scripts/windows`) | none | map fields | files | malformed records | every event mapped once or rejected |
| Rule-improvement scripts (`scripts/*ai_review_draft*`, `export_rule_improvement_promotion_recommendation.py`) | none | one-shot exports, comparison, recommendation | files, people | decision table | recommendation follows the table |

The part that keeps state, talks to something that fails and is used by several
processes is the PIT pagination, so it came first; the way of a detection through
the pipeline, the investigation's evidence, the files and the audit records follow.

## 2. Modules

* `WazuhIndexer`: the external Indexer, as far as the client relies on it: an
  index that grows, PITs with frozen content, keep-alive and reaper. An alert is
  its rank in the registered `(timestamp, id)` order.
* `WazuhIndexerTransport` (extends it): any number of callers of
  `execute_wazuh_indexer_query`.

  | Model | Code |
  |---|---|
  | `pc`: create / search / delete / return | the position inside `execute_wazuh_indexer_query` |
  | `call` | `plan`, `pit_id`, `cursor_state`, and what is left of `cursor_operation_time` + keep-alive |
  | `reply` | the answer `_request_json` waits for |
  | `error`, `result` | `primary_error`, `result` |
  | `life[t]` | the remaining lifetime of the issued token with content `t` |
  | `late` | requests whose sender timed out or died and that may still be served |
  | `BeginFresh`, `BeginResumed`, `RejectCursor` | planning, `_resolve_cursor_state`, `decode_wazuh_indexer_cursor` |
  | `HandleCreate`, `HandleDelete`, `RequestFails` | `_validate_pit_creation`, `_validate_pit_cleanup`, exceptions of `_request_json` |
  | `PageWithCursor`, `PageWithoutCursor`, `PageRejected` | `parse_wazuh_indexer_response` and `cleanup_required` |
  | `Take`, `Crash` | return to the caller, death of the process |

  A search step and its answer, and the handling of the answer, are separate
  steps, so time, other callers and failures come between them. A token is its
  content: the encryption is taken as unforgeable. Two tokens of equal content
  differ only in expiry; the model keeps the longer one.
* `BoundedSnapshotRead`: the abstract promise of the runner: read one frozen
  content of a growing index, in order, at most `Cap` alerts; pass only when all
  of it was read.
* `LiveSmokeCollector` (extends the transport): the page loop of
  `_collect_live_smoke_pages` and the outcome of `run_live_smoke`. `started` and
  `source` are history variables. `Read` is the refinement mapping.
* `DetectionDedupe`: `dedupe_detections`, item by item, run twice: once by
  `run_common_correlation_stage` and once by the incident builder, which rejects
  a list that a second deduplication changes. `todo` is what is left of `grouped`,
  `group` is `current_group`, `OpenGroup`/`JoinGroup`/`SplitGroup` are the branches
  of the loop, `CloseGroup` the flush after it, `Merge` is
  `merge_detection_group`. Every list in this code is sorted by a key that ends in
  the unique id, so a set stands for it; the keys are visited in any order. Either
  timestamp may be absent, and an end may precede its start (nothing in the
  pipeline forbids it).
* `IncidentPipeline` (extends `DetectionDedupe`): the whole of
  `run_common_detection_to_investigation`. `stage` is the stage that runs next; the
  three correlation policies, numbering, validation, selection, the pairing of triages
  and investigations and the composition check are operators named after the functions.
  A failed check of any stage leads to `stage = "failed"`. A correlation is its
  members, references and window; an incident id is a pair of kind and number. `InOrder`
  stands for the sorts: it places an element by the number of those before it, so
  that its value can be reasoned about without induction. `endpoints` is the length of
  the `endpoint_events` the caller hands over, if any; `EventAt` gives the N of a raw
  detection's reference `input[N]`, or `NotInput`; `Unbound` is the refusal of
  `bind_endpoint_events_to_incident`, which stops the run in the investigation.
* `InvestigationEvidence`: `build_investigation_result`, one action per enricher in
  the order of the code (`ProcessStep` ... `SudoPatchStep`), then `Conclude`, which
  computes every statement. `evidence` and `features` are the two dictionaries of that
  name, lists as sets (`payload` and `executed` are the first path of each list, the ones
  stated); a command is its form, path and URL target: what `curl`, other downloaders, an
  interpreter that fetches, a script of all three, `chmod`, an execution look like to the
  predicates of the code. `given` tells an absent endpoint file from an empty one, which
  refuses references. `Outcome` is the
  same computation as a function of the input; the properties that compare two
  investigations use it.
* `DecisionLog`: invocations of the AI triage agent on one run directory. `log` and
  `result` are the files as texts that may be absent, empty, garbled or whole; `copy` is
  `data` of `append_decision_log`. Opening truncates; a dump over a text another
  writer put there may leave garbage. `overlapped` is a history variable.
* `RuleTriage`: `build_triage_results_from_incidents` on a batch. `disk` is what a reader
  of either rule file finds now: a prefix of the rules while it is being saved, its last
  rule perhaps cut inside its last value (`cut`; `short` is what is then read of it), or
  something `load_rules` raises on (`refused`). `Assess` is the rest of `build_output`.
* `AuditdAssembly`: the kernel's records of system calls arrive in `auditd.log` in any
  order, mixed, twice or not at all (`Deliver`, external); `Parse` is `parse_auditd_log`
  with `deduplicate_records`, the grouping and `normalize_event`, `Convert` is
  `convert_auditd_events`. What a call did is `Effect`, from the meaning of the system
  calls, and what it is to be told as is `ContractType`, from the two contract documents;
  neither is taken from the parser. Where the parser departs from them is listed in
  `Overtold` and `Untold` (section 5). The grouping relies on a host telling the calls of one boot
  apart by their serials
  (`docs/design/scenarios/scenario009/centralized_rsyslog_auditd_collection_validation.md`).
* `MC...`: constants for TLC.
* `...Proofs`: the theorems about the module of that name. `LiveSmokeCollectorProofs`
  builds on `WazuhIndexerTransportProofs`, `IncidentPipelineProofs` on
  `DetectionDedupeProofs`, as the modules themselves do.

Operators named for a plausible bug (`CountThisPage`, `RaiseAtOnce`, ...) are used
only by the mutants in `PROJECT.json`, which show that each property can fail.

## 3. Runs

| Run | Question | Instance |
|---|---|---|
| `TransportSharing` | cursors shared and replayed by two callers of two requests: type invariant, `CursorWithinPit`, `FinalPageExact` | 3 alerts, 2 overlapping requests of page size 1, cap 3, keep-alive 2, one PIT; callers are symmetric |
| `TransportFaults` | an Indexer that skips, repeats, disorders and miscounts: `CursorAccounting`, `FinalPageExact`, `SuccessReleasesPit`, `EndsThroughDeletion`; and whatever the caller does with its cursors, `AbandonedPitExpires` | 3 alerts, page size 2, cap 3: a cursor follows a page of two hits and the cap shrinks the page after it; one caller that may resume and replay |
| `CollectorFaults` | the runner's safety properties against the same Indexer, and that every run ends | 3 alerts, page size 2 (and shorter pages), cap 3, at most 3 pages |
| `CollectorRefines` | `BoundedSnapshotRead` is implemented, when totals are right | cap 3 below 4 alerts, so that refused runs occur; page size 2 and at most 2 pages, so that the page bound is reached after a short page |
| `DedupeEpisodes` | each reference survives exactly once, one detection per episode (against a declarative definition), a merged detection sits at a member's instant, the second pass changes nothing (the types are checked in `PipelineStages`, whose longer lists go through the same code) | every set of at most 3 detections over 2 keys (gap 1 and gap 0), timestamps in 0..2 or absent |
| `PipelineStages` | a run is refused for endpoint references that cannot be looked up, then always, and for nothing else (`RefusedForEventsOnly`), every raw detection is reported once, correlations are chains of the raw detections and none of any policy is missed, windows span their members | every list of at most 6 detections from each of three pools of 8 to 10, with detections at, inside and outside each window, of another account, merged, untimed, in overlapping correlations; no endpoint events, or 5 of them, which some references exceed, and one reference of another form |
| `EvidenceMerge` | `ChainRestsOnIncident`, `StatementsAgree`, `LessEvidenceClaimsLess`, `OthersChangeNothing`, `EvidenceOnlyGrows` | products of timelines, process trees, endpoint files (absent, empty, whole, of another host) and references into them, logins, networks and alerts; context limit 1 |
| `AuditdUnrelated` | a documented claim the code does not keep (section 5) | audit events of another host |
| `LogInvocations` | `EntryHasResult`, `ReadableLogIsComplete` | 4 interchangeable invocations, any overlap, death at any step |
| `TriageRules` | `MoreBehaviourNeverLessRisk`, `MaliciousNeedsEverySignal` | 3 incidents over 7 sets of behaviours, the shipped rules, one save of either file at any time, seen at any point of its text |
| `AuditdRecords` | `WholeCallsTold`, `NothingInvented` | one or two system calls of 3 or 4 records, in 14 worlds: calls that fail, read, write, change modes, move and remove, under lab keys and another, in two boots and on two hosts; every order and loss of lines, one repetition |
| `AuditdDeletion` | a documented claim the code does not keep (section 5) | one unlink |

Bounds. `NumRecords` alerts (three: before, at and after a cursor), the PITs in
`PitId`, `MaxCursors` (no call begins once that many cursors were issued; it
bounds the number of calls, not what a call does), and `MaxLimit`/`KeepAlive`,
which are 100 and 30 s in `config/siem_sources` and are scaled down. All of these
are arbitrary in the proofs.
Three detections at three instants are enough for a chain whose ends are farther
apart than the gap, and for one that breaks; the longest correlation needs three
artifacts, and six detections give it two candidates for each. Windows are scaled to 2.
Of the constants of the investigation the code's own values are used (windows of 120,
180 and 300 s), only the number of context events is 1 instead of 5. Two triaged incidents
are compared at a time, the third lets a save fall between them; a second save only
repeats the first. Two calls are enough for records to be put into the wrong group,
and the calls of a pair differ in one part of the group's key each.
With one PIT identity a second fresh call waits for ever for its creation to be
served or fails, which is what a full Indexer does; sharing needs two callers on
one PIT.

Deadlock is not checked where the program ends (pipeline, investigation, decision log,
rule triage, audit records).

Fairness. `FairSpec` assumes that time passes and that the reaper removes an
overdue PIT; nothing of callers. `FairCollectorSpec` assumes that the runner keeps
running: `_request_json` has connect and read timeouts, so each request ends by an
answer or by `RequestFails`. The other modules state safety only: their programs run to
the end or die.

## 4. Proofs

`WazuhIndexerTransportProofs`, for every number of callers, requests, alerts and
PITs, every cap, page size and keep-alive, and an Indexer as faulty as
`FaultyPages` allows. Assumed: the named `ASSUME`s on the constants.

* `TypeCorrect`: `Spec => []TypeOK`. `TypeOK` is not inductive: an issued cursor is
  well typed only because the call knows a PIT id; `Phases` says when.
* `CursorsWithinPits`, `CursorsCountRightly`, `SuccessReleases`, `FinalPagesExact`,
  `CallsEndThroughDeletion`: the safety properties of the two transport runs.

The inductive invariant is `IInv`: besides `TypeOK` and `Phases`, `CallInv` for
each call (after a search is answered the PIT is good for at least as long as the
cursor this call may issue; the count of the cursor it resumed is covered by the
alerts up to its position; a confirmed deletion left the PIT closed; a passed page
is in order) and `CursorInv` for each cursor. None of the properties is inductive
without it: each is about the end of a call and rests on something established
at its beginning. `PitFrame` bounds what one step, of anyone, can do to a PIT in
use: it keeps its content, is not revived, and loses lifetime only to `Tick`. So
whatever a step does not touch is stable (`CallStable`, `CursorStable`), and one
lemma per action covers the acting call. `HitsCount` and `CountedOn` carry the
counting: a page in strict order holds as many alerts as hits, so counts add up
along cursors, and a page that reaches the true total has exactly the rest.
`IInv` was first checked by TLC on the instances of the transport runs.

`DecisionLogProofs`, for any set of invocations and no assumption:
`TypeCorrect`, `LoggedHasResult` (`Spec => []EntryHasResult`) and `SerialLogComplete`
(`Spec => []ReadableLogIsComplete`). For the second, `ResultsFirst` adds that whoever
is past the result has written it and that no copy of the log held by anyone names
somebody who has not: an entry enters the file through a copy read long before. For the
third, `OneWriter` says that while nothing overlapped at most one invocation works, that
the copy it is about to dump holds everyone who finished, and that it dumps into an empty
file; the implication from `~overlapped` is an invariant because an overlap is never
forgotten.

`RuleTriageProofs`, for every pair of rule files of the shape `RulesAssumption` names
(derived-feature rules look for behaviour that is there; assessment rules are sorted by
falling risk, and one that looks for something missing has the lowest), which the
shipped files have, and any number of incidents and saves: `TriageTypeCorrect` and
`TriageMonotone` (`Spec => []MoreBehaviourNeverLessRisk`). The invariant `IInv` records
that each result follows from the incident and the rules it was computed with
(`ResultsFollowRules`): by the time of the comparison the files may be others.
`IncidentAtHand` says that there is an incident to assess. `DerivationGrows` and `RiskGrows`
are the two halves of the argument. `MaliciousNeedsSignals`
(`Spec => []MaliciousNeedsEverySignal`) follows from the same invariant, for rule files in
which a malicious rule demands, for each of the four signals, a derived feature that no
rule sets without demanding the signal (`MaliciousAssumption`).

`LiveSmokeCollectorProofs`, for any cap, page size, page bound and number of alerts, and
the faulty Indexer: `CollectorTypeCorrect`, `PagesAlwaysJoin`, `WholeRunsLeaveNoPit`,
`PageBoundIdle`, `WholeRunsAreComplete`. Every step of a run is a step of the transport,
so `IInv` carries over; `RunInv` adds what the runner knows, since each property is about
pages that earlier calls returned: `Linked` says that the call under way reads on from where
the collected records end, `Gathered` that those are an ordered part of one PIT's
content, `Completed` what the last page establishes. `ReadsSnapshot` is the refinement:
given exact totals (`ExactTotals`), every behaviour is one of `BoundedSnapshotRead`.
`Frozen` (a PIT opened since the start holds what was there at the start) makes the run's
source a legal snapshot of the abstract reader.

`DetectionDedupeProofs`, for any finite set of ids, any keys, gaps and timestamps, and any
order of the keys: `DedupeTypeCorrect`, `NothingLostOrDoubled`, `MergedStandsAtAMember`,
`OneDetectionPerEpisode`, `SecondPassAccepts`. The loop remembers one item, the property
speaks of chains of any length; `DedupeInv` bridges them with a partition `P` of what was
worked through: closed groups are whole episodes, the open one lies within one
(`Separate`), and within a key everything still to do comes later (`Scan`). In the second
pass detections of a key lie farther apart than its gap (`Spread`), so groups have one
member, and `MergeOne` hands it on unchanged.

`IncidentPipelineProofs`, for any raw lists of distinct ids (what
`validate_canonical_detections` accepts) and any windows: `PipelineTypeCorrect`,
`PipelineRefusesForEventsOnly`, `WindowsSpan`, `EveryChainFound`, `ChainsStandForRaw`,
`EveryDetectionReported`. `PipelineInv` is `DedupeInv` and `StageInv`, which says that each
stage holds what its function makes of the deduplicated list; so a stage that
recomputes its predecessor finds what it was given, and a failed run has a correlation
whose references are `Unbound`. Much of the work is about sorts:
`RankEnumerates` (counting predecessors enumerates a finite strict order) and a lemma for
each order used, also for the nested loops by which the policies number their results.
`Represented` carries a chain of merged detections back to one of raw ones.

`InvestigationEvidenceProofs`, for any investigations and context limit:
`EvidenceTypeCorrect`, `ChainsRestOnTheIncident`, `StatementsNeverContradict`,
`LessEvidenceNeverClaimsMore`, `RecordsOfOthersDoNotCount`, and `EvidenceIsNeverTakenBack`
for the action property. `EvidenceInv` says which enrichers have run (`Standing`), so a
report is a function of its input, and `Outcome` is that function. One lemma per
enricher says which fields it writes (`...Writes`); comparing two investigations then
needs one lemma per enricher on what it does with less evidence (`Less...`). Assumed
(`InvestigationAssumption`): the shape of the inputs; references to input events are places
counted from 1 (`bind_endpoint_events_to_incident`).

`AuditdAssemblyProofs`, for any number of calls, lines and repetitions:
`AssemblyTypeCorrect`, `NothingIsInvented`, `WholeCallsAreTold`. The lines of a group are
the kept ones of exactly one call, each record once; `EventsOK` says what follows for the
parsed events, and `AssemblyInv` keeps it through the conversion. Assumed
(`AssemblyAssumption`): the kernel numbers the calls of one boot of a host, a call has
finitely many paths, and one that changes a file without removing it names its target in a
record of the name it created, else of the one it found. `WholeCallsAreTold` compares the
events with the contracts, not with the parser's own inference, outside the listed departures;
there it claims that the call is told by one event of all its records.

The library's induction theorems are out of reach (they take an operator as a
parameter), so what needs induction is argued by a smallest counterexample
(`LeastExists`, `TopExists`, `RankOnto`). Each inductive invariant was checked by TLC on
the instances of the runs first, and TLC evaluates every named assumption there.

Only model-checked: liveness (`AbandonedPitExpires`, `RunTerminates`), which the proof
system cannot do under fairness. Every invariant, action property and refinement of the
passing runs is proved.

## 5. What the checks found

Two documented claims the code does not keep, each with a run that shows it:

* `AuditdUnrelated`: `build_auditd_signal_context` looks at key and type only, so audit
  events of another host add facts to a report that
  `docs/design/investigation/auditd_signal_enrichment.md` says stays unchanged.
* `AuditdDeletion`: a successful `unlink` becomes a `file_write` event; the event
  contract has `file_delete` for it. `rename` is treated alike.
  (The path of a removal may be that of its directory, as `choose_file_path` prefers
  none of its records; `WholeCallsTold` claims nothing about it.)

Observations from modelling, not stated as findings:

* The parser's types depart from the contracts in more ways than removal (`Overtold`,
  `Untold`; for these `WholeCallsTold` claims no type). A change under a key that is
  not one of the lab's becomes `file_write`, while
  `docs/design/defender/auditd_parser_contract.md:255` has `audit_event` for an unknown key;
  `chmod` and `rename` under `isl_tmp_marker` become `file_write`, which that document's
  row for the key allows but `docs/design/defender/normalized_endpoint_event_contract.md:125`
  (content only) and its `file_rename` do not; an `execve` that failed is told as
  `process_exec`; `unlinkat` and `renameat2` are not file actions to the parser, so what they
  change is told as `unknown`.
* The audit parser groups by host, epoch and serial; `auditd_parser_contract.md` still
  says host and serial. The code is right, a reboot restarts the serials (the mutant
  `BySerial` follows the contract and breaks `NothingInvented`). The converter's event
  id has no epoch, so the events of the two boots share an id.
* A death between truncating and dumping `decision_log.json` loses all its entries, and
  every later append raises on the empty file: the log is lost as a whole, which is what
  keeps `ReadableLogIsComplete` true. Overlapping invocations lose single entries.
* A rule file read while it is being saved may be empty: every incident read then is
  benign, and one batch may mix two sets of rules. It may also end inside a number: a
  `risk_score` of 90 read as 9 is an integer, passes `rule_validator.py:111` and ranks below
  the default of 10. `MoreBehaviourNeverLessRisk` therefore speaks of readings without such a
  cut; `MaliciousNeedsEverySignal` holds with it.
* An observation, and a correlation incident whose references are not of the form `input[N]`,
  is investigated with every event of the shared endpoint file, whoever's they are
  (`bind_endpoint_events_to_incident`, and its comment says so): events of another host can
  confirm its chain. `ChainRestsOnIncident` and `OthersChangeNothing` promise nothing there.
  References that are mixed, or point outside the file, refuse the run.
* `build_wazuh_patch` is called without a user name, so alerts of another user of the
  incident's host count in its report; Zeek records are taken by the address or port of a
  download alone. `OthersChangeNothing` filters alerts by host only and leaves network
  records as they are.
* Runs of the decision log: a failure after the result is written leaves a result without
  an entry, and a repeated call writes two entries; only an entry without a result is excluded.
* `evidence_level` can be none although the endpoint events confirm the chain; FIM paths
  outside `authorized_keys` remove the chain claim from `unsupported_claims`
  (`StatementsAgree` says so); an archive report says that no network transfer was
  observed even with Zeek records.

## 6. Not modelled, and why

Encryption and schemas (taken to do what they promise), HTTP details (each failure
is `RequestFails`), record content (its checks in `build_live_smoke_summary` are a
nondeterministic failure in `Summarise`), and the sub-millisecond and floating-point
comparison of sort values (`_timestamp_sort_value`; alerts are ranks).
`incident_legacy.py` (kept for old files); the rule validator's checks of each field and
triage texts; behaviour features that are not booleans and rules that set a feature to
False (no shipped rule does); prompts and the model's answer; notes, timeline and wording
of the investigation; the parsing of log lines into fields and the converter's time and
keyword filters, which select events without changing them; the detection evaluator and
loader (matching of strings in one record), the Windows adapters and the Windows
security-auth pipeline (field mappings around one transport call), and the
rule-improvement scripts (one file into another): stateless, so unit tests reach them.

## 7. Plan

1. done: PIT pagination and the proofs of the transport.
2. done: `DetectionDedupe`, `IncidentPipeline`.
3. done: `DecisionLog` and `RuleTriage` with proofs, `InvestigationEvidence`,
   `AuditdAssembly`.
4. done: proofs of every safety property of the runs and of the refinement.
5. Still worth doing: the declarative episodes as an abstract specification of
   deduplication, and one of the transport (a chain of calls reads one snapshot or its
   PIT is gone), each with the proof that it is implemented.
