------------------------- MODULE IncidentPipeline -------------------------
(***************************************************************************)
(* From raw detections to a validated bundle                               *)
(* (common/defender_pipeline.py run_common_detection_to_investigation):    *)
(* deduplication, the three fixed correlation policies                     *)
(* (detection/compiler/correlation.py), the incident builder, which        *)
(* repeats deduplication and correlation to check what it was handed       *)
(* before it selects incidents, and the pairing of every incident with its *)
(* triage and its investigation.                                           *)
(*                                                                         *)
(* A key of DetectionDedupe is here a record: _artifact_key holds exactly  *)
(* the fields the policies compare (a process key holds the event id,      *)
(* which stands for the pid and ppid of that event).  Identities keep only *)
(* what orders them: "inc-000001" sorts before "inc-corr-auth-...", which  *)
(* sorts before "inc-corr-key-..." and "inc-corr-windows-...".             *)
(* Of the optional evidence lists only endpoint_events is kept, as its      *)
(* length: the investigation looks up in it the input[N] references of     *)
(* correlation incidents, and refuses one it cannot find.                  *)
(***************************************************************************)
EXTENDS DetectionDedupe, Sequences, Functions

CONSTANTS
  Worlds,              \* the raw detection lists considered
  AuthWindow,          \* auth_window_seconds
  PersistenceWindow,   \* persistence_window_seconds
  ExecutionWindow,     \* execution_window_seconds of the key policy
  ParentWindow,        \* execution_window_seconds of the PowerShell policy
  EventAt,             \* the N of a reference input[N] ...
  NotInput,            \* ... or another form of reference
  Handed,              \* lengths of endpoint_events considered ...
  NoEvents             \* ... or no list is given

ASSUME PipelineAssumption ==
  /\ \A w \in Worlds :
       /\ w \subseteq Detection
       /\ \A r \in w : r.refs = {r.id}
       /\ \A q, r \in w : q.id = r.id => q = r
  /\ {AuthWindow, PersistenceWindow, ExecutionWindow, ParentWindow} \subseteq Nat
  /\ EventAt \in [Id -> Nat \cup {NotInput}] /\ Handed \subseteq Nat \cup {NoEvents}

VARIABLES
  endpoints,        \* how many endpoint events the caller handed over
  stage,            \* the stage that runs next
  correlations,     \* what run_common_correlation_stage returned
  incidents,        \* selected incidents, in order
  triages,          \* triage_results, in order
  investigations    \* investigation_results, in order

stages == <<endpoints, stage, correlations, incidents, triages, investigations>>
pipelineVars == <<vars, stages>>

Observed == 0
AuthChain == 1
KeyExec == 2
ParentChild == 3

Incident == [id : (Observed..ParentChild) \X Nat, members : SUBSET Detection,
             start : Timestamp, end : Timestamp]

PipelineTypeOK ==
  /\ DedupeTypeOK
  /\ endpoints \in Handed
  /\ stage \in {"dedupe", "correlate", "revalidate", "select", "triage",
                "investigate", "compose", "done", "failed"}
  /\ \A c \in correlations :
       /\ c.id \in (AuthChain..ParentChild) \X Nat
       /\ c.members \subseteq Detection /\ c.refs \subseteq Id
       /\ c.start \in Time /\ c.end \in Time
  /\ incidents \in Seq(Incident)

PipelineInit ==
  /\ raw \in Worlds /\ endpoints \in Handed
  /\ given = raw /\ todo = raw
  /\ group = {} /\ merged = {}
  /\ pass = "produce" /\ verdict = "none"
  /\ stage = "dedupe"
  /\ correlations = {} /\ incidents = <<>> /\ triages = <<>> /\ investigations = <<>>

-----------------------------------------------------------------------------
(* The correlation policies.  A found correlation is named by the items of *)
(* the nested loops ("by") until it is numbered.                           *)

With(ds, artifact) == {d \in ds : d.key.artifact = artifact}

\* Mistakes: the order of the two instants is not looked at, or the window's
\* last instant is left out.
FollowsEitherWay(early, late, window) ==
  Timed(early) /\ Timed(late) /\ FirstTs(late) - FirstTs(early) <= window
FollowsStrictly(early, late, window) ==
  /\ Timed(early) /\ Timed(late)
  /\ FirstTs(early) <= FirstTs(late) /\ FirstTs(late) - FirstTs(early) < window

Follows(early, late, window) ==
  /\ Timed(early) /\ Timed(late)
  /\ FirstTs(early) <= FirstTs(late) /\ FirstTs(late) - FirstTs(early) <= window

SameHost(a, b) == a.key.host = b.key.host
SameAccount(a, b) == SameHost(a, b) /\ a.key.user = b.key.user

Starts(S) == {FirstTs(d) : d \in S}
Found(by, members, start, end) ==
  [by |-> by, members |-> members, refs |-> UNION {d.refs : d \in members},
   start |-> start, end |-> end]

FailedBefore(ds, s) ==
  {f \in With(ds, "ssh_failed_login") :
     SameAccount(f, s) /\ f.key.src = s.key.src /\ Follows(f, s, AuthWindow)}
KeysAfter(ds, s) ==
  {k \in With(ds, "authorized_keys_modification") :
     SameHost(k, s) /\ Follows(s, k, PersistenceWindow)}

\* A mistake: the window ends at the login.
AuthThenKeysToLogin(ds) ==
  LET hits == {s \in With(ds, "ssh_success_login") :
                 FailedBefore(ds, s) # {} /\ KeysAfter(ds, s) # {}}
  IN {Found(<<s>>, FailedBefore(ds, s) \cup {s} \cup KeysAfter(ds, s),
            Min(Starts(FailedBefore(ds, s))), FirstTs(s)) : s \in hits}

\* ssh_failed_login -> ssh_success_login -> authorized_keys_modification
AuthThenKeys(ds) ==
  LET hits == {s \in With(ds, "ssh_success_login") :
                 FailedBefore(ds, s) # {} /\ KeysAfter(ds, s) # {}}
  IN {Found(<<s>>, FailedBefore(ds, s) \cup {s} \cup KeysAfter(ds, s),
            Min(Starts(FailedBefore(ds, s))), Max(Starts(KeysAfter(ds, s)))) : s \in hits}

LoginsBefore(ds, x) ==
  {l \in With(ds, "ssh_key_login") : SameAccount(l, x) /\ Follows(l, x, ExecutionWindow)}

\* ssh_key_login -> process_exec
KeyLoginThenExec(ds) ==
  {Found(<<x>>, LoginsBefore(ds, x) \cup {x}, Min(Starts(LoginsBefore(ds, x))), FirstTs(x)) :
     x \in {y \in With(ds, "process_exec") : LoginsBefore(ds, y) # {}}}

\* The observation of the very process whose command line was encoded.
SameProcess(o, e) ==
  o.key.proc = e.key.proc /\ SameAccount(o, e) /\ FirstTs(o) = FirstTs(e)
IsParent(p, c) ==
  /\ p.key.proc.event # c.key.proc.event
  /\ p.key.proc.pid = c.key.proc.ppid
  /\ SameAccount(p, c) /\ Follows(p, c, ParentWindow)

\* PowerShell parent -> PowerShell child with an encoded command: one result
\* for each pair of observations.
PowershellParentChild(ds) ==
  LET seen == With(ds, "powershell_process_observed")
      hits == {h \in With(ds, "encoded_command_observed") \X seen \X seen :
                 Timed(h[1]) /\ SameProcess(h[2], h[1]) /\ IsParent(h[3], h[2])}
  IN {Found(h, {h[1], h[2], h[3]}, FirstTs(h[3]), FirstTs(h[2])) : h \in hits}

LoopsBefore(a, b) ==
  \E i \in DOMAIN a : Before(a[i], b[i]) /\ \A j \in 1..(i - 1) : a[j] = b[j]

\* A mistake: the number is taken from the instant at which the window opens.
NumberedByStart(type, results) ==
  {[id |-> <<type, 1 + Cardinality({q \in results : q.start < r.start})>>,
    members |-> r.members, refs |-> r.refs, start |-> r.start, end |-> r.end] : r \in results}

\* f"corr-...-{len(results) + 1:06d}"
Numbered(type, results) ==
  {[id |-> <<type, 1 + Cardinality({q \in results : LoopsBefore(q.by, r.by)})>>,
    members |-> r.members, refs |-> r.refs, start |-> r.start, end |-> r.end] : r \in results}

FixedPolicies(ds) ==
  Numbered(AuthChain, AuthThenKeys(ds))
    \cup Numbered(KeyExec, KeyLoginThenExec(ds))
    \cup Numbered(ParentChild, PowershellParentChild(ds))

-----------------------------------------------------------------------------
\* S as a sequence: an element stands after as many as precede it.
InOrder(S, Precedes(_, _)) ==
  [i \in 1..Cardinality(S) |->
     CHOOSE x \in S : Cardinality({y \in S : Precedes(y, x)}) = i - 1]

IdBefore(a, b) == a[1] < b[1] \/ (a[1] = b[1] /\ a[2] < b[2])

\* _correlation_sort_key: start, then type and id
Opens(a, b) == a.start < b.start \/ (a.start = b.start /\ IdBefore(a.id, b.id))

\* validate_correlation_results
ValidCorrelations(cs, ds) ==
  /\ Cardinality({c.id : c \in cs}) = Cardinality(cs)
  /\ \A c \in cs :
       /\ c.members # {} /\ c.members \subseteq ds
       /\ \A d, e \in c.members : d.id = e.id => d = e
       /\ c.refs = UNION {d.refs : d \in c.members}
       /\ c.start <= c.end

FromCorrelation(c) == [id |-> c.id, members |-> c.members, start |-> c.start, end |-> c.end]

\* A mistake: the window is closed one instant late.
FromDetectionHalfOpen(d, n) ==
  [id |-> <<Observed, n>>, members |-> {d},
   start |-> FirstTs(d), end |-> IF d.end # NoTime THEN d.end + 1 ELSE FirstTs(d)]

FromDetection(d, n) ==
  [id |-> <<Observed, n>>, members |-> {d},
   start |-> FirstTs(d), end |-> IF d.end # NoTime THEN d.end ELSE FirstTs(d)]

Covered(cs) == UNION {c.members : c \in cs}

ById(S) == InOrder(S, LAMBDA a, b : a.id < b.id)

CorrelationIncidents(cs) ==
  LET ordered == InOrder(cs, Opens)
  IN [i \in DOMAIN ordered |-> FromCorrelation(ordered[i])]

ObservationIncidents(ds) ==
  LET ordered == ById(ds)
  IN [i \in DOMAIN ordered |-> FromDetection(ordered[i], i)]

Select(cs, ds) == CorrelationIncidents(cs) \o ObservationIncidents(ds \ Covered(cs))

\* _validate_selected_incidents: what is left to check once every incident was
\* compared with the payload built from its source.
SelectionRepresents(incs, cs, ds) ==
  LET represented(S) == UNION {incs[i].members : i \in {j \in DOMAIN incs : incs[j].id[1] \in S}}
  IN /\ IsInjective([i \in DOMAIN incs |-> incs[i].id])
     /\ represented({Observed}) \cap Covered(cs) = {}
     /\ represented({AuthChain, KeyExec, ParentChild}) = Covered(cs)
     /\ UNION {incs[i].members : i \in DOMAIN incs} = ds

\* _unique_ids of the incident list
AsSelected(incs) == [i \in DOMAIN incs |-> incs[i].id]

\* bind_endpoint_events_to_incident: references of a correlation incident that
\* cannot be looked up.  Other references than input[N] leave the list whole,
\* unless they are mixed with input[N].
Unbound(refs) ==
  LET places == {EventAt[r] : r \in refs}
  IN /\ endpoints # NoEvents
     /\ \E p \in places : p # NotInput
     /\ \E p \in places : p = NotInput \/ p >= endpoints

\* build_triage_results_from_incidents and its investigation counterpart work
\* through the incidents in the order of incident_id.
Downstream(incs) ==
  InOrder({incs[i].id : i \in DOMAIN incs}, IdBefore)

\* _validate_composition_bundle
BundleConsistent ==
  LET observations == {i \in DOMAIN incidents : incidents[i].id[1] = Observed}
      ordered == InOrder({incidents[i].id : i \in DOMAIN incidents}, IdBefore)
  IN /\ AsSelected(incidents) =
          AsSelected(CorrelationIncidents(correlations))
            \o [n \in 1..Cardinality(observations) |-> <<Observed, n>>]
     /\ [i \in DOMAIN triages |-> triages[i].incident] = ordered
     /\ [i \in DOMAIN investigations |-> investigations[i].incident] = ordered
     /\ \A i \in DOMAIN investigations :
          \E j \in DOMAIN triages : /\ triages[j].incident = investigations[i].incident
                                    /\ triages[j].triage = investigations[i].triage

-----------------------------------------------------------------------------
\* The first deduplication, then the second one of the incident builder.
DedupeStep ==
  /\ stage \in {"dedupe", "revalidate"}
  /\ \/ \E item \in todo : OpenGroup(item) \/ JoinGroup(item) \/ SplitGroup(item)
     \/ CloseGroup
  /\ UNCHANGED stages

DedupeDone ==
  /\ stage = "dedupe" /\ Finished
  /\ stage' = "correlate"
  /\ UNCHANGED <<vars, endpoints, correlations, incidents, triages, investigations>>

\* run_common_correlation_stage, second half
Correlate ==
  /\ stage = "correlate"
  /\ correlations' = FixedPolicies(merged)
  /\ stage' = IF ValidCorrelations(correlations', merged) THEN "revalidate" ELSE "failed"
  /\ Revalidate
  /\ UNCHANGED <<endpoints, incidents, triages, investigations>>

\* _validate_deduped_canonical_detections, then
\* validate_correlation_results_against_policies
CheckInputs ==
  /\ stage = "revalidate" /\ Judge
  /\ stage' = IF /\ verdict' = "accepted"
                 /\ ValidCorrelations(correlations, given)
                 /\ correlations = FixedPolicies(given)
              THEN "select" ELSE "failed"
  /\ UNCHANGED <<endpoints, correlations, incidents, triages, investigations>>

SelectIncidents ==
  /\ stage = "select"
  /\ LET selected == Select(correlations, given)
     IN IF SelectionRepresents(selected, correlations, given)
        THEN incidents' = selected /\ stage' = "triage"
        ELSE incidents' = incidents /\ stage' = "failed"
  /\ UNCHANGED <<vars, endpoints, correlations, triages, investigations>>

TriageIncidents ==
  /\ stage = "triage"
  /\ LET ids == Downstream(incidents)
     IN triages' = [i \in DOMAIN ids |-> [triage |-> ids[i], incident |-> ids[i]]]
  /\ stage' = "investigate"
  /\ UNCHANGED <<vars, endpoints, correlations, incidents, investigations>>

InvestigateIncidents ==
  /\ stage = "investigate"
  /\ LET ids == Downstream(incidents)
         triageOf(id) == CHOOSE t \in Range(triages) : t.incident = id
         unbound == \E i \in DOMAIN incidents :
                      /\ incidents[i].id[1] # Observed
                      /\ Unbound(UNION {d.refs : d \in incidents[i].members})
     IN IF Range(ids) = {t.incident : t \in Range(triages)} /\ ~unbound
        THEN /\ investigations' =
                  [i \in DOMAIN ids |-> [incident |-> ids[i], triage |-> triageOf(ids[i]).triage]]
             /\ stage' = "compose"
        ELSE investigations' = investigations /\ stage' = "failed"
  /\ UNCHANGED <<vars, endpoints, correlations, incidents, triages>>

Compose ==
  /\ stage = "compose"
  /\ stage' = IF BundleConsistent THEN "done" ELSE "failed"
  /\ UNCHANGED <<vars, endpoints, correlations, incidents, triages, investigations>>

PipelineNext ==
  \/ DedupeStep \/ DedupeDone
  \/ Correlate \/ CheckInputs
  \/ SelectIncidents \/ TriageIncidents \/ InvestigateIncidents \/ Compose

PipelineSpec == PipelineInit /\ [][PipelineNext]_pipelineVars

-----------------------------------------------------------------------------
RawOf(c) == {r \in raw : \E d \in c.members : r.id \in d.refs}

\* No stage refuses what the stage before it produced: each repeats the work of
\* the one before and compares, so one difference in an order, a number or a
\* reference between the two would stop the whole run.  It stops for one cause
\* alone, and then always: the caller handed over endpoint events, and of the raw
\* detections merged into one correlation some name input[N] and one names an
\* event that is not there, or no input[N].
RefusedForEventsOnly ==
  LET missing ==
        \E c \in correlations : \E q, r \in RawOf(c) :
          /\ endpoints # NoEvents /\ EventAt[q.id] # NotInput
          /\ EventAt[r.id] = NotInput \/ EventAt[r.id] >= endpoints
  IN /\ stage = "failed" => missing
     /\ stage \in {"compose", "done"} => ~missing

\* A finished run reports every raw detection: inside correlation incidents, or
\* inside exactly one observation incident, never both and never neither,
\* however deduplication merged it and however correlations overlap.
ReportedOnce ==
  stage = "done" =>
    \A r \in raw :
      LET holders(S) == {i \in DOMAIN incidents :
                           incidents[i].id[1] \in S /\ \E d \in incidents[i].members : r.id \in d.refs}
          observed == Cardinality(holders({Observed}))
      IN observed = IF holders({AuthChain, KeyExec, ParentChild}) = {} THEN 1 ELSE 0

-----------------------------------------------------------------------------
Gap(a, b) == FirstTs(b) - FirstTs(a)

\* A correlation found in the merged detections is one of the raw detections:
\* among those it refers to there is a chain whose hosts, accounts and instants
\* satisfy the policy, although merging moved windows and kept one item's fields.
ChainsAreReal ==
  \A c \in correlations :
    LET timed == {r \in RawOf(c) : Timed(r)}
    IN CASE c.id[1] = AuthChain ->
              \E f, s, k \in timed :
                /\ f.key.artifact = "ssh_failed_login" /\ s.key.artifact = "ssh_success_login"
                /\ k.key.artifact = "authorized_keys_modification"
                /\ <<f.key.host, f.key.user, f.key.src>> = <<s.key.host, s.key.user, s.key.src>>
                /\ k.key.host = s.key.host
                /\ Gap(f, s) \in 0..AuthWindow /\ Gap(s, k) \in 0..PersistenceWindow
         [] c.id[1] = KeyExec ->
              \E l, x \in timed :
                /\ l.key.artifact = "ssh_key_login" /\ x.key.artifact = "process_exec"
                /\ <<l.key.host, l.key.user>> = <<x.key.host, x.key.user>>
                /\ Gap(l, x) \in 0..ExecutionWindow
         [] OTHER ->
              \E p, x, e \in timed :
                /\ e.key.artifact = "encoded_command_observed"
                /\ x.key.proc = e.key.proc /\ FirstTs(x) = FirstTs(e)
                /\ p.key.proc.pid = e.key.proc.ppid
                /\ p.key.proc.event # x.key.proc.event
                /\ <<p.key.host, p.key.user>> = <<e.key.host, e.key.user>>
                /\ <<x.key.host, x.key.user>> = <<e.key.host, e.key.user>>
                /\ Gap(p, e) \in 0..ParentWindow

\* Every chain in the deduplicated detections is found, whichever policy it is
\* of: whenever its detections lie in the windows, ends included, on the same
\* host and account, one correlation holds them all.
ChainsFound ==
  LET timed == {d \in given : Timed(d)}
      held(chain) == \E c \in correlations : chain \subseteq c.members
  IN stage \in {"select", "triage", "investigate", "compose", "done"} =>
       /\ \A f \in With(timed, "ssh_failed_login"), s \in With(timed, "ssh_success_login"),
             k \in With(timed, "authorized_keys_modification") :
            /\ <<f.key.host, f.key.user, f.key.src>> = <<s.key.host, s.key.user, s.key.src>>
            /\ k.key.host = s.key.host
            /\ Gap(f, s) \in 0..AuthWindow /\ Gap(s, k) \in 0..PersistenceWindow
            => held({f, s, k})
       /\ \A l \in With(timed, "ssh_key_login"), x \in With(timed, "process_exec") :
            /\ <<l.key.host, l.key.user>> = <<x.key.host, x.key.user>>
            /\ Gap(l, x) \in 0..ExecutionWindow
            => held({l, x})
       /\ \A p, x \in With(timed, "powershell_process_observed"),
             e \in With(timed, "encoded_command_observed") :
            /\ x.key.proc = e.key.proc /\ FirstTs(x) = FirstTs(e)
            /\ p.key.proc.event # x.key.proc.event /\ p.key.proc.pid = x.key.proc.ppid
            /\ <<x.key.host, x.key.user>> = <<e.key.host, e.key.user>>
            /\ <<p.key.host, p.key.user>> = <<x.key.host, x.key.user>>
            /\ Gap(p, e) \in 0..ParentWindow
            => held({p, x, e})

\* Three policies compute the window of an incident in three ways; it always
\* runs from the first to the last of the detections the incident names.
WindowSpansMembers ==
  \A c \in correlations :
    c.start = Min(Starts(c.members)) /\ c.end = Max(Starts(c.members))
=============================================================================
