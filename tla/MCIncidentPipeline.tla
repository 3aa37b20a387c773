------------------------ MODULE MCIncidentPipeline ------------------------
(* Raw lists drawn from three pools, one per policy, with detections at,   *)
(* just inside and just outside every window, on the wrong account, without *)
(* a timestamp, and close enough to be merged.                             *)
EXTENDS IncidentPipeline

CONSTANTS h, g, u, v, a, b, NoProc, MaxList

K(artifact, host, user, src) ==
  [artifact |-> artifact, host |-> host, user |-> user, src |-> src, proc |-> NoProc]
P(artifact, user, event, pid, ppid) ==
  [artifact |-> artifact, host |-> h, user |-> user, src |-> a,
   proc |-> [event |-> event, pid |-> pid, ppid |-> ppid]]

\* A row of a pool: key, start, end.
AuthPool == <<
  <<K("ssh_failed_login", h, u, a), 0, 0>>,
  <<K("ssh_failed_login", h, u, a), 1, NoTime>>,
  <<K("ssh_failed_login", h, v, a), 1, 1>>,
  <<K("ssh_success_login", h, u, a), 2, 2>>,
  <<K("ssh_success_login", h, u, a), NoTime, 4>>,
  <<K("authorized_keys_modification", h, NoProc, NoProc), 1, 1>>,
  <<K("authorized_keys_modification", h, NoProc, NoProc), 3, 5>>,
  <<K("authorized_keys_modification", h, NoProc, NoProc), 6, 6>>,
  <<K("authorized_keys_modification", g, NoProc, NoProc), 4, 4>>,
  <<K("authorized_keys_modification", h, NoProc, NoProc), NoTime, NoTime>> >>
ExecPool == <<
  <<K("ssh_key_login", h, u, a), 0, 0>>,
  <<K("ssh_key_login", h, u, b), 2, 2>>,
  <<K("ssh_key_login", h, v, a), 2, 2>>,
  <<K("process_exec", h, u, a), 2, 2>>,
  <<K("process_exec", h, u, a), 3, 3>>,
  <<K("process_exec", h, u, a), 5, NoTime>>,
  <<K("ssh_failed_login", h, u, b), 1, 1>>,
  <<K("ssh_success_login", h, u, b), 2, 2>>,
  <<K("authorized_keys_modification", h, NoProc, NoProc), 2, 2>> >>
ProcessPool == <<
  <<P("powershell_process_observed", u, 1, 1, 9), 0, 0>>,
  <<P("powershell_process_observed", u, 2, 1, 9), 1, 1>>,
  <<P("powershell_process_observed", u, 3, 2, 1), 1, 1>>,
  <<P("encoded_command_observed", u, 3, 2, 1), 1, 1>>,
  <<P("powershell_process_observed", u, 4, 3, 1), 3, 3>>,
  <<P("encoded_command_observed", u, 4, 3, 1), 3, NoTime>>,
  <<P("encoded_command_observed", u, 5, 4, 3), NoTime, NoTime>>,
  <<P("powershell_process_observed", v, 6, 1, 9), 1, 1>> >>

Row(pool, i) == Raw(i, pool[i][1], pool[i][2], pool[i][3])
Lists(pool) ==
  {{Row(pool, i) : i \in ids} : ids \in {s \in SUBSET DOMAIN pool : Cardinality(s) <= MaxList}}

MCWorlds == Lists(AuthPool) \cup Lists(ExecPool) \cup Lists(ProcessPool)
MCKey == UNION {{pool[i][1] : i \in DOMAIN pool} : pool \in {AuthPool, ExecPool, ProcessPool}}
MCId == 1..Len(AuthPool)
MCTime == 0..6
\* input[N] names an event by its place; the ninth detection names none.
MCEventAt == [i \in MCId |-> IF i = 9 THEN NotInput ELSE i - 1]
MCHanded == {NoEvents, 5}
\* _window_seconds_for_artifact: 30 s for logins, 120 s for key files
MCGap ==
  [k \in MCKey |-> IF k.artifact = "authorized_keys_modification" THEN 2 ELSE 1]
=============================================================================
