---------------------- MODULE MCInvestigationEvidence ----------------------
(***************************************************************************)
(* Two hosts, two users, two paths.  Timelines with and without a chain,   *)
(* in and out of order; process trees with a grandchild and a loop;        *)
(* endpoint events of which a correlation names all, some or none; logins  *)
(* on both sides of the windows; relevant and irrelevant network records.  *)
(***************************************************************************)
EXTENDS InvestigationEvidence

Web == [host |-> "web", port |-> 80]
Alt == [host |-> "alt", port |-> 8080]
Ev(at, form, path, url) == [at |-> at, form |-> form, path |-> path, url |-> url]
Seen(at, form, path, url, pid, ppid, user) ==
  [at |-> at, form |-> form, path |-> path, url |-> url, pid |-> pid, ppid |-> ppid,
   host |-> "h1", user |-> user]
Tele(at, type, form, path, url, host) ==
  [at |-> at, type |-> type, form |-> form, path |-> path, url |-> url, host |-> host]
Login(at, type, user, src) ==
  [at |-> at, type |-> type, host |-> "h1", user |-> user, src |-> src]

Timelines == {
  <<>>,
  <<Ev(1000, "curl", "p", Web), Ev(1001, "chmod", "p", NoUrl), Ev(1002, "run", "p", NoUrl)>>,
  <<Ev(1000, "wrapped", "p", Web), Ev(1002, "chmod", "p", NoUrl)>>,
  <<Ev(NoTime, "fetch", "p", Alt), Ev(1001, "chmod", "q", NoUrl), Ev(1002, "run", "p", NoUrl)>>,
  <<Ev(1000, "none", Unknown, NoUrl)>>}

Tree == {Seen(1002, "run", "p", NoUrl, 2, 1, "u1"), Seen(1003, "id", Unknown, NoUrl, 3, 2, "u1"),
         Seen(1003, "run", "q", NoUrl, 4, 3, "u1"), Seen(1004, "id", Unknown, NoUrl, 2, 4, "u1")}
Around == {Seen(1000, "curl", "p", Web, NoPid, NoPid, "u1"),
           Seen(881, "id", Unknown, NoUrl, 6, 1, "u1"), Seen(882, "fetch", "q", Alt, 7, 1, "u1"),
           Seen(1182, "fetch", "q", Alt, 8, 1, "u1"), Seen(1183, "run", "q", NoUrl, 9, 1, "u1"),
           Seen(1002, "run", "p", NoUrl, 5, 1, "u1")}
Foreign == {Seen(1002, "run", "p", NoUrl, 1, 9, "u2"), Seen(1001, "fetch", "q", Alt, 8, 1, "u2")}
Processes == {{}, Tree, Around, Foreign, Tree \cup Around, Tree \cup Foreign}

Chain(host) == <<Tele(1000, "process_exec", "curl", "p", Web, host),
                 Tele(1001, "process_exec", "chmod", "p", NoUrl, host),
                 Tele(1002, "process_exec", "run", "p", NoUrl, host)>>
Refs(endpoint, correlated, refs, foreign) ==
  [given |-> TRUE, endpoint |-> endpoint, correlated |-> correlated, refs |-> refs,
   foreign |-> foreign]
Endpoint == {
  [Refs(<<>>, TRUE, <<1>>, FALSE) EXCEPT !.given = FALSE],
  Refs(<<>>, TRUE, <<1>>, FALSE),
  Refs(Chain("h1"), FALSE, <<>>, FALSE),
  Refs(Chain("h1"), TRUE, <<1, 3>>, FALSE),
  Refs(Chain("h2") \o Chain("h1"), TRUE, <<4, 5, 6>>, FALSE),
  Refs(Chain("h1"), TRUE, <<4>>, FALSE),
  Refs(Chain("h1"), TRUE, <<1>>, TRUE),
  Refs(Chain("h2"), TRUE, <<>>, TRUE),
  Refs(<<Tele(1000, "process_exec", "wrapped", "p", Web, "h1"),
         Tele(1001, "process_exec", "script", "p", Web, "h1"), Chain("h2")[1]>>, TRUE, <<1, 2>>, FALSE),
  Refs(<<Tele(1000, "process_exec", "fetch", "p", Web, "h1"), Chain("h1")[3]>>, TRUE, <<2, 1>>, FALSE),
  Refs(<<Chain("h1")[3], Chain("h1")[2], Tele(NoTime, "file_write", "none", "p", NoUrl, "h1")>>,
       TRUE, <<1, 2, 3>>, FALSE)}

Logins == {
  {},
  {Login(700, "ssh_key_login", "u1", "web"), Login(699, "ssh_key_login", "u1", "alt")},
  {Login(400, "ssh_failed_login", "u1", "web"), Login(820, "ssh_success_login", "u1", "web"),
   Login(700, "ssh_key_login", "u2", "web")},
  {Login(1002, "ssh_failed_login", "u1", "alt"), Login(820, "ssh_success_login", "u1", "web"),
   Login(1182, "ssh_publickey_login", "u1", "web")}}

Networks == {{}, {[http |-> FALSE, net |-> {Web}]},
             {[http |-> FALSE, net |-> {Alt}], [http |-> TRUE, net |-> {[host |-> "x", port |-> 1]}]}}
Alert(host, kind, target) == [host |-> host, kind |-> kind, target |-> target]
Wazuhs == {
  [fim |-> {}, sudo |-> {}],
  [fim |-> {Alert("h1", "syscheck", "authorized_keys")}, sudo |-> {Alert("h1", "sudo", "other")}],
  [fim |-> {Alert("h1", "syscheck", "other"), Alert("h2", "syscheck", "authorized_keys")},
   sudo |-> {Alert("h1", "sudo", "cron"), Alert("h2", "sudo", "cron")}]}
Audits == {{}, {[host |-> "h1", key |-> TRUE, type |-> "process_exec", what |-> "curl"],
                [host |-> "h1", key |-> FALSE, type |-> "file_write", what |-> "p"]}}
OtherAudits == {{[host |-> "h2", key |-> TRUE, type |-> "process_exec", what |-> "curl"]}}

Mark == <<Ev(1000, "none", Unknown, NoUrl)>>
NoWazuh == [fim |-> {}, sudo |-> {}]

InputOf(t, p, e, a, h, l, z, w, c) ==
  [timeline |-> t, process |-> p, given |-> e.given, endpoint |-> e.endpoint, correlated |-> e.correlated,
   refs |-> e.refs, foreignRefs |-> e.foreign, auditd |-> a, hits |-> h, auth |-> l, zeek |-> z,
   fim |-> w.fim, sudo |-> w.sudo, archive |-> c, host |-> "h1", user |-> "u1",
   start |-> 1000, end |-> 1002]

\* The telemetry sources vary together, then the records around them; rule hits,
\* archive incidents and audit events come with a bare timeline.
MCInputs ==
  {InputOf(t, p, e, {}, FALSE, {}, z, NoWazuh, FALSE) :
     t \in Timelines, p \in Processes, e \in Endpoint, z \in Networks}
  \cup {InputOf(t, p, e, {}, FALSE, l, {}, w, FALSE) :
     t \in Timelines, p \in Processes, e \in Endpoint, l \in Logins, w \in Wazuhs}
  \cup {InputOf(Mark, p, e, a, c = "hits", l, z, NoWazuh, c = "archive") :
     p \in {{}, Tree}, e \in Endpoint, a \in Audits, c \in {"hits", "archive"},
     l \in Logins, z \in Networks}
MCOtherHosts ==
  {InputOf(t, {}, e, a, FALSE, {}, z, NoWazuh, FALSE) :
     t \in Timelines, e \in Endpoint, a \in OtherAudits, z \in Networks}
=============================================================================
