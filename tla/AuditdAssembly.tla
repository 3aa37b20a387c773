--------------------------- MODULE AuditdAssembly ---------------------------
(***************************************************************************)
(* From audit records to endpoint events                                   *)
(* (agents/parser-agent/src/auditd_parser.py and                           *)
(* auditd_endpoint_event_converter.py).  The kernel tells one system call  *)
(* in several records; the collector writes them to auditd.log as they     *)
(* arrive: mixed with those of other calls, in any order, some twice, some *)
(* not yet or never.  The parser drops repeats, puts the records of a call *)
(* together and says what happened; the converter says it in the           *)
(* vocabulary of endpoint events.  Lists of events are sets here: their    *)
(* order is not modelled.                                                  *)
(***************************************************************************)
EXTENDS Naturals, Sequences, FiniteSets

CONSTANTS
  Worlds,      \* sets of system calls that may be audited together
  SshNames,    \* path names with ".ssh" or "authorized_keys" in them
  MaxRepeats   \* bound on lines that arrive a second time

None == "none"
LabKeys == {"isl_execve", "isl_tmp_marker", "isl_ssh_persistence"}

\* A system call: where and when it was made, its audit key, its name, whether it
\* succeeded and the paths it touched.  What it did, as the manual of the system
\* calls has it: "content" stands for making or writing a file or directory.
CallNames == {"execve", "open", "open for writing", "creat", "mkdir", "chmod",
              "rename", "renameat2", "unlink", "unlinkat"}
Effect(call) ==
  IF ~call.success THEN None
  ELSE CASE call.name = "execve" -> "ran"
         [] call.name \in {"open for writing", "creat", "mkdir"} -> "content"
         [] call.name = "chmod" -> "attributes"
         [] call.name \in {"rename", "renameat2"} -> "moved"
         [] call.name \in {"unlink", "unlinkat"} -> "removed"
         [] OTHER -> None                 \* open for reading
Changes(call) == Effect(call) \in {"content", "attributes", "moved", "removed"}

\* infer_file_action: what the parser takes a call named so to do to a file; an open
\* counts if its flags allow writing.
FileAction(name) ==
  CASE name = "open for writing" -> "write"
    [] name = "creat" -> "write_create"
    [] name = "mkdir" -> "directory_create"
    [] name = "chmod" -> "attribute_change"
    [] name = "rename" -> "rename"
    [] name = "unlink" -> "delete"
    [] OTHER -> None                      \* renameat2 and unlinkat among them

\* The records the kernel writes of a call.
Record(call, type, path) == [call |-> call, type |-> type, path |-> path]
RecordsOf(call) ==
  {Record(call, type, None) : type \in {"SYSCALL", "PROCTITLE"}}
    \cup {Record(call, "PATH", path) : path \in call.paths}
    \cup IF call.name = "execve" THEN {Record(call, "EXECVE", None)} ELSE {}

\* The kernel numbers the calls of one boot of a host.  A call touches finitely many
\* paths, one that changes a file at least one; unless it removes the file it names
\* its target, in a record of the name it created, else of the one it found.
Named(call, nametype) == {p.name : p \in {q \in call.paths : q.nametype = nametype}}
ASSUME AssemblyAssumption ==
  /\ MaxRepeats \in Nat
  /\ \A world \in Worlds :
       /\ \A c, d \in world :
            <<c.host, c.epoch, c.serial>> = <<d.host, d.epoch, d.serial>> => c = d
       /\ \A call \in world :
            /\ IsFiniteSet(call.paths) /\ call.success \in BOOLEAN /\ call.name \in CallNames
            /\ Changes(call) => call.paths # {}
            /\ Changes(call) /\ Effect(call) # "removed" =>
                 IF Named(call, "CREATE") # {} THEN Named(call, "CREATE") = {call.target}
                                               ELSE Named(call, "NORMAL") = {call.target}

VARIABLES
  calls,      \* the audited system calls
  log,        \* auditd.log, a sequence of records
  repeats,    \* lines that have arrived twice
  phase,      \* "collecting", "parsed" or "converted"
  labOnly,    \* whether the parser keeps lab keys only (--audit-key-prefix isl_)
  events,     \* auditd_events.json
  endpoint    \* endpoint_events.json

vars == <<calls, log, repeats, phase, labOnly, events, endpoint>>

Init ==
  /\ calls \in Worlds /\ log = <<>> /\ repeats = 0 /\ phase = "collecting"
  /\ labOnly = FALSE /\ events = {} /\ endpoint = {}

Arrived == {log[n] : n \in DOMAIN log}

\* A line arrives, for the first time or again.
Deliver ==
  /\ phase = "collecting"
  /\ \E call \in calls : \E record \in RecordsOf(call) :
       /\ log' = Append(log, record)
       /\ IF record \in Arrived THEN repeats < MaxRepeats /\ repeats' = repeats + 1
                                ELSE repeats' = repeats
  /\ UNCHANGED <<calls, phase, labOnly, events, endpoint>>

-----------------------------------------------------------------------------
\* A mistake: repeated lines are kept.
KeptAll == DOMAIN log
\* deduplicate_records: places of the lines that are kept.
Kept == {n \in DOMAIN log : \A m \in 1..(n - 1) : log[m] # log[n]}

\* A mistake: as the parser contract has it, the audit epoch is not looked at.
BySerial(record) == <<record.call.host, record.call.serial>>
GroupKey(record) == <<record.call.host, record.call.epoch, record.call.serial>>
Groups == {{m \in Kept : GroupKey(log[m]) = GroupKey(log[n])} : n \in Kept}

\* The first line of a set of lines, and the lines of one type.
FirstLine(lines) == log[CHOOSE n \in lines : \A m \in lines : n <= m]
OfType(group, type) == {n \in group : log[n].type = type}

ChoosePath(lines) ==
  LET named(nametype) == {n \in lines : log[n].path.nametype = nametype} IN
  IF named("CREATE") # {} THEN FirstLine(named("CREATE")).path.name
  ELSE IF named("NORMAL") # {} THEN FirstLine(named("NORMAL")).path.name
  ELSE FirstLine(lines).path.name

\* infer_event_type, from what the records of the group say.
InferEventType(key, name, changedFile, sshPath) ==
  IF key = "isl_execve" /\ name = "execve" THEN "process_exec"
  ELSE IF key = "isl_ssh_persistence" /\ changedFile /\ sshPath THEN "persistence_file_change"
  ELSE IF (key = "isl_tmp_marker" \/ key \notin LabKeys) /\ changedFile THEN "file_write"
  ELSE "audit_event"

\* normalize_event: without its SYSCALL record a call has no key, name or success.
NormalizeEvent(group) ==
  LET first == FirstLine(group).call
      syscall == OfType(group, "SYSCALL")
      said == IF syscall = {} THEN [key |-> None, name |-> None, success |-> FALSE]
              ELSE FirstLine(syscall).call
      pathLines == OfType(group, "PATH")
      changedFile == said.success /\ pathLines # {} /\ FileAction(said.name) # None
      type == InferEventType(said.key, said.name, changedFile,
                             \E n \in pathLines : log[n].path.name \in SshNames)
  IN [host |-> first.host, epoch |-> first.epoch, serial |-> first.serial,
      key |-> said.key, type |-> type, action |-> FileAction(said.name),
      path |-> IF type \in {"file_write", "persistence_file_change"}
               THEN ChoosePath(pathLines) ELSE None,
      argv |-> OfType(group, "EXECVE") # {}, proctitle |-> OfType(group, "PROCTITLE") # {},
      records |-> Cardinality(group)]

\* parse_auditd_log over whatever is in the file by now.
Parse ==
  /\ phase = "collecting" /\ phase' = "parsed"
  /\ labOnly' \in BOOLEAN
  /\ LET all == {NormalizeEvent(group) : group \in Groups} IN
     events' = {e \in all : labOnly' => e.key \in LabKeys}
  /\ UNCHANGED <<calls, log, repeats, endpoint>>

\* A mistake: event types without a counterpart are taken over.
SameType(type) == type
EndpointType(type) == IF type = "audit_event" THEN "unknown" ELSE type

\* convert_auditd_event; the timestamp is the audit epoch.
ConvertEvent(e) ==
  [event_id |-> <<"auditd", e.host, e.serial>>, host |-> e.host, timestamp |-> e.epoch,
   event_type |-> EndpointType(e.type), file_path |-> e.path, file_action |-> e.action,
   command_line |-> IF e.argv THEN "argv" ELSE IF e.proctitle THEN "proctitle" ELSE None,
   raw_record_count |-> e.records]

Convert ==
  /\ phase = "parsed" /\ phase' = "converted"
  /\ endpoint' = {ConvertEvent(e) : e \in events}
  /\ UNCHANGED <<calls, log, repeats, labOnly, events>>

Next == Deliver \/ Parse \/ Convert
Spec == Init /\ [][Next]_vars

-----------------------------------------------------------------------------
EndpointTypes == {"process_exec", "file_write", "persistence_file_change", "unknown"}

AssemblyTypeOK ==
  /\ calls \in Worlds /\ labOnly \in BOOLEAN /\ repeats \in 0..MaxRepeats
  /\ Arrived \subseteq UNION {RecordsOf(call) : call \in calls}
  /\ phase \in {"collecting", "parsed", "converted"}
  /\ \A e \in endpoint : e.event_type \in EndpointTypes /\ e.raw_record_count \in Nat \ {0}

\* The type of event a call is to be told as, from the two contracts and from what the
\* call did, not from the parser: docs/design/defender/auditd_parser_contract.md,
\* Event Type Mapping, has a row for each lab key, "audit_event" for unknown keys and
\* "avoid over-claiming"; normalized_endpoint_event_contract.md, Common Event Types,
\* keeps writing, deleting and renaming a file apart.
ContractType(call) ==
  CASE call.key = "isl_execve" /\ Effect(call) = "ran" -> "process_exec"
    [] call.key = "isl_tmp_marker" /\ Effect(call) = "content" -> "file_write"
    [] call.key = "isl_tmp_marker" /\ Effect(call) = "moved" -> "file_rename"
    [] call.key = "isl_tmp_marker" /\ Effect(call) = "removed" -> "file_delete"
    [] call.key = "isl_ssh_persistence" /\ Changes(call)
         /\ (\E p \in call.paths : p.name \in SshNames) -> "persistence_file_change"
    [] OTHER -> "unknown"

\* Where the parser departs from the contracts.  It tells too much of an execve that
\* failed, of a change of mode, a move or a removal under isl_tmp_marker, and of any
\* change under an unknown key; calls it has no file action for it does not tell.
Untold(call) == Changes(call) /\ call.name \in {"renameat2", "unlinkat"}
Overtold(call) ==
  IF Untold(call) THEN None
  ELSE CASE call.key = "isl_execve" /\ call.name = "execve" /\ ~call.success -> "process_exec"
         [] call.key = "isl_tmp_marker" /\ Effect(call) \in {"attributes", "moved", "removed"}
              -> "file_write"
         [] call.key \notin LabKeys /\ Changes(call) -> "file_write"
         [] OTHER -> None

IsOf(e, call) == e.host = call.host /\ e.timestamp = call.epoch
                 /\ e.event_id = <<"auditd", call.host, call.serial>>

\* A call whose records have all arrived is told by exactly one endpoint event that
\* counts each record once, in whatever order its lines came, whatever came between
\* them and however often; and unless the call is one of those above, the event has
\* the type the contracts give the call, its target and its arguments
\* (parse_auditd_log, convert_auditd_events).  Of a removal the path may be the
\* directory's: no record of it is preferred.
WholeCallsTold ==
  phase = "converted" =>
    \A call \in calls :
      RecordsOf(call) \subseteq Arrived /\ (labOnly => call.key \in LabKeys) =>
        /\ Cardinality({e \in endpoint : IsOf(e, call)}) = 1
        /\ \A e \in endpoint :
             IsOf(e, call) =>
               /\ e.raw_record_count = Cardinality(RecordsOf(call))
               /\ Overtold(call) = None /\ ~Untold(call) =>
                    /\ e.event_type = ContractType(call)
                    /\ e.event_type \in {"file_write", "persistence_file_change"}
                         /\ Effect(call) # "removed" => e.file_path = call.target
                    /\ e.event_type = "process_exec" => e.command_line = "argv"

\* However many lines are missing, an event claims nothing its call did not do: it
\* has the type the contracts give the call or none (or what the parser is known to
\* tell too much), a path the call touched, arguments only of an execve, and no
\* record too many.
NothingInvented ==
  \A e \in endpoint :
    \E call \in calls :
      /\ IsOf(e, call)
      /\ e.event_type \in {"unknown", ContractType(call), Overtold(call)}
      /\ e.file_path \in {p.name : p \in call.paths} \cup {None}
      /\ e.raw_record_count <= Cardinality(RecordsOf(call))
      /\ e.command_line = "argv" => call.name = "execve"

\* docs/design/defender/normalized_endpoint_event_contract.md: a file_write is "File
\* creation, write, truncate, or content modification"; "File deletion" has a type
\* of its own.
DeletionIsNoWrite ==
  \A e \in endpoint :
    e.event_type = "file_write" => \E call \in calls : IsOf(e, call) /\ call.name # "unlink"
=============================================================================
