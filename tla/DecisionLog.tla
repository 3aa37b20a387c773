---------------------------- MODULE DecisionLog ----------------------------
(***************************************************************************)
(* The triage result and the decision log of one run directory             *)
(* (agents/ai-triage-agent/src/main.py main, common/decision_log.py        *)
(* append_decision_log): every invocation of the triage agent writes       *)
(* triage_result.json, then reads the whole log, truncates it and dumps it *)
(* back with its entry added.  No file is locked and none is replaced      *)
(* atomically; an invocation may die anywhere.                             *)
(***************************************************************************)
EXTENDS Naturals, Sequences

CONSTANT Runs  \* invocations with the same --run-id

VARIABLES
  pc,          \* where each invocation is
  copy,        \* the log each invocation has read ("data")
  result,      \* triage_result.json: state of the text, and whose it is
  log,         \* decision_log.json: state of the text, and its entries
  written,     \* invocations that have written their result to the end
  overlapped   \* whether one ever started while another was at work

vars == <<pc, copy, result, log, written, overlapped>>

Idle == "idle"
Working == {"asking", "result", "append", "open", "dump"}
Texts == {"absent", "empty", "garbled", "whole"}   \* only "whole" is JSON
Nobody == "nobody"

TypeOK ==
  /\ pc \in [Runs -> {Idle, "done", "stopped"} \cup Working]
  /\ copy \in [Runs -> Seq(Runs)]
  /\ result \in [text : Texts, by : Runs \cup {Nobody}]
  /\ log \in [text : Texts, entries : Seq(Runs)]
  /\ written \subseteq Runs
  /\ overlapped \in BOOLEAN

Init ==
  /\ pc = [r \in Runs |-> Idle] /\ copy = [r \in Runs |-> <<>>]
  /\ result = [text |-> "absent", by |-> Nobody]
  /\ log = [text |-> "absent", entries |-> <<>>]
  /\ written = {} /\ overlapped = FALSE

Goto(r, label) == pc' = [pc EXCEPT ![r] = label]

\* What a dump at the start of the file leaves there: another writer may have
\* filled the file since this one truncated it, and a longer text shows behind.
Dumped(file) == IF file.text = "empty" THEN {"whole"} ELSE {"whole", "garbled"}

Start(r) ==
  /\ pc[r] = Idle
  /\ overlapped' = (overlapped \/ \E o \in Runs : pc[o] \in Working)
  /\ Goto(r, "asking") /\ UNCHANGED <<copy, result, log, written>>

\* The model's answer is not usable: nothing is written.
ModelFails(r) ==
  /\ pc[r] = "asking" /\ Goto(r, "stopped")
  /\ UNCHANGED <<copy, result, log, written, overlapped>>

OpenResult(r) ==
  /\ pc[r] = "asking" /\ Goto(r, "result")
  /\ result' = [text |-> "empty", by |-> Nobody]
  /\ UNCHANGED <<copy, log, written, overlapped>>

DumpResult(r) ==
  /\ pc[r] = "result" /\ Goto(r, "append")
  /\ \E text \in Dumped(result) : result' = [text |-> text, by |-> r]
  /\ written' = written \cup {r}
  /\ UNCHANGED <<copy, log, overlapped>>

\* A mistake: the entry is appended before the result is written.
LogsFirst(r) ==
  /\ pc[r] = "asking"
  /\ IF log.text \in {"absent", "whole"}
     THEN Goto(r, "open") /\ copy' = [copy EXCEPT ![r] = log.entries]
     ELSE Goto(r, "stopped") /\ copy' = copy
  /\ UNCHANGED <<result, log, written, overlapped>>
\* A mistake: a log that does not exist is read as null.
ReadsNull(r) ==
  /\ pc[r] = "append" /\ Goto(r, "open")
  /\ copy' = [copy EXCEPT ![r] = IF log.text = "whole" THEN log.entries ELSE "null"]
  /\ UNCHANGED <<result, log, written, overlapped>>
\* A mistake: a log that cannot be read is started again.
ReadsAnyLog(r) ==
  /\ pc[r] = "append" /\ Goto(r, "open")
  /\ copy' = [copy EXCEPT ![r] = IF log.text = "whole" THEN log.entries ELSE <<>>]
  /\ UNCHANGED <<result, log, written, overlapped>>

\* json.load raises on a text that is no JSON.
ReadLog(r) ==
  /\ pc[r] = "append"
  /\ IF log.text \in {"absent", "whole"}
     THEN Goto(r, "open") /\ copy' = [copy EXCEPT ![r] = log.entries]
     ELSE Goto(r, "stopped") /\ copy' = copy
  /\ UNCHANGED <<result, log, written, overlapped>>

OpenLog(r) ==
  /\ pc[r] = "open" /\ Goto(r, "dump")
  /\ log' = [text |-> "empty", entries |-> <<>>]
  /\ UNCHANGED <<copy, result, written, overlapped>>

DumpLog(r) ==
  /\ pc[r] = "dump" /\ Goto(r, "done")
  /\ \E text \in Dumped(log) :
       log' = [text |-> text,
               entries |-> IF text = "whole" THEN Append(copy[r], r) ELSE <<>>]
  /\ UNCHANGED <<copy, result, written, overlapped>>

\* The process dies; what it had not flushed is lost.
Crash(r) ==
  /\ pc[r] \in Working /\ Goto(r, "stopped")
  /\ UNCHANGED <<copy, result, log, written, overlapped>>

Next ==
  \E r \in Runs :
    \/ Start(r) \/ ModelFails(r) \/ OpenResult(r) \/ DumpResult(r)
    \/ ReadLog(r) \/ OpenLog(r) \/ DumpLog(r) \/ Crash(r)

Spec == Init /\ [][Next]_vars

-----------------------------------------------------------------------------
Logged == {log.entries[n] : n \in DOMAIN log.entries}
Done == {r \in Runs : pc[r] = "done"}

\* The log never holds a decision whose result was never written to the end,
\* whatever dies and whoever overlaps.
EntryHasResult == Logged \subseteq written

\* While no two invocations overlap, a log that can be read lacks nobody: a
\* crash costs either nothing or the whole text, never a single decision, and a
\* lost log is not started again: later invocations stop at it.
ReadableLogIsComplete ==
  ~overlapped /\ log.text \in {"absent", "whole"} => Done \subseteq Logged
=============================================================================
