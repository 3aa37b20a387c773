------------------------- MODULE BoundedSnapshotRead -------------------------
(***************************************************************************)
(* What the live smoke runner promises about the alerts it reports: they   *)
(* are read from one frozen content of a growing index, in the registered  *)
(* stable order, never more than Cap of them, and a run that passes has    *)
(* read all of that content.  A run may give up at any moment.  Pages,     *)
(* PITs, cursors, clocks and failures are nobody's business here.          *)
(***************************************************************************)
EXTENDS Integers, Sequences

CONSTANTS
  Alert,     \* alerts, as ranks in the stable order
  Wanted,    \* those the request selects
  Cap        \* most alerts one run may report

VARIABLES
  index,     \* alerts in the live index
  started,   \* the index content when the run started
  snapshot,  \* the content the run reads
  out,       \* alerts reported so far
  status

readVars == <<index, started, snapshot, out, status>>

Init ==
  /\ index \in SUBSET Alert
  /\ started = index
  /\ snapshot = {}
  /\ out = << >>
  /\ status = "reading"

Grow ==
  /\ \E a \in Alert \ index : index' = index \cup {a}
  /\ UNCHANGED <<started, snapshot, out, status>>

Reported(s) == {s[i] : i \in DOMAIN s}

InOrder(s) == \A i, j \in DOMAIN s : i < j => s[i] < s[j]

(* The first page fixes the content read: nothing that was there at the    *)
(* start is missing from it, nothing that is not there yet is in it.       *)
Freeze(S) ==
  IF out = << >>
  THEN started \cap Wanted \subseteq S /\ S \subseteq index \cap Wanted
  ELSE S = snapshot

Extend ==
  /\ status = "reading"
  /\ \E S \in SUBSET Alert, n \in 1..Cap : \E page \in [1..n -> S] :
       /\ Freeze(S)
       /\ snapshot' = S
       /\ out' = out \o page
  /\ InOrder(out')
  /\ Len(out') <= Cap
  /\ status' \in {"reading", "complete"}
  /\ status' = "complete" => Reported(out') = snapshot'
  /\ UNCHANGED <<index, started>>

Pass ==
  /\ status = "complete"
  /\ status' = "passed"
  /\ UNCHANGED <<index, started, snapshot, out>>

GiveUp ==
  /\ status \in {"reading", "complete"}
  /\ status' = "failed"
  /\ UNCHANGED <<index, started, snapshot, out>>

Next == Grow \/ Extend \/ Pass \/ GiveUp

Spec == Init /\ [][Next]_readVars
=============================================================================
