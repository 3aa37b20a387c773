------------------------- MODULE LiveSmokeCollector -------------------------
(***************************************************************************)
(* The live smoke runner (scripts/siem/wazuh_indexer_live_smoke.py): it    *)
(* drives execute_wazuh_indexer_query page by page, keeps only pages that  *)
(* agree with each other, and reports a pass only for a complete result.   *)
(***************************************************************************)
EXTENDS WazuhIndexerTransport

CONSTANTS
  Runner,                 \* the runner's process
  Query,                  \* the one bounded request of the run
  MaxPages,               \* MAX_LIVE_SMOKE_PAGES
  RequireMultiplePages    \* --require-multiple-pages

ASSUME CollectorAssumption ==
  /\ Runner \in Caller /\ Query \in Request
  /\ MaxPages \in Nat \ {0} /\ RequireMultiplePages \in BOOLEAN

VARIABLES
  phase,      \* where the run is
  collected,  \* records accumulated over the pages
  pages,      \* len(page_record_counts)
  expected,   \* expected_total, fixed by the first page
  cursor,     \* request["cursor"]
  seen,       \* seen_cursors
  started,    \* history: the index content when the run started
  source      \* history: the PIT the collected records came from

runVars == <<phase, collected, pages, expected, cursor, seen, started, source>>
allVars == <<vars, runVars>>

CollectorTypeOK ==
  /\ TypeOK
  /\ phase \in {"collecting", "collected", "passed", "failed", "crashed"}
  /\ collected \in Seq(Record)
  /\ pages \in 0..MaxPages
  /\ expected \in 0..NumRecords
  /\ cursor \in Cursor \cup {NoCursor}
  /\ seen \in SUBSET Cursor
  /\ started \in SUBSET Record
  /\ source \in PitId \cup {NoPit}

CollectorInit ==
  /\ Init
  /\ phase = "collecting"
  /\ collected = << >>
  /\ pages = 0
  /\ expected = 0
  /\ cursor = NoCursor
  /\ seen = {}
  /\ started = index
  /\ source = NoPit

-----------------------------------------------------------------------------
(* execute_query(request) *)
RequestPage ==
  /\ phase = "collecting"
  /\ pages < MaxPages
  /\ \/ cursor = NoCursor /\ BeginFresh(Runner, Query)
     \/ /\ cursor # NoCursor
        /\ BeginResumed(Runner, Query, cursor) \/ RejectCursor(Runner, Query, cursor)
  /\ UNCHANGED runVars

(* for ... else: the page bound ran out with a cursor in hand *)
PageBoundExceeded ==
  /\ phase = "collecting"
  /\ pc[Runner] = "idle"
  /\ pages = MaxPages
  /\ phase' = "failed"
  /\ UNCHANGED <<vars, collected, pages, expected, cursor, seen, started, source>>

page == result[Runner]
gathered == collected \o page.hits

(* Per-page checks: something returned, not more than asked for, exact. *)
PageUsable ==
  /\ Len(page.hits) >= 1
  /\ page.total >= Len(page.hits)
  /\ Len(page.hits) <= LimitOf[Query]
  /\ page.exact

(* Plausible bugs, used only to show that the properties notice them. *)
AnyTotalAligned == TRUE
LastPageWhole == page.next = NoCursor

(* Later pages must repeat the total of the first.  The fingerprint and    *)
(* the time range are functions of the one request and cannot differ.      *)
PagesAligned == pages > 0 => page.total = expected

GatheredWithinBound ==
  /\ Len(gathered) <= MaxLimit
  /\ Len(gathered) <= page.total

Truncated == ~page.exact \/ ExactMoreResults(Runner, page)

(* Without a cursor the result must be whole ... *)
FinalPageWhole ==
  /\ page.next = NoCursor
  /\ ~Truncated
  /\ Len(gathered) = page.total

(* ... and with one it must be a truncated page to continue from. *)
Continuable ==
  /\ page.next # NoCursor
  /\ page.next \notin seen
  /\ Truncated

PageKept ==
  /\ ~error[Runner]
  /\ PageUsable
  /\ PagesAligned
  /\ GatheredWithinBound
  /\ FinalPageWhole \/ Continuable

(* The page is appended; the run goes on with the new cursor or is whole. *)
KeepPage ==
  /\ phase = "collecting"
  /\ Take(Runner)
  /\ PageKept
  /\ collected' = gathered
  /\ pages' = pages + 1
  /\ expected' = IF pages = 0 THEN page.total ELSE expected
  /\ source' = call[Runner].pit
  /\ cursor' = IF page.next = NoCursor THEN cursor ELSE page.next
  /\ seen' = seen \cup ({page.next} \ {NoCursor})
  /\ phase' = IF page.next = NoCursor THEN "collected" ELSE "collecting"
  /\ UNCHANGED started

RetryOnPage ==
  /\ phase = "collecting"
  /\ Take(Runner)
  /\ ~PageKept
  /\ UNCHANGED runVars

(* Any refused page and any exception of the transport ends the run.  The  *)
(* cursor in hand, if any, is abandoned with its PIT.                      *)
FailOnPage ==
  /\ phase = "collecting"
  /\ Take(Runner)
  /\ ~PageKept
  /\ phase' = "failed"
  /\ UNCHANGED <<collected, pages, expected, cursor, seen, started, source>>

(* run_live_smoke: the page-count requirement and the per-record checks of *)
(* build_live_smoke_summary, whose outcome depends on record content.      *)
Summarise ==
  /\ phase = "collected"
  /\ \/ phase' = "failed"
     \/ /\ RequireMultiplePages => pages >= 2
        /\ phase' = "passed"
  /\ UNCHANGED <<vars, collected, pages, expected, cursor, seen, started, source>>

Die ==
  /\ phase \in {"collecting", "collected"}
  /\ \/ Crash(Runner)
     \/ pc[Runner] = "idle" /\ UNCHANGED vars
  /\ phase' = "crashed"
  /\ UNCHANGED <<collected, pages, expected, cursor, seen, started, source>>

RunStep ==
  \/ RequestPage
  \/ PageBoundExceeded
  \/ CallStep(Runner) /\ UNCHANGED runVars
  \/ KeepPage
  \/ FailOnPage
  \/ Summarise

CollectorNext ==
  \/ IndexerStep /\ UNCHANGED runVars
  \/ RunStep
  \/ Die

CollectorSpec == CollectorInit /\ [][CollectorNext]_allVars

(* Every request ends by an answer or by its timeouts, so the runner never *)
(* waits for ever.                                                         *)
FairCollectorSpec == CollectorSpec /\ WF_allVars(RunStep)

-----------------------------------------------------------------------------
(* Properties *)

Whole == phase \in {"collected", "passed"}

(* A run that is whole has collected exactly the alerts its PIT froze, in  *)
(* the stable order, if the total all its pages agreed on is the true one. *)
WholeIsComplete ==
  Whole /\ expected = Cardinality(Selected(source, Query)) =>
    /\ Ascending(collected)
    /\ {collected[i] : i \in DOMAIN collected} = Selected(source, Query)

(* Pages join up: whatever each response held, the accumulated records     *)
(* stay strictly ordered, free of duplicates, within the cap, and in step  *)
(* with the count and position the cursor carries to the next call.        *)
PagesJoin ==
  /\ Ascending(collected)
  /\ Len(collected) <= MaxLimit
  /\ phase = "collecting" /\ cursor # NoCursor =>
       /\ Len(collected) = cursor.returned
       /\ collected[Len(collected)] = cursor.after

(* The summary's final_page_cleanup_confirmed is hard-coded to true: it is *)
(* so, for a whole run leaves no PIT of its own open.                      *)
WholeLeavesNoPit == Whole => ~IsOpen(source)

(* MAX_LIVE_SMOKE_PAGES can never be what stops a run, since every page    *)
(* kept holds a record and a cursor is only issued below the record cap.   *)
PageBoundNeverReached ==
  MaxPages >= MaxLimit =>
    ~(phase = "collecting" /\ pc[Runner] = "idle" /\ pages = MaxPages)

(* Every run ends, whatever the Indexer answers. *)
RunTerminates == <>(phase \in {"passed", "failed", "crashed"})

(* The run implements the abstract bounded read of one snapshot. *)
Read == INSTANCE BoundedSnapshotRead WITH
  Alert    <- Record,
  Wanted   <- Matches[Query],
  Cap      <- MaxLimit,
  snapshot <- IF source = NoPit THEN {} ELSE Selected(source, Query),
  out      <- collected,
  status   <- CASE phase = "collecting" -> "reading"
                [] phase = "collected"  -> "complete"
                [] phase = "passed"     -> "passed"
                [] OTHER                -> "failed"

ReadsOneSnapshot == Read!Spec
=============================================================================
