---------------------- MODULE LiveSmokeCollectorProofs ----------------------
(***************************************************************************)
(* Proofs about LiveSmokeCollector, for any cap, page size, page bound and *)
(* number of alerts, and an Indexer that may order, skip and miscount hits *)
(* as it likes (ReadsSnapshot alone needs exact totals to be true ones).   *)
(*                                                                         *)
(* Every step of the run is an AnyNext step of the transport, so IInv of   *)
(* WazuhIndexerTransportProofs carries over.  RunInv adds what the runner  *)
(* knows: that the call under way reads on from where the collected        *)
(* records end (Linked), and what was collected so far (Gathered).         *)
(***************************************************************************)
EXTENDS LiveSmokeCollector, WazuhIndexerTransportProofs

(* The cursor in a result is the one after its last hit. *)
NextRight(c) ==
  PagePassed(c) /\ result[c].next # NoCursor =>
    /\ result[c].next = NextCursor(c, result[c])
    /\ Cumulative(c, result[c].hits) < MaxLimit

(* Exact totals are passed on unchanged. *)
TotalRight(c) ==
  /\ reply[c].kind = "page" /\ reply[c].complete /\ reply[c].exact =>
       reply[c].total = TrueTotal(c)
  /\ PagePassed(c) /\ result[c].exact => result[c].total = TrueTotal(c)

(* A call that reads, or has read, a page. *)
OnCourse == pc[Runner] \in {"create", "search"} \/ PagePassed(Runner)

(* The call under way starts where the collected records end. *)
Linked ==
  /\ pc[Runner] # "idle" => pages < MaxPages
  /\ OnCourse => call[Runner].request = Query
  /\ cursor = NoCursor =>
       /\ pages = 0 /\ collected = << >> /\ source = NoPit
       /\ OnCourse => call[Runner].after = 0 /\ call[Runner].returned = 0
  /\ cursor # NoCursor =>
       /\ pages > 0 /\ pc[Runner] # "create"
       /\ cursor.request = Query /\ cursor.pit = source
       /\ cursor.returned = Len(collected) /\ Len(collected) < MaxLimit
       /\ cursor.after = collected[Len(collected)]
       /\ OnCourse => /\ call[Runner].pit = source
                      /\ call[Runner].after = cursor.after
                      /\ call[Runner].returned = cursor.returned

(* The collected records, in order, are of one PIT. *)
Gathered ==
  /\ Ascending(collected)
  /\ Len(collected) <= MaxLimit
  /\ pages <= Len(collected)
  /\ pages = 0 => collected = << >>
  /\ source = NoPit => collected = << >>
  /\ source # NoPit =>
       /\ Known(source)
       /\ \A i \in DOMAIN collected : collected[i] \in Selected(source, Query)

(* What a whole run has established. *)
Completed ==
  /\ source # NoPit
  /\ ~IsOpen(source)
  /\ Len(collected) = expected
  /\ ExactTotals => expected = Cardinality(Selected(source, Query))

(* A PIT opened since the run started holds what was there at the start. *)
Frozen ==
  /\ started \subseteq index
  /\ \A p \in PitId : Known(p) => /\ started \subseteq pits[p].snapshot
                                  /\ pits[p].snapshot \subseteq index

RunInv ==
  /\ IInv
  /\ CollectorTypeOK
  /\ NextRight(Runner)
  /\ ExactTotals => TotalRight(Runner)
  /\ phase = "collecting" => Linked
  /\ Gathered
  /\ Whole => Completed
  /\ Frozen

-----------------------------------------------------------------------------
(* The run only takes steps the transport knows. *)

RunnerNext ==
  IndexerStep \/ AnyBegin(Runner) \/ CallStep(Runner) \/ Take(Runner) \/ Crash(Runner)

LEMMA RunsTransport ==
  ASSUME CollectorTypeOK, [CollectorNext]_allVars
  PROVE  [RunnerNext]_vars
<1>1. CASE RequestPage
  <2>1. Query \in Request /\ (cursor # NoCursor => cursor \in Cursor)
    BY CollectorAssumption DEF CollectorTypeOK
  <2>. QED  BY <1>1, <2>1 DEF RequestPage, AnyBegin, RunnerNext
<1>2. CASE UNCHANGED allVars
  BY <1>2 DEF allVars
<1>3. CASE CollectorNext /\ ~RequestPage
  BY <1>3 DEF CollectorNext, RunStep, RunnerNext, PageBoundExceeded, KeepPage,
     FailOnPage, Summarise, Die, vars
<1>. QED  BY <1>1, <1>2, <1>3

LEMMA RunnerIsCaller == [RunnerNext]_vars => [AnyNext]_vars
BY CollectorAssumption DEF RunnerNext, AnyNext

(* What a step does to the call of the runner, seen from its fields. *)
LEMMA NextRightKept ==
  ASSUME IInv, [RunnerNext]_vars, NextRight(Runner)
  PROVE  NextRight(Runner)'
<1>. DEFINE c == Runner
<1>. USE DEF IInv, TypeOK
<1>1. PICK k : k = call[c]
  OBVIOUS
<1>2. PICK r : r = result[c]
  OBVIOUS
<1>3. ASSUME pc'[c] = pc[c], error'[c] = error[c], result'[c] = r,
             call'[c].request = k.request, call'[c].pit = k.pit,
             call'[c].returned = k.returned
      PROVE  NextRight(c)'
  BY <1>1, <1>2, <1>3 DEF NextRight, PagePassed, NextCursor, Cumulative
<1>4. ASSUME pc'[c] \in {"idle", "create", "search"} \/ error'[c] = TRUE
      PROVE  NextRight(c)'
  BY <1>4 DEF NextRight, PagePassed
<1>5. CASE UNCHANGED vars
  BY <1>1, <1>2, <1>3, <1>5 DEF vars
<1>6. CASE IndexerStep
  <2>1. CASE Tick
    BY <1>1, <1>2, <1>3, <2>1, CollectorAssumption DEF Tick, Call
  <2>2. CASE UNCHANGED callVars
    BY <1>1, <1>2, <1>3, <2>2 DEF callVars
  <2>. QED  BY <1>6, <2>1, <2>2 DEF IndexerStep, ServeLate, callVars
<1>7. CASE AnyBegin(c)
  BY <1>4, <1>7, CollectorAssumption DEF AnyBegin, BeginFresh, BeginResumed, RejectCursor, Start
<1>8. CASE (\E p \in PitId : ServeCreate(c, p)) \/ ServeSearch(c) \/ ServeDelete(c)
  BY <1>1, <1>2, <1>3, <1>8 DEF ServeCreate, ServeSearch, ServeDelete
<1>9. CASE HandleCreate(c) \/ PageRejected(c) \/ RequestFails(c) \/ Take(c) \/ Crash(c)
  BY <1>4, <1>9, CollectorAssumption
  DEF HandleCreate, PageRejected, RequestFails, Take, Crash, Forget
<1>10. CASE PageWithCursor(c)
  <2>1. PICK h : h = reply[c]
    OBVIOUS
  <2>2. /\ result'[c].hits = h.hits /\ result'[c].next = NextCursor(c, h)
        /\ call'[c] = k /\ Cumulative(c, h.hits) < MaxLimit
    BY <1>1, <1>10, <2>1, CollectorAssumption DEF PageWithCursor, Parsed, IssuesCursor
  <2>. QED  BY <1>1, <2>2 DEF NextRight, NextCursor, Cumulative
<1>11. CASE PageWithoutCursor(c)
  BY <1>11, CollectorAssumption DEF PageWithoutCursor, Parsed, NextRight
<1>12. CASE HandleDelete(c)
  <2>1. CASE error'[c] = TRUE
    BY <1>4, <2>1
  <2>2. CASE error' = error /\ result' = result
    <3>1. /\ pc[c] = "delete" /\ pc'[c] = "return" /\ call'[c] = k /\ result'[c] = r
      BY <1>1, <1>2, <1>12, <2>2, CollectorAssumption DEF HandleDelete, Phases
    <3>. QED  BY <1>1, <1>2, <2>2, <3>1 DEF NextRight, PagePassed, NextCursor, Cumulative
  <2>. QED  BY <1>12, <2>1, <2>2, CollectorAssumption DEF HandleDelete
<1>. QED  BY <1>5, <1>6, <1>7, <1>8, <1>9, <1>10, <1>11, <1>12 DEF RunnerNext, CallStep

LEMMA TotalRightKept ==
  ASSUME IInv, [RunnerNext]_vars, TotalRight(Runner), ExactTotals
  PROVE  TotalRight(Runner)'
<1>. DEFINE c == Runner
<1>. USE CollectorAssumption DEF IInv, TypeOK
<1>1. PICK k : k = call[c]
  OBVIOUS
<1>2. PICK r : r = result[c]
  OBVIOUS
<1>3. PICK m : m = reply[c]
  OBVIOUS
<1>4. TrueTotal(c) = Cardinality(Selected(k.pit, k.request))
  BY <1>1 DEF TrueTotal
<1>5. ASSUME HasPit(c), call'[c].pit = k.pit, call'[c].request = k.request
      PROVE  TrueTotal(c)' = TrueTotal(c)
  <2>1. k.pit \in PitId /\ Known(k.pit)
    BY <1>1, <1>5 DEF CallInv
  <2>2. Selected(k.pit, k.request)' = Selected(k.pit, k.request)
    BY <2>1, PitFrame, SameContent, RunnerIsCaller
  <2>. QED  BY <1>4, <1>5, <2>2 DEF TrueTotal
<1>6. (m.kind = "page" \/ PagePassed(c)) => HasPit(c)
  BY <1>3 DEF Phases, HasPit, PagePassed, Succeeded
<1>7. ASSUME pc'[c] = pc[c], error'[c] = error[c], result'[c] = r, reply'[c] = m,
             call'[c].request = k.request, call'[c].pit = k.pit
      PROVE  TotalRight(c)'
  <2>1. PagePassed(c)' = PagePassed(c)
    BY <1>7 DEF PagePassed
  <2>. QED  BY <1>2, <1>3, <1>5, <1>6, <1>7, <2>1 DEF TotalRight
<1>8. ASSUME reply'[c].kind = "none",
             pc'[c] \in {"idle", "create", "search"} \/ error'[c] = TRUE
      PROVE  TotalRight(c)'
  BY <1>8 DEF TotalRight, PagePassed
<1>9. CASE UNCHANGED vars
  BY <1>1, <1>2, <1>3, <1>7, <1>9 DEF vars
<1>10. CASE IndexerStep
  <2>1. CASE Tick
    BY <1>1, <1>2, <1>3, <1>7, <2>1 DEF Tick, Call
  <2>2. CASE UNCHANGED callVars
    BY <1>1, <1>2, <1>3, <1>7, <2>2 DEF callVars
  <2>. QED  BY <1>10, <2>1, <2>2 DEF IndexerStep, ServeLate, callVars
<1>11. CASE AnyBegin(c)
  <2>1. reply' = reply /\ pc[c] = "idle"
    BY <1>11 DEF AnyBegin, BeginFresh, BeginResumed, RejectCursor, Start
  <2>2. reply'[c].kind \notin {"created", "page", "deleted"}
    BY <2>1 DEF Phases
  <2>3. pc'[c] \in {"create", "search"} \/ error'[c] = TRUE
    BY <1>11 DEF AnyBegin, BeginFresh, BeginResumed, RejectCursor, Start
  <2>. QED  BY <2>2, <2>3 DEF TotalRight, PagePassed
<1>12. CASE (\E p \in PitId : ServeCreate(c, p)) \/ ServeDelete(c)
  <2>1. /\ pc'[c] = pc[c] /\ error'[c] = error[c] /\ result'[c] = r /\ call'[c] = k
        /\ reply'[c].kind # "page"
    BY <1>1, <1>2, <1>12 DEF ServeCreate, ServeDelete, Created, Deleted
  <2>2. PagePassed(c)' = PagePassed(c)
    BY <2>1 DEF PagePassed
  <2>. QED  BY <1>2, <1>5, <1>6, <2>1, <2>2 DEF TotalRight
<1>13. CASE ServeSearch(c)
  <2>1. /\ pc[c] = "search" /\ pc'[c] = "search" /\ call'[c] = k
    BY <1>1, <1>13 DEF ServeSearch, AwaitsReply
  <2>2. TrueTotal(c)' = TrueTotal(c)
    BY <1>5, <2>1 DEF HasPit
  <2>3. PICK x, e, n, s : /\ reply'[c] = Page(x, e, n, s)
                          /\ x = FALSE \/ e = FALSE \/ n = TrueTotal(c)
    <3>. HIDE DEF IInv, TypeOK
    <3>1. reply \in [Caller -> Reply] /\ c \in Caller
      BY DEF IInv, TypeOK
    <3>2. CASE reply' = [reply EXCEPT ![c] = Page(FALSE, TRUE, 0, << >>)]
      BY <3>1, <3>2
    <3>3. CASE \E s \in HitsFor(c) : reply' = [reply EXCEPT ![c] = Page(TRUE, FALSE, 0, s)]
      BY <3>1, <3>3
    <3>4. CASE \E s \in HitsFor(c), n \in TotalsFor(c) :
                 reply' = [reply EXCEPT ![c] = Page(TRUE, TRUE, n, s)]
      <4>1. PICK s \in HitsFor(c), n \in TotalsFor(c) :
              reply' = [reply EXCEPT ![c] = Page(TRUE, TRUE, n, s)]
        BY <3>4
      <4>2. n = TrueTotal(c)
        BY DEF TotalsFor, TrueTotal
      <4>. QED  BY <3>1, <4>1, <4>2
    <3>. QED  BY <1>13, <3>2, <3>3, <3>4 DEF ServeSearch
  <2>4. Page(x, e, n, s).complete = x /\ Page(x, e, n, s).exact = e
        /\ Page(x, e, n, s).total = n
    BY DEF Page
  <2>5. ~PagePassed(c)'
    BY <2>1 DEF PagePassed
  <2>6. (reply[c].complete /\ reply[c].exact => reply[c].total = TrueTotal(c))'
    <3>1. x /\ e => n = TrueTotal(c)
      BY <2>3
    <3>2. reply'[c].complete = x /\ reply'[c].exact = e /\ reply'[c].total = n
      BY <2>3, <2>4
    <3>. QED  BY <2>2, <3>1, <3>2
  <2>. QED  BY <2>5, <2>6 DEF TotalRight
<1>14. CASE HandleCreate(c) \/ PageRejected(c) \/ RequestFails(c) \/ Take(c) \/ Crash(c)
  <2>1. reply'[c] = NoReply /\ NoReply.kind = "none"
    BY <1>14 DEF HandleCreate, PageRejected, RequestFails, Take, Crash, Forget, NoReply
  <2>2. pc'[c] \in {"idle", "create", "search"} \/ error'[c] = TRUE
    BY <1>14 DEF HandleCreate, PageRejected, RequestFails, Take, Crash, Forget
  <2>. QED  BY <1>8, <2>1, <2>2
<1>15. CASE PageWithCursor(c) \/ PageWithoutCursor(c)
  <2>1. /\ m.kind = "page" /\ m.complete /\ reply'[c].kind = "none"
        /\ result'[c].exact = m.exact /\ result'[c].total = m.total /\ call'[c] = k
    BY <1>1, <1>3, <1>15
    DEF PageWithCursor, PageWithoutCursor, Parsed, PageAccepted, NoReply
  <2>. QED  BY <1>3, <1>5, <1>6, <2>1 DEF TotalRight
<1>16. CASE HandleDelete(c)
  <2>1. reply'[c].kind = "none" /\ pc[c] = "delete" /\ call'[c] = k
    BY <1>1, <1>16 DEF HandleDelete, Phases, NoReply
  <2>2. CASE error'[c] = TRUE
    BY <1>8, <2>1, <2>2
  <2>3. CASE error' = error /\ result' = result
    BY <1>2, <1>5, <1>6, <2>1, <2>3 DEF TotalRight, PagePassed
  <2>. QED  BY <1>16, <2>2, <2>3 DEF HandleDelete
<1>. QED
  BY <1>9, <1>10, <1>11, <1>12, <1>13, <1>14, <1>15, <1>16 DEF RunnerNext, CallStep

(* The index only grows, and a PIT freezes it at the moment it is opened. *)
LEMMA FrozenKept ==
  ASSUME IInv, [RunnerNext]_vars, started' = started, Frozen
  PROVE  Frozen'
<1>. USE DEF IInv, TypeOK, IndexerTypeOK
<1>1. ASSUME index \subseteq index', 
             \A p \in PitId : Known(p)' /\ ~Known(p) => pits'[p].snapshot = index
      PROVE  Frozen'
  <2>1. started' \subseteq index'
    BY <1>1 DEF Frozen
  <2>2. ASSUME NEW p \in PitId, Known(p)'
        PROVE  started' \subseteq pits'[p].snapshot /\ pits'[p].snapshot \subseteq index'
    <3>1. CASE Known(p)
      BY <1>1, <3>1, PitFrame, RunnerIsCaller DEF Frozen
    <3>2. CASE ~Known(p)
      BY <1>1, <2>2, <3>2 DEF Frozen
    <3>. QED  BY <3>1, <3>2
  <2>. QED  BY <2>1, <2>2 DEF Frozen
<1>2. ASSUME index' = index, pits' = pits
      PROVE  Frozen'
  BY <1>1, <1>2 DEF Known
<1>3. ASSUME index' = index, NEW q \in PitId, OpenPit(q)
      PROVE  Frozen'
  BY <1>1, <1>3 DEF OpenPit, Known
<1>4. ASSUME index' = index, NEW q \in PitId, Known(q), TouchPit(q) \/ DeletePit(q) \/ Reap(q)
      PROVE  Frozen'
  BY <1>1, <1>4 DEF TouchPit, DeletePit, Reap, Known
<1>5. CASE UNCHANGED vars
  BY <1>2, <1>5 DEF vars
<1>6. CASE IndexerStep
  <2>1. CASE \E r \in Record : Ingest(r) /\ UNCHANGED <<callVars, life, late>>
    BY <1>1, <2>1 DEF Ingest, Known
  <2>2. CASE \E p \in PitId : Reap(p) /\ UNCHANGED <<callVars, life, late>>
    BY <1>4, <2>2 DEF Reap, IsOpen, Known
  <2>3. CASE Tick
    <3>1. \A p \in PitId : pits'[p].state = pits[p].state
      BY <2>3 DEF Tick, AgePits, Pit
    <3>. QED  BY <1>1, <2>3, <3>1 DEF Tick, Known
  <2>4. ASSUME NEW m \in late, ServeLate(m)
        PROVE  Frozen'
    <3>1. index' = index
      BY <2>4 DEF ServeLate
    <3>2. CASE \E p \in PitId : OpenPit(p)
      BY <1>3, <3>1, <3>2
    <3>3. CASE IsOpen(m.pit) /\ TouchPit(m.pit)
      <4>1. CASE m.pit \in PitId
        BY <1>4, <3>1, <3>3, <4>1 DEF IsOpen, Known
      <4>2. CASE m.pit \notin PitId
        BY <1>2, <3>1, <3>3, <4>2 DEF TouchPit
      <4>. QED  BY <4>1, <4>2
    <3>4. CASE DeletePit(m.pit)
      <4>1. CASE m.pit \in PitId /\ IsOpen(m.pit)
        BY <1>4, <3>1, <3>4, <4>1 DEF IsOpen, Known
      <4>2. CASE ~(m.pit \in PitId /\ IsOpen(m.pit))
        BY <1>2, <3>1, <3>4, <4>2 DEF DeletePit
      <4>. QED  BY <4>1, <4>2
    <3>. QED  BY <2>4, <3>2, <3>3, <3>4 DEF ServeLate
  <2>. QED  BY <1>6, <2>1, <2>2, <2>3, <2>4 DEF IndexerStep
<1>7. CASE AnyBegin(Runner) \/ Take(Runner) \/ Crash(Runner)
  BY <1>2, <1>7 DEF AnyBegin, BeginFresh, BeginResumed, RejectCursor, Start,
     Take, Crash, Forget, indexerVars
<1>8. CASE CallStep(Runner)
  <2>1. CASE \E p \in PitId : ServeCreate(Runner, p)
    BY <1>3, <2>1 DEF ServeCreate
  <2>2. CASE ServeSearch(Runner) \/ ServeDelete(Runner)
    <3>1. call[Runner].pit \in PitId /\ Known(call[Runner].pit)
      BY <2>2, CollectorAssumption
      DEF ServeSearch, ServeDelete, AwaitsReply, CallInv, HasPit
    <3>. QED  BY <1>2, <1>4, <2>2, <3>1 DEF ServeSearch, ServeDelete
  <2>3. CASE pits' = pits /\ index' = index
    BY <1>2, <2>3
  <2>. QED
    BY <1>8, <2>1, <2>2, <2>3
    DEF CallStep, HandleCreate, PageWithCursor, PageWithoutCursor, PageRejected,
        HandleDelete, RequestFails, indexerVars
<1>. QED  BY <1>5, <1>6, <1>7, <1>8 DEF RunnerNext

(* The call under way keeps its plan until the page is taken. *)
LEMMA LinkedKept ==
  ASSUME RunInv, Linked, UNCHANGED runVars,
         IndexerStep \/ CallStep(Runner) \/ UNCHANGED vars
  PROVE  Linked'
<1>. DEFINE c == Runner
<1>. USE CollectorAssumption DEF RunInv, IInv, TypeOK
<1>1. PICK k : k = call[c]
  OBVIOUS
<1>2. ASSUME OnCourse' => OnCourse, pc'[c] = "create" => pc[c] = "create",
             pc'[c] # "idle" => pc[c] # "idle",
             call'[c].request = k.request, call'[c].after = k.after,
             call'[c].returned = k.returned,
             call'[c].pit = k.pit \/ pc[c] = "create"
      PROVE  Linked'
  BY <1>1, <1>2 DEF Linked, runVars
<1>3. ASSUME pc'[c] = pc[c], error'[c] = error[c]
      PROVE  OnCourse' => OnCourse
  BY <1>3 DEF OnCourse, PagePassed
<1>4. CASE UNCHANGED vars
  BY <1>1, <1>2, <1>3, <1>4 DEF vars
<1>5. CASE IndexerStep
  <2>1. CASE Tick
    BY <1>1, <1>2, <1>3, <2>1 DEF Tick, Call
  <2>2. CASE UNCHANGED callVars
    BY <1>1, <1>2, <1>3, <2>2 DEF callVars
  <2>. QED  BY <1>5, <2>1, <2>2 DEF IndexerStep, ServeLate, callVars
<1>6. CASE (\E p \in PitId : ServeCreate(c, p)) \/ ServeSearch(c) \/ ServeDelete(c)
  BY <1>1, <1>2, <1>3, <1>6 DEF ServeCreate, ServeSearch, ServeDelete
<1>7. CASE HandleCreate(c)
  <2>1. pc[c] = "create" /\ pc'[c] \in {"search", "delete"}
    BY <1>7 DEF HandleCreate, Phases
  <2>2. /\ call'[c].request = k.request /\ call'[c].after = k.after
        /\ call'[c].returned = k.returned
    BY <1>1, <1>7 DEF HandleCreate, Call
  <2>. QED  BY <1>2, <2>1, <2>2 DEF OnCourse
<1>8. CASE PageWithCursor(c) \/ PageWithoutCursor(c)
  <2>1. pc[c] = "search" /\ call'[c] = k /\ pc'[c] \in {"delete", "return"}
    BY <1>1, <1>8 DEF PageWithCursor, PageWithoutCursor, Phases
  <2>. QED  BY <1>2, <2>1 DEF OnCourse
<1>9. CASE PageRejected(c) \/ RequestFails(c)
  <2>1. /\ error'[c] = TRUE /\ call'[c] = k
        /\ pc'[c] \in {"delete", "return"} /\ pc[c] # "idle"
    BY <1>1, <1>9 DEF Phases, PageRejected, RequestFails, AfterFailure
  <2>. QED  BY <1>2, <2>1 DEF OnCourse, PagePassed
<1>10. CASE HandleDelete(c)
  <2>1. pc[c] = "delete" /\ pc'[c] = "return" /\ call'[c] = k
        /\ (error' = error \/ error'[c] = TRUE)
    BY <1>1, <1>10 DEF HandleDelete, Phases
  <2>. QED  BY <1>2, <2>1 DEF OnCourse, PagePassed
<1>. QED  BY <1>4, <1>5, <1>6, <1>7, <1>8, <1>9, <1>10 DEF CallStep

(* The next call starts where the collected records end. *)
LEMMA LinkedRequest ==
  ASSUME RunInv, Linked, RequestPage
  PROVE  Linked'
<1>. DEFINE c == Runner
<1>. USE CollectorAssumption DEF RunInv, IInv, TypeOK
<1>1. CASE cursor = NoCursor /\ BeginFresh(c, Query)
  <2>1. /\ call'[c].request = Query /\ call'[c].after = 0 /\ call'[c].returned = 0
    BY <1>1 DEF BeginFresh, Start, IdleCall
  <2>. QED  BY <1>1, <2>1 DEF Linked, RequestPage, runVars
<1>2. CASE cursor # NoCursor /\ BeginResumed(c, Query, cursor)
  <2>1. /\ call'[c].request = Query /\ call'[c].after = cursor.after
        /\ call'[c].returned = cursor.returned /\ call'[c].pit = cursor.pit
        /\ pc'[c] = "search"
    BY <1>2 DEF BeginResumed, Start
  <2>. QED  BY <1>2, <2>1 DEF Linked, RequestPage, runVars
<1>3. CASE cursor # NoCursor /\ RejectCursor(c, Query, cursor)
  <2>1. pc'[c] = "return" /\ error'[c] = TRUE
    BY <1>3 DEF RejectCursor, Start
  <2>. QED  BY <1>3, <2>1 DEF Linked, RequestPage, runVars, OnCourse, PagePassed
<1>. QED  BY <1>1, <1>2, <1>3 DEF RequestPage

(* What was collected stays collected, whatever happens to the Indexer. *)
LEMMA CollectionKept ==
  ASSUME RunInv, [RunnerNext]_vars,
         UNCHANGED <<collected, pages, expected, source>>
  PROVE  /\ Gathered'
         /\ Completed => Completed'
<1>. USE DEF RunInv, IInv
<1>1. source # NoPit =>
        /\ source \in PitId /\ Known(source)' /\ (~IsOpen(source) => ~IsOpen(source)')
        /\ \A q : Selected(source, q)' = Selected(source, q)
  <2>. SUFFICES ASSUME source # NoPit
                PROVE  /\ source \in PitId /\ Known(source)'
                       /\ (~IsOpen(source) => ~IsOpen(source)')
                       /\ \A q : Selected(source, q)' = Selected(source, q)
    OBVIOUS
  <2>1. source \in PitId /\ Known(source)
    BY DEF Gathered, CollectorTypeOK
  <2>2. PICK p \in PitId : p = source /\ source' = p
    BY <2>1
  <2>3. Known(p)' /\ (~IsOpen(p) => ~IsOpen(p)') /\ \A q : Selected(p, q)' = Selected(p, q)
    BY <2>1, <2>2, PitFrame, SameContent, RunnerIsCaller
  <2>. QED  BY <2>2, <2>3 DEF Known, IsOpen, Selected
<1>2. Gathered'
  BY <1>1 DEF Gathered, Ascending
<1>3. Completed => Completed'
  BY <1>1 DEF Completed
<1>. QED  BY <1>2, <1>3

(* Appending what lies after the last element keeps a sequence ascending. *)
LEMMA AscendingConcat ==
  ASSUME NEW s \in Seq(Record), NEW t \in Seq(Record), Ascending(s), Ascending(t),
         s # << >> => \A i \in DOMAIN t : t[i] > s[Len(s)]
  PROVE  Ascending(s \o t)
<1>. SUFFICES ASSUME NEW i \in 1..(Len(s) + Len(t)), NEW j \in 1..(Len(s) + Len(t)), i < j
              PROVE  (s \o t)[i] < (s \o t)[j]
  BY DEF Ascending
<1>1. /\ Len(s) \in Nat /\ Len(t) \in Nat
      /\ DOMAIN s = 1..Len(s) /\ DOMAIN t = 1..Len(t)
      /\ \A n \in 1..Len(s) : s[n] \in Int
      /\ \A n \in 1..Len(t) : t[n] \in Int
  <2>1. \A n \in 1..Len(s) : s[n] \in Record
    OBVIOUS
  <2>2. \A n \in 1..Len(t) : t[n] \in Record
    OBVIOUS
  <2>. QED  BY <2>1, <2>2 DEF Record
<1>2. CASE j <= Len(s)
  BY <1>1, <1>2 DEF Ascending
<1>3. CASE i > Len(s)
  <2>1. i - Len(s) \in 1..Len(t) /\ j - Len(s) \in 1..Len(t) /\ i - Len(s) < j - Len(s)
    BY <1>1, <1>3
  <2>2. (s \o t)[i] = t[i - Len(s)] /\ (s \o t)[j] = t[j - Len(s)]
    BY <1>1, <1>3
  <2>. QED  BY <1>1, <2>1, <2>2 DEF Ascending
<1>4. CASE i <= Len(s) /\ j > Len(s)
  <2>1. s # << >> /\ i \in 1..Len(s) /\ Len(s) \in 1..Len(s) /\ j - Len(s) \in 1..Len(t)
    BY <1>1, <1>4
  <2>2. (s \o t)[i] = s[i] /\ (s \o t)[j] = t[j - Len(s)]
    BY <1>1, <1>4
  <2>3. s[i] <= s[Len(s)]
    <3>1. PICK n \in 1..Len(s) : n = Len(s)
      BY <2>1
    <3>2. i \in Int /\ n \in Int /\ s[i] \in Int /\ s[n] \in Int /\ i <= n
      BY <1>1, <2>1, <3>1
    <3>3. i < n => s[i] < s[n]
      BY <1>1, <2>1, <3>1 DEF Ascending
    <3>4. i = n \/ i < n
      BY <3>2
    <3>. QED  BY <3>1, <3>2, <3>3, <3>4
  <2>4. t[j - Len(s)] > s[Len(s)]
    BY <1>1, <2>1
  <2>. QED  BY <1>1, <2>1, <2>2, <2>3, <2>4
<1>. QED  BY <1>1, <1>2, <1>3, <1>4

(* The elements of a concatenation, and its last one. *)
LEMMA ConcatElements ==
  ASSUME NEW s \in Seq(Record), NEW t \in Seq(Record), Len(t) >= 1
  PROVE  /\ s \o t \in Seq(Record)
         /\ Len(s \o t) = Len(s) + Len(t)
         /\ (s \o t)[Len(s \o t)] = t[Len(t)]
         /\ \A i \in DOMAIN (s \o t) :
              \/ i \in DOMAIN s /\ (s \o t)[i] = s[i]
              \/ \E j \in DOMAIN t : (s \o t)[i] = t[j]
<1>1. /\ Len(s) \in Nat /\ Len(t) \in Nat
      /\ DOMAIN s = 1..Len(s) /\ DOMAIN t = 1..Len(t)
      /\ DOMAIN (s \o t) = 1..(Len(s) + Len(t))
      /\ s \o t \in Seq(Record) /\ Len(s \o t) = Len(s) + Len(t)
  OBVIOUS
<1>2. (s \o t)[Len(s) + Len(t)] = t[Len(t)]
  <2>1. \A n \in 1..(Len(s) + Len(t)) : n > Len(s) => (s \o t)[n] = t[n - Len(s)]
    BY <1>1
  <2>2. PICK n \in 1..(Len(s) + Len(t)) : n = Len(s) + Len(t)
    BY <1>1
  <2>3. n > Len(s) /\ n - Len(s) = Len(t)
    BY <1>1, <2>2
  <2>. QED  BY <2>1, <2>2, <2>3
<1>3. ASSUME NEW i \in 1..(Len(s) + Len(t))
      PROVE  \/ i \in DOMAIN s /\ (s \o t)[i] = s[i]
             \/ \E j \in DOMAIN t : (s \o t)[i] = t[j]
  <2>1. CASE i <= Len(s)
    BY <1>1, <2>1
  <2>2. CASE i > Len(s)
    <3>1. i - Len(s) \in DOMAIN t /\ (s \o t)[i] = t[i - Len(s)]
      BY <1>1, <2>2
    <3>. QED  BY <3>1
  <2>. QED  BY <1>1, <2>1, <2>2
<1>. QED  BY <1>1, <1>2, <1>3

-----------------------------------------------------------------------------
(* A page is kept *)

(* What is known of the page in hand, of the call that read it and of the  *)
(* records it is appended to.                                              *)
LEMMA PageInHand ==
  ASSUME RunInv, KeepPage
  PROVE  LET h == page.hits
             k == call[Runner]
         IN  /\ UNCHANGED <<index, pits>>
             /\ pc[Runner] = "return" /\ ~error[Runner] /\ pc'[Runner] = "idle"
             /\ collected \in Seq(Record) /\ h \in Seq(Record) /\ Len(h) >= 1
             /\ k.pit \in PitId /\ Known(k.pit) /\ k.request = Query
             /\ \A i \in DOMAIN h : h[i] \in Selected(k.pit, Query) /\ h[i] > k.after
             /\ Ascending(h)
             /\ Len(collected) = k.returned
             /\ collected # << >> => k.after = collected[Len(collected)] /\ source = k.pit
<1>. DEFINE c == Runner
            h == page.hits
<1>. USE CollectorAssumption DEF RunInv, IInv, TypeOK
<1>1. UNCHANGED <<index, pits>> /\ pc[c] = "return" /\ ~error[c] /\ pc'[c] = "idle"
  BY DEF KeepPage, Take, Forget, PageKept, indexerVars
<1>2. PagePassed(c) /\ Succeeded(c) /\ HasPit(c) /\ OnCourse
  BY <1>1 DEF PagePassed, Succeeded, HasPit, OnCourse
<1>3. h \in Seq(Record) /\ Len(h) >= 1
  BY DEF Result, page, KeepPage, PageKept, PageUsable
<1>4. /\ call[c].pit \in PitId /\ Known(call[c].pit)
      /\ HitsSelected(c, h) /\ InStableOrder(c, h)
  BY <1>2 DEF CallInv, page
<1>5. Linked
  BY DEF KeepPage
<1>6. call[c].request = Query
  BY <1>2, <1>5 DEF Linked
<1>7. collected \in Seq(Record)
  BY DEF CollectorTypeOK
<1>8. CASE cursor = NoCursor
  BY <1>1, <1>2, <1>3, <1>4, <1>5, <1>6, <1>7, <1>8 DEF Linked, HitsSelected, InStableOrder
<1>9. CASE cursor # NoCursor
  BY <1>1, <1>2, <1>3, <1>4, <1>5, <1>6, <1>7, <1>9 DEF Linked, HitsSelected, InStableOrder
<1>. QED  BY <1>8, <1>9

(* The records collected stay in order, of one PIT, and within the cap. *)
LEMMA GatheredOn ==
  ASSUME RunInv, KeepPage
  PROVE  Gathered' /\ collected' \in Seq(Record) /\ source' \in PitId
         /\ source' # NoPit
         /\ Len(collected') = Cumulative(Runner, page.hits)
         /\ collected'[Len(collected')] = page.hits[Len(page.hits)]
<1>. DEFINE h == page.hits
            p == call[Runner].pit
<1>1. PICK s : s = collected
  OBVIOUS
<1>2. /\ s \in Seq(Record) /\ h \in Seq(Record) /\ Len(h) >= 1
      /\ p \in PitId /\ Known(p)
      /\ Ascending(h) /\ Ascending(s)
      /\ s # << >> => source = p /\ \A i \in DOMAIN h : h[i] > s[Len(s)]
      /\ \A i \in DOMAIN h : h[i] \in Selected(p, Query)
      /\ \A i \in DOMAIN s : s[i] \in Selected(source, Query)
      /\ Len(s) = call[Runner].returned
  <2>1. source = NoPit => DOMAIN s = {}
    BY <1>1 DEF RunInv, Gathered
  <2>. QED  BY <1>1, <2>1, PageInHand DEF RunInv, Gathered
<1>3. /\ collected' = s \o h /\ source' = p /\ pages' = pages + 1
      /\ Len(s \o h) <= MaxLimit
  BY <1>1 DEF KeepPage, gathered, PageKept, GatheredWithinBound
<1>4. Ascending(s \o h)
  BY <1>2, AscendingConcat
<1>5. s \o h \in Seq(Record) /\ Len(s \o h) = Len(s) + Len(h)
      /\ (s \o h)[Len(s \o h)] = h[Len(h)]
  BY <1>2, ConcatElements
<1>6. \A i \in DOMAIN (s \o h) : (s \o h)[i] \in Selected(p, Query)
  <2>1. s # << >> => \A i \in DOMAIN s : s[i] \in Selected(p, Query)
    BY <1>2
  <2>2. s = << >> => DOMAIN s = {}
    OBVIOUS
  <2>. QED  BY <1>2, <2>1, <2>2, ConcatElements
<1>7. pages + 1 <= Len(s) + Len(h) /\ Len(s \o h) # 0
  BY <1>1, <1>2, <1>5 DEF RunInv, Gathered, CollectorTypeOK
<1>8. p # NoPit
  BY <1>2, SentinelAssumption
<1>9. pages' # 0
  BY <1>3 DEF RunInv, CollectorTypeOK
<1>10. Known(p) = Known(source)' /\ Selected(source, Query)' = Selected(p, Query)
  BY <1>3, PageInHand DEF Known, Selected
<1>. HIDE DEF p, h
<1>11. Gathered'
  BY <1>2, <1>3, <1>4, <1>5, <1>6, <1>7, <1>8, <1>9, <1>10 DEF Gathered, Ascending
<1>. QED  BY <1>2, <1>3, <1>5, <1>8, <1>11 DEF Cumulative, h, p

(* The cursor of a page kept continues from its last hit. *)
LEMMA LinkedOn ==
  ASSUME RunInv, KeepPage, page.next # NoCursor
  PROVE  Linked'
<1>. DEFINE c == Runner
            t == page.next
<1>1. pc'[c] = "idle" /\ pc[c] = "return" /\ ~error[c] /\ call[c].request = Query
  BY PageInHand
<1>2. t = NextCursor(c, page) /\ Cumulative(c, page.hits) < MaxLimit
  BY <1>1 DEF RunInv, NextRight, PagePassed, page
<1>3. cursor' = t /\ t # NoCursor /\ source' = call[c].pit /\ pages' > 0
  <2>1. pages \in Nat
    BY CollectorAssumption DEF RunInv, CollectorTypeOK
  <2>. QED  BY <2>1 DEF KeepPage
<1>4. /\ t.request = Query /\ t.pit = call[c].pit
      /\ t.after = page.hits[Len(page.hits)] /\ t.returned = Cumulative(c, page.hits)
  BY <1>1, <1>2 DEF NextCursor
<1>5. /\ t.returned = Len(collected') /\ Len(collected') < MaxLimit
      /\ t.after = collected'[Len(collected')]
  BY <1>2, <1>4, GatheredOn
<1>6. ~OnCourse'
  BY <1>1 DEF OnCourse, PagePassed
<1>. HIDE DEF t
<1>. QED  BY <1>1, <1>3, <1>4, <1>5, <1>6 DEF Linked

(* A page kept without a cursor completes the run. *)
LEMMA CompletedOn ==
  ASSUME RunInv, KeepPage, page.next = NoCursor
  PROVE  Completed'
<1>. DEFINE c == Runner
<1>1. /\ PagePassed(c) /\ Succeeded(c) /\ result[c].next = NoCursor /\ UNCHANGED pits
      /\ call[c].request = Query /\ source' = call[c].pit
  BY PageInHand DEF KeepPage, page, PagePassed, Succeeded
<1>2. ~IsOpen(call[c].pit)
  BY <1>1, CollectorAssumption DEF RunInv, IInv, CallInv
<1>3. collected' = gathered /\ Len(gathered) = page.total /\ page.exact
  BY DEF KeepPage, PageKept, FinalPageWhole, Continuable, PageUsable
<1>4. expected' = page.total
  <2>1. pages \in Nat
    BY CollectorAssumption DEF RunInv, CollectorTypeOK
  <2>. QED  BY <2>1 DEF KeepPage, PageKept, PagesAligned
<1>5. ExactTotals => page.total = Cardinality(Selected(call[c].pit, Query))
  BY <1>1, <1>3 DEF RunInv, TotalRight, TrueTotal, page
<1>6. source' # NoPit
  BY GatheredOn
<1>7. ~IsOpen(source)' /\ Selected(source, Query)' = Selected(call[c].pit, Query)
  BY <1>1, <1>2 DEF IsOpen, Selected
<1>. QED  BY <1>3, <1>4, <1>5, <1>6, <1>7 DEF Completed

-----------------------------------------------------------------------------
(* The invariant and what follows from it *)

LEMMA RunTyped ==
  ASSUME RunInv, TypeOK', [CollectorNext]_allVars
  PROVE  CollectorTypeOK'
<1>. USE CollectorAssumption DEF RunInv, CollectorTypeOK
<1>1. CASE KeepPage
  <2>1. collected' \in Seq(Record) /\ source' \in PitId
    BY <1>1, GatheredOn
  <2>2. page \in Result
    BY DEF TypeOK, page
  <2>3. /\ page.total \in 0..NumRecords
        /\ page.next # NoCursor => page.next \in Cursor
    BY <2>2 DEF Result
  <2>4. pages' \in 0..MaxPages
    <3>1. pages # MaxPages
      BY <1>1, PageInHand DEF KeepPage, Linked
    <3>. QED  BY <1>1, <3>1 DEF KeepPage
  <2>. QED  BY <1>1, <2>1, <2>3, <2>4 DEF KeepPage
<1>2. CASE UNCHANGED runVars
  BY <1>2 DEF runVars
<1>3. CASE /\ phase' \in {"passed", "failed", "crashed"}
           /\ UNCHANGED <<collected, pages, expected, cursor, seen, started, source>>
  BY <1>3
<1>. QED
  BY <1>1, <1>2, <1>3
  DEF CollectorNext, RunStep, RequestPage, PageBoundExceeded, FailOnPage, Summarise,
      Die, allVars

LEMMA RunInvInit == CollectorInit => RunInv
<1>. SUFFICES ASSUME CollectorInit PROVE RunInv
  OBVIOUS
<1>1. IInv
  BY InvInit DEF CollectorInit
<1>2. pc[Runner] = "idle" /\ reply[Runner] = NoReply
  BY CollectorAssumption DEF CollectorInit, Init, TransportInit
<1>3. NextRight(Runner) /\ TotalRight(Runner)
  BY <1>2 DEF NextRight, TotalRight, PagePassed, NoReply
<1>4. CollectorTypeOK
  BY <1>1, CollectorAssumption, NumRecordsAssumption
  DEF IInv, TypeOK, IndexerTypeOK, CollectorTypeOK, CollectorInit
<1>5. Linked
  BY <1>2 DEF CollectorInit, Linked, OnCourse, PagePassed
<1>6. Gathered
  BY MaxLimitAssumption DEF CollectorInit, Gathered, Ascending
<1>7. \A p \in PitId : ~Known(p)
  BY DEF CollectorInit, Init, IndexerInit, Known
<1>8. Frozen
  BY <1>7 DEF CollectorInit, Frozen
<1>. QED  BY <1>1, <1>3, <1>4, <1>5, <1>6, <1>8 DEF RunInv, Whole, CollectorInit

LEMMA RunInvNext == RunInv /\ [CollectorNext]_allVars => RunInv'
<1>. SUFFICES ASSUME RunInv, [CollectorNext]_allVars PROVE RunInv'
  OBVIOUS
<1>1. [RunnerNext]_vars
  BY RunsTransport DEF RunInv
<1>2. IInv' /\ TypeOK'
  BY <1>1, RunnerIsCaller, InvNext DEF RunInv, IInv
<1>3. CollectorTypeOK'
  BY <1>2, RunTyped
<1>4. NextRight(Runner)' /\ (ExactTotals => TotalRight(Runner)')
  BY <1>1, NextRightKept, TotalRightKept DEF RunInv
<1>5. Frozen'
  <2>1. started' = started
    BY DEF CollectorNext, RunStep, RequestPage, PageBoundExceeded, KeepPage,
       FailOnPage, Summarise, Die, allVars, runVars
  <2>. QED  BY <1>1, <2>1, FrozenKept DEF RunInv
<1>6. ASSUME (phase = "collecting" => Linked)', Gathered', (Whole => Completed)'
      PROVE  RunInv'
  BY <1>2, <1>3, <1>4, <1>5, <1>6 DEF RunInv
<1>7. CASE KeepPage
  <2>1. Gathered'
    BY <1>7, GatheredOn
  <2>2. CASE page.next = NoCursor
    BY <1>6, <1>7, <2>1, <2>2, CompletedOn DEF KeepPage
  <2>3. CASE page.next # NoCursor
    BY <1>6, <1>7, <2>1, <2>3, LinkedOn DEF KeepPage, Whole
  <2>. QED  BY <2>2, <2>3
<1>8. ASSUME UNCHANGED <<collected, pages, expected, source>>,
             (phase = "collecting" => Linked)', Whole' => Whole
      PROVE  RunInv'
  BY <1>1, <1>6, <1>8, CollectionKept DEF RunInv
<1>9. CASE UNCHANGED runVars /\ (IndexerStep \/ CallStep(Runner) \/ UNCHANGED vars)
  <2>1. phase = "collecting" => Linked'
    BY <1>9, LinkedKept DEF RunInv
  <2>. QED  BY <1>8, <1>9, <2>1 DEF runVars, Whole
<1>10. CASE RequestPage
  <2>1. Linked'
    BY <1>10, LinkedRequest DEF RunInv, RequestPage
  <2>. QED  BY <1>8, <1>10, <2>1 DEF RequestPage, runVars, Whole
<1>11. CASE PageBoundExceeded \/ FailOnPage \/ Summarise \/ Die
  <2>1. /\ UNCHANGED <<collected, pages, expected, source>>
        /\ phase' # "collecting" /\ (Whole' => Whole)
    BY <1>11 DEF PageBoundExceeded, FailOnPage, Summarise, Die, Whole
  <2>. QED  BY <1>8, <2>1
<1>. QED
  BY <1>7, <1>9, <1>10, <1>11 DEF CollectorNext, RunStep, allVars

LEMMA RunInvariance == CollectorSpec => []RunInv
BY RunInvInit, RunInvNext, PTL DEF CollectorSpec

(* Every reachable state of a run is well typed: no more than MaxPages     *)
(* pages are kept, and only cursors the transport issued are followed.     *)
THEOREM CollectorTypeCorrect == CollectorSpec => []CollectorTypeOK
<1>1. RunInv => CollectorTypeOK
  BY DEF RunInv
<1>. QED  BY <1>1, RunInvariance, PTL

(* The pages kept join up without a gap, an overlap or a reordering the    *)
(* runner could have seen, and the next call continues from their end.     *)
THEOREM PagesAlwaysJoin == CollectorSpec => []PagesJoin
<1>1. RunInv => PagesJoin
  BY DEF RunInv, Gathered, Linked, PagesJoin
<1>. QED  BY <1>1, RunInvariance, PTL

(* The summary's final_page_cleanup_confirmed is always true.              *)
THEOREM WholeRunsLeaveNoPit == CollectorSpec => []WholeLeavesNoPit
<1>1. RunInv => WholeLeavesNoPit
  BY DEF RunInv, Completed, WholeLeavesNoPit
<1>. QED  BY <1>1, RunInvariance, PTL

(* A page bound not below the record cap never stops a run.                *)
THEOREM PageBoundIdle == CollectorSpec => []PageBoundNeverReached
<1>1. RunInv => PageBoundNeverReached
  <2>. SUFFICES ASSUME RunInv, MaxPages >= MaxLimit, phase = "collecting",
                       pages = MaxPages
                PROVE  FALSE
    BY DEF PageBoundNeverReached
  <2>1. pages > 0 /\ Linked /\ pages <= Len(collected) /\ Len(collected) \in Nat
    BY CollectorAssumption DEF RunInv, Gathered, CollectorTypeOK
  <2>2. Len(collected) < MaxLimit
    BY <2>1 DEF Linked
  <2>. QED  BY <2>1, <2>2, MaxLimitAssumption, CollectorAssumption
<1>. QED  BY <1>1, RunInvariance, PTL

(* A whole run whose agreed total is the true one has collected all that   *)
(* its PIT held, in order.                                                 *)
THEOREM WholeRunsAreComplete == CollectorSpec => []WholeIsComplete
<1>1. RunInv => WholeIsComplete
  <2>. SUFFICES ASSUME RunInv, Whole, expected = Cardinality(Selected(source, Query))
                PROVE  Ascending(collected) /\ HitSet(collected) = Selected(source, Query)
    BY DEF WholeIsComplete, HitSet
  <2>1. /\ source \in PitId /\ Len(collected) = expected
        /\ Ascending(collected) /\ collected \in Seq(Record)
        /\ HitSet(collected) \subseteq Selected(source, Query)
    BY DEF RunInv, Completed, Gathered, CollectorTypeOK, HitSet
  <2>2. IsFiniteSet(Selected(source, Query))
    BY <2>1, CollectorAssumption, SelectedFinite DEF RunInv, IInv
  <2>3. Cardinality(HitSet(collected)) = Cardinality(Selected(source, Query))
    BY <2>1, HitsCount
  <2>. QED  BY <2>1, <2>2, <2>3, FS_Subset
<1>. QED  BY <1>1, RunInvariance, PTL

-----------------------------------------------------------------------------
(* The bounded read of one snapshot *)

(* What Read calls the snapshot. *)
Content == IF source = NoPit THEN {} ELSE Selected(source, Query)

LEMMA ContentKept ==
  ASSUME RunInv, [RunnerNext]_vars, UNCHANGED source
  PROVE  UNCHANGED Content
<1>1. CASE source = NoPit
  BY <1>1 DEF Content
<1>2. CASE source # NoPit
  <2>1. source \in PitId /\ Known(source)
    BY <1>2 DEF RunInv, Gathered, CollectorTypeOK
  <2>2. PICK p \in PitId : p = source
    BY <2>1
  <2>3. Selected(p, Query)' = Selected(p, Query)
    BY <2>1, <2>2, PitFrame, SameContent, RunnerIsCaller DEF RunInv, IInv
  <2>4. source' = p
    BY <2>2
  <2>. QED  BY <1>2, <2>2, <2>3, <2>4 DEF Content, Selected
<1>. QED  BY <1>1, <1>2

(* Only the arrival of an alert changes the index. *)
LEMMA IndexGrows ==
  ASSUME RunInv, [CollectorNext]_allVars
  PROVE  \/ index' = index
         \/ /\ \E r \in Record \ index : index' = index \cup {r}
            /\ UNCHANGED runVars
BY DEF CollectorNext, RunStep, IndexerStep, Ingest, Reap, ServeLate, Tick, RequestPage,
   BeginFresh, BeginResumed, RejectCursor, Start, indexerVars, PageBoundExceeded,
   CallStep, ServeCreate, ServeSearch, ServeDelete, HandleCreate, PageWithCursor,
   PageWithoutCursor, PageRejected, HandleDelete, RequestFails, KeepPage, FailOnPage,
   Take, Forget, Summarise, Die, Crash, allVars, vars

(* The first page fixes the content, and no later page changes it. *)
LEMMA ContentOn ==
  ASSUME RunInv, KeepPage
  PROVE  /\ Content' = Selected(call[Runner].pit, Query)
         /\ Content' \in SUBSET Record
         /\ IF collected = << >>
            THEN /\ started \cap Matches[Query] \subseteq Content'
                 /\ Content' \subseteq index \cap Matches[Query]
            ELSE Content' = Content
<1>. DEFINE p == call[Runner].pit
<1>1. /\ p \in PitId /\ Known(p) /\ UNCHANGED pits /\ source' = p
      /\ collected # << >> => source = p
  BY PageInHand DEF KeepPage
<1>2. p # NoPit
  BY <1>1, SentinelAssumption
<1>3. Selected(source, Query)' = Selected(p, Query)
  BY <1>1 DEF Selected
<1>4. Content' = Selected(p, Query)
  BY <1>1, <1>2, <1>3 DEF Content
<1>5. Selected(p, Query) \subseteq Record
  BY <1>1, SelectedFinite, CollectorAssumption DEF RunInv, IInv
<1>6. started \subseteq pits[p].snapshot /\ pits[p].snapshot \subseteq index
  BY <1>1 DEF RunInv, Frozen
<1>7. collected # << >> => Content = Selected(p, Query)
  BY <1>1, <1>2 DEF Content
<1>. QED  BY <1>4, <1>5, <1>6, <1>7 DEF Selected

(* Keeping a page extends the abstract read by that page. *)
LEMMA KeepExtends ==
  ASSUME RunInv, KeepPage, RunInv', ExactTotals
  PROVE  Read!Extend
<1>. DEFINE h == page.hits
            n == Len(h)
            S == Content'
<1>1. /\ collected \in Seq(Record) /\ h \in Seq(Record) /\ n >= 1
      /\ \A i \in DOMAIN h : h[i] \in Selected(call[Runner].pit, Query)
      /\ UNCHANGED index
  BY PageInHand
<1>2. /\ S \in SUBSET Record
      /\ S = Selected(call[Runner].pit, Query)
      /\ IF collected = << >>
         THEN started \cap Matches[Query] \subseteq S /\ S \subseteq index \cap Matches[Query]
         ELSE S = Content
  BY ContentOn
<1>3. collected' = collected \o h /\ started' = started /\ phase = "collecting"
  BY DEF KeepPage, gathered
<1>4. Ascending(collected') /\ Len(collected') <= MaxLimit /\ Len(collected') = Len(collected) + n
  BY <1>1, <1>3, ConcatElements DEF RunInv, Gathered, Ascending
<1>5. n \in 1..MaxLimit /\ h \in [1..n -> S]
  <2>1. n \in Nat /\ Len(collected) \in Nat /\ DOMAIN h = 1..n
    BY <1>1
  <2>2. h = [i \in 1..n |-> h[i]]
    BY <1>1, <2>1
  <2>. QED  BY <1>1, <1>2, <1>4, <2>1, <2>2, MaxLimitAssumption
<1>6. /\ phase' = "collected" => {collected'[i] : i \in DOMAIN collected'} = S
      /\ phase' \in {"collecting", "collected"}
  <2>1. phase' \in {"collecting", "collected"}
    BY DEF KeepPage
  <2>2. ASSUME phase' = "collected"
        PROVE  HitSet(collected') = S
    <3>1. page.next = NoCursor
      BY <2>2 DEF KeepPage
    <3>2. Completed'
      BY <3>1, CompletedOn
    <3>3. Len(collected') = Cardinality(S) /\ S = Selected(source, Query)'
      BY <3>2 DEF Completed, Content
    <3>4. HitSet(collected') \subseteq S
      BY <3>2, <3>3 DEF RunInv, Gathered, Completed, HitSet
    <3>5. collected' \in Seq(Record) /\ IsFiniteSet(S)
      <4>1. call[Runner].pit \in PitId /\ TypeOK
        BY PageInHand DEF RunInv, IInv
      <4>. QED  BY <1>2, <4>1, GatheredOn, SelectedFinite, CollectorAssumption
    <3>6. Cardinality(HitSet(collected')) = Len(collected')
      BY <1>4, <3>5, HitsCount
    <3>. QED  BY <3>3, <3>4, <3>5, <3>6, FS_Subset
  <2>. QED  BY <2>1, <2>2 DEF HitSet
<1>. HIDE DEF n, S, h
<1>. QED
  BY <1>1, <1>2, <1>3, <1>4, <1>5, <1>6
  DEF Read!Extend, Read!Freeze, Read!InOrder, Read!Reported, Ascending, S, Content

LEMMA ReadInit == CollectorInit => Read!Init
BY DEF CollectorInit, Init, IndexerInit, Read!Init

LEMMA ReadNext ==
  ASSUME RunInv, RunInv', [CollectorNext]_allVars, ExactTotals
  PROVE  [Read!Next]_(Read!readVars)
<1>1. [RunnerNext]_vars
  BY RunsTransport DEF RunInv
<1>2. CASE KeepPage
  BY <1>2, KeepExtends DEF Read!Next
<1>3. ASSUME UNCHANGED <<phase, collected, started, source>>
      PROVE  [Read!Next]_(Read!readVars)
  <2>1. UNCHANGED Content
    BY <1>1, <1>3, ContentKept
  <2>2. CASE index' = index
    BY <1>3, <2>1, <2>2 DEF Read!readVars, Content
  <2>3. CASE \E r \in Record \ index : index' = index \cup {r}
    BY <1>3, <2>1, <2>3 DEF Read!Next, Read!Grow, Content
  <2>. QED  BY <2>2, <2>3, IndexGrows
<1>4. CASE PageBoundExceeded \/ FailOnPage \/ Summarise \/ Die
  <2>1. /\ UNCHANGED <<collected, started, source>>
        /\ phase \in {"collecting", "collected"}
        /\ phase' \in {"failed", "crashed"} \/ (phase = "collected" /\ phase' = "passed")
    BY <1>4 DEF PageBoundExceeded, FailOnPage, Summarise, Die
  <2>2. UNCHANGED Content
    BY <1>1, <2>1, ContentKept
  <2>3. index' = index
    BY <1>4, IndexGrows, <2>1 DEF runVars
  <2>4. CASE phase' \in {"failed", "crashed"}
    BY <2>1, <2>2, <2>3, <2>4 DEF Read!Next, Read!GiveUp, Content
  <2>5. CASE phase = "collected" /\ phase' = "passed"
    BY <2>1, <2>2, <2>3, <2>5 DEF Read!Next, Read!Pass, Content
  <2>. QED  BY <2>1, <2>4, <2>5
<1>. QED
  BY <1>2, <1>3, <1>4
  DEF CollectorNext, RunStep, RequestPage, allVars, runVars

(* When exact totals are true, the run implements the bounded read of one  *)
(* frozen content: whatever pages, PITs, cursors and failures do, the      *)
(* alerts reported are of one content, in stable order, and a run that     *)
(* passes has reported all of it.                                          *)
THEOREM ReadsSnapshot ==
  ASSUME ExactTotals
  PROVE  CollectorSpec => ReadsOneSnapshot
<1>1. CollectorInit => Read!Init
  BY ReadInit
<1>2. RunInv /\ RunInv' /\ [CollectorNext]_allVars => [Read!Next]_(Read!readVars)
  BY ReadNext
<1>. QED  BY <1>1, <1>2, RunInvariance, PTL DEF CollectorSpec, ReadsOneSnapshot, Read!Spec
=============================================================================
