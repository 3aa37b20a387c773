----------------------- MODULE WazuhIndexerTransport -----------------------
(***************************************************************************)
(* One bounded query against the Wazuh Indexer                             *)
(* (scripts/siem/wazuh_indexer_transport.py, execute_wazuh_indexer_query)  *)
(* with the cursor it resumes and issues (wazuh_indexer_cursor.py) and the *)
(* page validation that decides its outcome                                *)
(* (wazuh_indexer_query_adapter.py, parse_wazuh_indexer_response).         *)
(*                                                                         *)
(* A call is create (or resume), search, and delete unless a cursor is     *)
(* handed out.  Between two steps time passes, alerts arrive, other        *)
(* callers run, answers get lost and processes die.  A cursor is an        *)
(* encrypted, authenticated token, so a cursor in the model is just the    *)
(* envelope's content, and "life" says how long an issued one has left     *)
(* (-1: never issued, so no caller can present it successfully).           *)
(***************************************************************************)
EXTENDS WazuhIndexer

CONSTANTS
  Caller,       \* processes that run queries
  Request,      \* bounded query requests, compared by fingerprint
  Matches,      \* Matches[q]: the alerts request q selects
  LimitOf,      \* LimitOf[q]: the page size ("limit") of request q
  MaxLimit,     \* registry max_limit, the cumulative record cap
  FaultyPages,  \* may the Indexer return hits that skip, repeat or disorder?
  ExactTotals,  \* is an exact ("eq") total always the true one?
  MaxCursors,   \* model bound: no call begins once this many were issued
  NoPit, NoCursor

ASSUME MaxLimitAssumption == MaxLimit \in Nat \ {0}
ASSUME RequestAssumption ==
  /\ Request # {}
  /\ Matches \in [Request -> SUBSET Record]
  /\ LimitOf \in [Request -> 1..MaxLimit]
ASSUME SentinelAssumption == NoPit \notin PitId /\ NoCursor \notin
  [request: Request, pit: PitId, after: Record, returned: 1..MaxLimit]
ASSUME BackendAssumption ==
  FaultyPages \in BOOLEAN /\ ExactTotals \in BOOLEAN /\ MaxCursors \in Nat

VARIABLES
  pc,       \* where each caller is inside execute_wazuh_indexer_query
  call,     \* the plan of the running call and the PIT id it knows
  reply,    \* the Indexer's answer on its way back
  error,    \* primary_error is not None
  result,   \* the parsed page
  life,     \* remaining lifetime of each issued cursor
  late      \* requests their caller gave up on that may still arrive

callVars == <<pc, call, reply, error, result>>
vars == <<index, pits, pc, call, reply, error, result, life, late>>

Cursor == [request: Request, pit: PitId, after: Record, returned: 1..MaxLimit]

Call == [request: Request, pit: PitId \cup {NoPit}, after: 0..NumRecords,
         returned: 0..MaxLimit, left: 0..KeepAlive]

NoReply == [kind |-> "none"]
Created(p, complete) == [kind |-> "created", pit |-> p, complete |-> complete]
Page(complete, exact, total, hits) ==
  [kind |-> "page", complete |-> complete, exact |-> exact, total |-> total,
   hits |-> hits]
Deleted(confirmed) == [kind |-> "deleted", confirmed |-> confirmed]

Reply ==
  {NoReply}
    \cup [kind: {"created"}, pit: PitId, complete: BOOLEAN]
    \cup [kind: {"page"}, complete: BOOLEAN, exact: BOOLEAN,
          total: 0..NumRecords, hits: Seq(Record)]
    \cup [kind: {"deleted"}, confirmed: BOOLEAN]

NoResult == [hits |-> << >>, exact |-> TRUE, total |-> 0, next |-> NoCursor]

Result == [hits: Seq(Record), exact: BOOLEAN, total: 0..NumRecords,
           next: Cursor \cup {NoCursor}]

LateRequest == [op: {"create", "search", "delete"}, pit: PitId \cup {NoPit}]

TypeOK ==
  /\ IndexerTypeOK
  /\ pc \in [Caller -> {"idle", "create", "search", "delete", "return"}]
  /\ call \in [Caller -> Call]
  /\ reply \in [Caller -> Reply]
  /\ error \in [Caller -> BOOLEAN]
  /\ result \in [Caller -> Result]
  /\ life \in [Cursor -> -1..KeepAlive]
  /\ late \in SUBSET LateRequest

(* The plan field of a caller without a call: never read. *)
AnyRequest == CHOOSE q \in Request : TRUE

IdleCall(q) == [request |-> q, pit |-> NoPit, after |-> 0, returned |-> 0,
                left |-> 0]

TransportInit ==
  /\ pc = [c \in Caller |-> "idle"]
  /\ call = [c \in Caller |-> IdleCall(AnyRequest)]
  /\ reply = [c \in Caller |-> NoReply]
  /\ error = [c \in Caller |-> FALSE]
  /\ result = [c \in Caller |-> NoResult]
  /\ life = [t \in Cursor |-> -1]
  /\ late = {}

Init == IndexerInit /\ TransportInit

-----------------------------------------------------------------------------
(* Beginning a call: the plan, with the cursor decoded and validated.      *)

(* Plausible bugs, used only to show that the properties notice them. *)
CursorAcceptedOfAnyRequest(q, t) == life[t] > 0 /\ t.returned < MaxLimit
CursorAcceptedForever(q, t) ==
  life[t] >= 0 /\ t.request = q /\ t.returned < MaxLimit

(* decode_wazuh_indexer_cursor and _resolve_cursor_state.  That the expiry *)
(* is at most keep_alive away holds of every issued cursor.                *)
CursorAccepted(q, t) ==
  /\ life[t] > 0
  /\ t.request = q
  /\ t.returned < MaxLimit

Start(c, newCall, at) ==
  /\ pc[c] = "idle"
  /\ pc' = [pc EXCEPT ![c] = at]
  /\ call' = [call EXCEPT ![c] = newCall]
  /\ UNCHANGED <<indexerVars, reply, result, life, late>>

BeginFresh(c, q) ==
  /\ Start(c, [IdleCall(q) EXCEPT !.left = KeepAlive], "create")
  /\ UNCHANGED error

(* The cursor expiry this call may issue is fixed here, by one operation   *)
(* time shared by validation and issuing: "left" counts down from now on.  *)
BeginResumed(c, q, t) ==
  /\ CursorAccepted(q, t)
  /\ Start(c, [request |-> q, pit |-> t.pit, after |-> t.after,
               returned |-> t.returned, left |-> KeepAlive], "search")
  /\ UNCHANGED error

(* cursor_invalid is raised while planning: no request, no cleanup. *)
RejectCursor(c, q, t) ==
  /\ ~CursorAccepted(q, t)
  /\ Start(c, IdleCall(AnyRequest), "return")
  /\ error' = [error EXCEPT ![c] = TRUE]

-----------------------------------------------------------------------------
(* The Indexer serves the request a caller is waiting on.                  *)

AwaitsReply(c, op) == pc[c] = op /\ reply[c] = NoReply

ServeCreate(c, p) ==
  /\ AwaitsReply(c, "create")
  /\ OpenPit(p)
  /\ \E complete \in BOOLEAN :
       reply' = [reply EXCEPT ![c] = Created(p, complete)]
  /\ UNCHANGED <<index, pc, call, error, result, life, late>>

Selected(p, q) == pits[p].snapshot \cap Matches[q]

PageSize(c) ==
  LET remaining == MaxLimit - call[c].returned
      limit     == LimitOf[call[c].request]
  IN  IF limit < remaining THEN limit ELSE remaining

Ascending(s) == \A i, j \in DOMAIN s : i < j => s[i] < s[j]

SeqsUpTo(S, n) == UNION {[1..k -> S] : k \in 0..n}

(* What the Indexer should return: the next PageSize alerts in order. *)
IsNextPage(s, S, after, size) ==
  LET rest == {r \in S : r > after}
  IN  /\ Ascending(s)
      /\ Len(s) = IF size < Cardinality(rest) THEN size ELSE Cardinality(rest)
      /\ \A i \in DOMAIN s : s[i] \in rest
      /\ \A r \in rest : (\A i \in DOMAIN s : s[i] # r)
                           => \A i \in DOMAIN s : s[i] < r

(* The hits and the exact totals a search of this call can be answered with. *)
HitsFor(c) ==
  LET S == Selected(call[c].pit, call[c].request)
  IN  {s \in SeqsUpTo(S, PageSize(c) + 1) :
         FaultyPages \/ IsNextPage(s, S, call[c].after, PageSize(c))}

TotalsFor(c) ==
  IF ExactTotals THEN {Cardinality(Selected(call[c].pit, call[c].request))}
                 ELSE 0..NumRecords

(* The answer is a body that timed out or misses shards, or one with a     *)
(* lower-bound total, or one with an exact total.                          *)
ServeSearch(c) ==
  /\ AwaitsReply(c, "search")
  /\ IsOpen(call[c].pit)
  /\ TouchPit(call[c].pit)
  /\ \/ reply' = [reply EXCEPT ![c] = Page(FALSE, TRUE, 0, << >>)]
     \/ \E s \in HitsFor(c) :
          reply' = [reply EXCEPT ![c] = Page(TRUE, FALSE, 0, s)]
     \/ \E s \in HitsFor(c), n \in TotalsFor(c) :
          reply' = [reply EXCEPT ![c] = Page(TRUE, TRUE, n, s)]
  /\ UNCHANGED <<index, pc, call, error, result, life, late>>

ServeDelete(c) ==
  /\ AwaitsReply(c, "delete")
  /\ \/ /\ DeletePit(call[c].pit)
        /\ reply' = [reply EXCEPT ![c] = Deleted(TRUE)]
     \/ /\ UNCHANGED pits
        /\ reply' = [reply EXCEPT ![c] = Deleted(FALSE)]
  /\ UNCHANGED <<index, pc, call, error, result, life, late>>

(* A request nobody waits for any more still takes effect. *)
ServeLate(m) ==
  /\ m \in late
  /\ \/ m.op = "create" /\ \E p \in PitId : OpenPit(p)
     \/ m.op = "search" /\ IsOpen(m.pit) /\ TouchPit(m.pit)
     \/ m.op = "delete" /\ DeletePit(m.pit)
  /\ late' = late \ {m}
  /\ UNCHANGED <<index, callVars, life>>

-----------------------------------------------------------------------------
(* The caller handles an answer.                                           *)

HandleCreate(c) ==
  /\ reply[c].kind = "created"
  /\ call' = [call EXCEPT ![c].pit = reply[c].pit]
  /\ reply' = [reply EXCEPT ![c] = NoReply]
  /\ \/ /\ reply[c].complete
        /\ pc' = [pc EXCEPT ![c] = "search"]
        /\ UNCHANGED error
     \/ /\ ~reply[c].complete
        /\ pc' = [pc EXCEPT ![c] = "delete"]
        /\ error' = [error EXCEPT ![c] = TRUE]
  /\ UNCHANGED <<indexerVars, result, life, late>>

CountThisPage(c, hits) == Len(hits)

(* previously_returned plus the hits of this page *)
Cumulative(c, hits) == call[c].returned + Len(hits)

OnlyFirstAfterCursor(c, hits) == hits # << >> => hits[1] > call[c].after

(* Each hit strictly after the one before it, the first after the cursor. *)
InStableOrder(c, hits) ==
  /\ Ascending(hits)
  /\ \A i \in DOMAIN hits : hits[i] > call[c].after

ExactMoreResults(c, r) == r.exact /\ r.total > Cumulative(c, r.hits)

(* The checks of parse_wazuh_indexer_response, in its order. *)
PageAccepted(c, r) ==
  /\ r.complete
  /\ Len(r.hits) <= PageSize(c)
  /\ r.exact => r.total >= Cumulative(c, r.hits)
  /\ InStableOrder(c, r.hits)
  /\ Cumulative(c, r.hits) <= MaxLimit
  /\ ~(ExactMoreResults(c, r) /\ r.hits = << >>)

IssuesCursor(c, r) ==
  ExactMoreResults(c, r) /\ Cumulative(c, r.hits) < MaxLimit

NextCursor(c, r) ==
  [request  |-> call[c].request,
   pit      |-> call[c].pit,
   after    |-> r.hits[Len(r.hits)],
   returned |-> Cumulative(c, r.hits)]

LifeFromParseTime(c) == KeepAlive
LifeWithSlack(c) == call[c].left + 1

(* expires_at counts from the operation time, not from the parse. *)
CursorLife(c) == call[c].left

Parsed(r, next) ==
  [hits |-> r.hits, exact |-> r.exact, total |-> r.total, next |-> next]

(* More remains: the page is returned with a cursor and the PIT is kept. *)
PageWithCursor(c) ==
  /\ reply[c].kind = "page"
  /\ PageAccepted(c, reply[c])
  /\ IssuesCursor(c, reply[c])
  /\ LET t == NextCursor(c, reply[c])
     IN  /\ result' = [result EXCEPT ![c] = Parsed(reply[c], t)]
         /\ life' = [life EXCEPT ![t] = IF @ > CursorLife(c) THEN @
                                                             ELSE CursorLife(c)]
  /\ reply' = [reply EXCEPT ![c] = NoReply]
  /\ pc' = [pc EXCEPT ![c] = "return"]
  /\ UNCHANGED <<indexerVars, call, error, late>>

(* The last page, or one the caller must refine: delete before returning. *)
PageWithoutCursor(c) ==
  /\ reply[c].kind = "page"
  /\ PageAccepted(c, reply[c])
  /\ ~IssuesCursor(c, reply[c])
  /\ result' = [result EXCEPT ![c] = Parsed(reply[c], NoCursor)]
  /\ reply' = [reply EXCEPT ![c] = NoReply]
  /\ pc' = [pc EXCEPT ![c] = "delete"]
  /\ UNCHANGED <<indexerVars, call, error, life, late>>

(* A refused page, or a cursor that cannot be encoded (no runtime key). *)
PageRejected(c) ==
  /\ reply[c].kind = "page"
  /\ ~PageAccepted(c, reply[c]) \/ IssuesCursor(c, reply[c])
  /\ error' = [error EXCEPT ![c] = TRUE]
  /\ reply' = [reply EXCEPT ![c] = NoReply]
  /\ pc' = [pc EXCEPT ![c] = "delete"]
  /\ UNCHANGED <<indexerVars, call, result, life, late>>

AnyCleanupReply(r) == TRUE

(* _validate_pit_cleanup: an unconfirmed deletion discards the result. *)
CleanupConfirmed(r) == r.confirmed

HandleDelete(c) ==
  /\ reply[c].kind = "deleted"
  /\ \/ /\ CleanupConfirmed(reply[c])
        /\ UNCHANGED <<error, result>>
     \/ /\ ~CleanupConfirmed(reply[c])
        /\ error' = [error EXCEPT ![c] = TRUE]
        /\ result' = [result EXCEPT ![c] = NoResult]
  /\ reply' = [reply EXCEPT ![c] = NoReply]
  /\ pc' = [pc EXCEPT ![c] = "return"]
  /\ UNCHANGED <<indexerVars, call, life, late>>

RaiseAtOnce(c) == "return"

(* Where an exception out of _request_json leads. *)
AfterFailure(c) == IF pc[c] = "search" THEN "delete" ELSE "return"

(* Timeout, connection or TLS failure, HTTP status, unusable body: the     *)
(* caller learns nothing, whether or not the Indexer acted or will act.    *)
RequestFails(c) ==
  /\ pc[c] \in {"create", "search", "delete"}
  /\ late' = IF reply[c] = NoReply
             THEN late \cup {[op |-> pc[c], pit |-> call[c].pit]}
             ELSE late
  /\ pc' = [pc EXCEPT ![c] = AfterFailure(c)]
  /\ error' = [error EXCEPT ![c] = TRUE]
  /\ result' = [result EXCEPT ![c] = NoResult]
  /\ reply' = [reply EXCEPT ![c] = NoReply]
  /\ UNCHANGED <<indexerVars, call, life>>

-----------------------------------------------------------------------------
(* The call is over for its caller: it returned, raised, or died with its  *)
(* process.                                                                *)

Forget(c) ==
  /\ pc' = [pc EXCEPT ![c] = "idle"]
  /\ call' = [call EXCEPT ![c] = IdleCall(AnyRequest)]
  /\ reply' = [reply EXCEPT ![c] = NoReply]
  /\ error' = [error EXCEPT ![c] = FALSE]
  /\ result' = [result EXCEPT ![c] = NoResult]
  /\ UNCHANGED <<indexerVars, life>>

Take(c) == pc[c] = "return" /\ Forget(c) /\ UNCHANGED late

Crash(c) ==
  /\ pc[c] # "idle"
  /\ Forget(c)
  /\ late' = IF pc[c] # "return" /\ reply[c] = NoReply
             THEN late \cup {[op |-> pc[c], pit |-> call[c].pit]}
             ELSE late

(* Time passes for PITs, cursors and running calls alike. *)
Tick ==
  /\ AgePits
  /\ life' = [t \in Cursor |-> Older(life[t])]
  /\ call' = [c \in Caller |-> [call[c] EXCEPT !.left = Older(@)]]
  /\ UNCHANGED <<index, pc, reply, error, result, late>>

IndexerStep ==
  \/ \E r \in Record : Ingest(r) /\ UNCHANGED <<callVars, life, late>>
  \/ \E p \in PitId : Reap(p) /\ UNCHANGED <<callVars, life, late>>
  \/ \E m \in late : ServeLate(m)
  \/ Tick

(* One step of the running call of c, the Indexer's side included. *)
CallStep(c) ==
  \/ \E p \in PitId : ServeCreate(c, p)
  \/ ServeSearch(c)
  \/ ServeDelete(c)
  \/ HandleCreate(c)
  \/ PageWithCursor(c)
  \/ PageWithoutCursor(c)
  \/ PageRejected(c)
  \/ HandleDelete(c)
  \/ RequestFails(c)

IssuedCursors == {t \in Cursor : life[t] >= 0}

(* Callers hand cursors to each other, and present them again. *)
Begin(c) ==
  /\ Cardinality(IssuedCursors) < MaxCursors
  /\ \E q \in Request :
       \/ BeginFresh(c, q)
       \/ \E t \in IssuedCursors : BeginResumed(c, q, t) \/ RejectCursor(c, q, t)

Next ==
  \/ IndexerStep
  \/ \E c \in Caller : Begin(c) \/ CallStep(c) \/ Take(c) \/ Crash(c)

Spec == Init /\ [][Next]_vars

(* Time passes and the reaper runs; nothing is assumed of the callers. *)
FairSpec ==
  Spec /\ WF_vars(Tick) /\ \A p \in PitId : WF_vars(Reap(p) /\ UNCHANGED
                                            <<callVars, life, late>>)

-----------------------------------------------------------------------------
(* Properties *)

(* A cursor never outlives what it points at: while it is unexpired its    *)
(* PIT is open for at least as long, or somebody deleted the PIT.  The     *)
(* expiry written by parse_wazuh_indexer_response and the keep_alive sent  *)
(* with the search are set at different moments by different clocks.       *)
CursorWithinPit ==
  \A t \in Cursor : life[t] > 0 =>
    \/ pits[t.pit].state = "deleted"
    \/ IsOpen(t.pit) /\ pits[t.pit].ttl >= life[t]

(* A cursor's returned_records never counts more alerts than there are at  *)
(* or before its position in the PIT it names, for the request it was      *)
(* issued to: no alert is counted twice along a chain of calls, whatever   *)
(* the Indexer returned and whoever presented the cursors.                 *)
ReadThrough(p, q, last) == {r \in Selected(p, q) : r <= last}

CursorAccounting ==
  \A t \in IssuedCursors :
    t.returned <= Cardinality(ReadThrough(t.pit, t.request, t.after))

Succeeded(c) == pc[c] = "return" /\ ~error[c]

TrueTotal(c) == Cardinality(Selected(call[c].pit, call[c].request))

(* A page returned as complete (exact total reached, not truncated) holds  *)
(* exactly the alerts after the cursor it resumed, in order: nothing was   *)
(* skipped or repeated on it, provided the Indexer's total is right.       *)
FinalPageExact ==
  \A c \in Caller :
    LET r == result[c]
    IN  /\ Succeeded(c)
        /\ r.exact
        /\ r.total = Cumulative(c, r.hits)
        /\ r.total = TrueTotal(c)
        => /\ Ascending(r.hits)
           /\ {r.hits[i] : i \in DOMAIN r.hits}
                = {a \in Selected(call[c].pit, call[c].request) :
                     a > call[c].after}

(* Success without a cursor means the PIT is gone: the cleanup of          *)
(* execute_wazuh_indexer_query was confirmed, not just attempted.          *)
SuccessReleasesPit ==
  \A c \in Caller :
    Succeeded(c) /\ result[c].next = NoCursor => ~IsOpen(call[c].pit)

(* A call that knows a PIT id and hands out no cursor ends only through a  *)
(* deletion request, however it fails (short of its process dying).        *)
EndsThroughDeletion ==
  [][\A c \in Caller :
       /\ pc[c] # "return" /\ pc'[c] = "return"
       /\ call'[c].pit # NoPit
       /\ result'[c].next = NoCursor
       => pc[c] = "delete"]_vars

(* No pattern of resuming, replaying, failing or abandoning keeps a PIT    *)
(* open for ever: cursors expire, and each one only leads further down the *)
(* sort order, so the keep-alive is restarted finitely often.              *)
AbandonedPitExpires ==
  \A p \in PitId : IsOpen(p) ~> ~IsOpen(p)
=============================================================================
