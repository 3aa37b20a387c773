-------------------- MODULE WazuhIndexerTransportProofs --------------------
(***************************************************************************)
(* Proofs about WazuhIndexerTransport for any number of callers, requests, *)
(* PITs and alerts, any page size and cap, and an Indexer that may order,  *)
(* skip, repeat and miscount hits as it likes.                             *)
(*                                                                         *)
(* TypeOK and Phases are inductive together.  On top of them, CallInv says *)
(* what a call has established at each of its steps and CursorInv what a   *)
(* cursor promises; PitFrame bounds what any step does to a PIT in use, so *)
(* a call or cursor not touched by a step keeps its part (CallStable,      *)
(* CursorStable), and one lemma per action (Own...) covers the acting call.*)
(***************************************************************************)
EXTENDS WazuhIndexerTransport, FiniteSetTheorems, TLAPS

(* A call may begin at any moment with any cursor value: neither the bound *)
(* on the cursors issued nor where a caller has a cursor from matters here. *)
AnyBegin(c) ==
  \E q \in Request :
    \/ BeginFresh(c, q)
    \/ \E t \in Cursor : BeginResumed(c, q, t) \/ RejectCursor(c, q, t)

AnyNext ==
  \/ IndexerStep
  \/ \E c \in Caller : AnyBegin(c) \/ CallStep(c) \/ Take(c) \/ Crash(c)

LEMMA NextIsAnyNext == [Next]_vars => [AnyNext]_vars
BY DEF Next, AnyNext, Begin, AnyBegin, IssuedCursors

(* Where a call can be tells which answer can be on its way and whether a  *)
(* PIT id is known.                                                        *)
Phases ==
  \A c \in Caller :
    /\ reply[c].kind = "created" => pc[c] = "create"
    /\ reply[c].kind = "page" => pc[c] = "search"
    /\ reply[c].kind = "deleted" => pc[c] = "delete"
    /\ pc[c] \in {"search", "delete"} => call[c].pit \in PitId
    /\ pc[c] = "create" => call[c].pit = NoPit

(* The alerts a request selects from a PIT are finitely many. *)
LEMMA SelectedFinite ==
  ASSUME TypeOK, NEW p \in PitId, NEW q \in Request
  PROVE  /\ Selected(p, q) \subseteq Record
         /\ IsFiniteSet(Selected(p, q))
         /\ Cardinality(Selected(p, q)) \in 0..NumRecords
<1>1. Selected(p, q) \subseteq Record
  BY RequestAssumption DEF TypeOK, IndexerTypeOK, Pit, Selected
<1>2. IsFiniteSet(Record) /\ Cardinality(Record) = NumRecords
  BY FS_Interval, NumRecordsAssumption DEF Record
<1>. QED  BY <1>1, <1>2, FS_Subset, FS_CardinalityType, NumRecordsAssumption

(* A search is answered only with alerts the request selects. *)
LEMMA HitsTyped ==
  ASSUME TypeOK, NEW c \in Caller, call[c].pit \in PitId
  PROVE  /\ \A s \in HitsFor(c) :
              /\ s \in Seq(Record)
              /\ \A i \in DOMAIN s : s[i] \in Selected(call[c].pit, call[c].request)
         /\ TotalsFor(c) \subseteq 0..NumRecords
<1>. DEFINE S == Selected(call[c].pit, call[c].request)
            size == PageSize(c) + 1
<1>1. S \subseteq Record /\ Cardinality(S) \in 0..NumRecords
  BY SelectedFinite DEF TypeOK, Call
<1>2. ASSUME NEW k \in 0..size, NEW s \in [1..k -> S]
      PROVE  s \in Seq(Record) /\ \A i \in DOMAIN s : s[i] \in S
  BY <1>1
<1>3. HitsFor(c) \subseteq SeqsUpTo(S, size)
  BY DEF HitsFor
<1>4. TotalsFor(c) \subseteq 0..NumRecords
  BY <1>1 DEF TotalsFor
<1>. QED  BY <1>2, <1>3, <1>4 DEF SeqsUpTo

(* What the Indexer does to a PIT leaves it well typed. *)
LEMMA PitsTyped ==
  ASSUME pits \in [PitId -> Pit], NEW p \in PitId,
         (OpenPit(p) /\ index \in SUBSET Record) \/ TouchPit(p) \/ DeletePit(p)
  PROVE  pits' \in [PitId -> Pit]
<1>1. \A q \in PitId : pits[q] \in Pit
  OBVIOUS
<1>2. ASSUME NEW x \in Pit
      PROVE  [x EXCEPT !.ttl = KeepAlive] \in Pit
             /\ [x EXCEPT !.state = "deleted"] \in Pit
  BY KeepAliveAssumption DEF Pit, PitState
<1>3. CASE OpenPit(p) /\ index \in SUBSET Record
  BY <1>3, KeepAliveAssumption DEF OpenPit, Pit, PitState
<1>. HIDE DEF Pit
<1>4. CASE TouchPit(p)
  BY <1>1, <1>2, <1>4 DEF TouchPit
<1>5. CASE DeletePit(p)
  BY <1>1, <1>2, <1>5 DEF DeletePit
<1>. QED  BY <1>3, <1>4, <1>5

(* TypeOK and Phases hold at first and are preserved by every action. *)
LEMMA ShapeInit == Init => TypeOK /\ Phases
<1>1. AnyRequest \in Request
  BY RequestAssumption DEF AnyRequest
<1>. QED
  BY <1>1, KeepAliveAssumption, MaxLimitAssumption, NumRecordsAssumption
  DEF Init, IndexerInit, TransportInit, TypeOK, IndexerTypeOK, Phases, Pit, PitState,
      Call, IdleCall, Reply, NoReply, Result, NoResult, Cursor

LEMMA ShapeIndexer ==
  ASSUME TypeOK, Phases, IndexerStep
  PROVE  TypeOK' /\ Phases'
<1>. USE KeepAliveAssumption
         DEF TypeOK, IndexerTypeOK, Phases, Pit, PitState, callVars
<1>1. CASE \E r \in Record : Ingest(r) /\ UNCHANGED <<callVars, life, late>>
  BY <1>1 DEF Ingest
<1>2. CASE \E p \in PitId : Reap(p) /\ UNCHANGED <<callVars, life, late>>
  BY <1>2 DEF Reap, IsOpen
<1>3. CASE \E m \in late : ServeLate(m)
  BY <1>3 DEF ServeLate, IsOpen, OpenPit, TouchPit, DeletePit
<1>4. CASE Tick
  <2>1. \A t \in Int, n \in Nat : t \in 0..n => Older(t) \in 0..n
    BY DEF Older
  <2>2. \A t \in Int, n \in Nat : t \in -1..n => Older(t) \in -1..n
    BY DEF Older
  <2>3. IndexerTypeOK'
    <3>1. \A x \in Pit : [x EXCEPT !.ttl = Older(@)] \in Pit
      BY <2>1
    <3>. QED  BY <1>4, <3>1 DEF Tick, AgePits
  <2>4. (call \in [Caller -> Call])'
    <3>1. \A x \in Call : [x EXCEPT !.left = Older(@)] \in Call
      BY <2>1 DEF Call
    <3>. QED  BY <1>4, <3>1 DEF Tick
  <2>5. (life \in [Cursor -> -1..KeepAlive])'
    BY <1>4, <2>2 DEF Tick
  <2>6. Phases'
    BY <1>4 DEF Tick, Call
  <2>. QED  BY <1>4, <2>3, <2>4, <2>5, <2>6 DEF Tick
<1>. QED  BY <1>1, <1>2, <1>3, <1>4 DEF IndexerStep

LEMMA ShapeServe ==
  ASSUME TypeOK, Phases, NEW c \in Caller,
         (\E p \in PitId : ServeCreate(c, p)) \/ ServeSearch(c) \/ ServeDelete(c)
  PROVE  TypeOK' /\ Phases'
<1>. USE KeepAliveAssumption DEF TypeOK, IndexerTypeOK, AwaitsReply
<1>1. CASE \E p \in PitId : ServeCreate(c, p)
  BY <1>1 DEF ServeCreate, OpenPit, Created, Reply, Phases, Pit, PitState
<1>2. CASE ServeSearch(c)
  <2>1. call[c].pit \in PitId
    BY <1>2 DEF ServeSearch, Phases
  <2>2. PICK e \in BOOLEAN, k \in BOOLEAN, n \in 0..NumRecords, s \in Seq(Record) :
          reply' = [reply EXCEPT ![c] = Page(k, e, n, s)]
    <3>1. 0 \in 0..NumRecords /\ << >> \in Seq(Record)
      BY NumRecordsAssumption
    <3>. QED  BY <1>2, <2>1, <3>1, HitsTyped DEF ServeSearch
  <2>3. IndexerTypeOK'
    BY <1>2, <2>1, PitsTyped DEF ServeSearch
  <2>4. Page(k, e, n, s) \in Reply /\ Page(k, e, n, s).kind = "page"
    BY DEF Page, Reply
  <2>. HIDE DEF Page, Reply
  <2>5. Phases'
    BY <1>2, <2>2, <2>4 DEF ServeSearch, Phases
  <2>. QED  BY <1>2, <2>2, <2>3, <2>4, <2>5 DEF ServeSearch
<1>3. CASE ServeDelete(c)
  <2>1. call[c].pit \in PitId
    BY <1>3 DEF ServeDelete, Phases
  <2>2. IndexerTypeOK'
    BY <1>3, <2>1, PitsTyped DEF ServeDelete
  <2>3. \A k \in BOOLEAN : Deleted(k) \in Reply /\ Deleted(k).kind = "deleted"
    BY DEF Deleted, Reply
  <2>4. PICK r \in {Deleted(TRUE), Deleted(FALSE)} : reply' = [reply EXCEPT ![c] = r]
    BY <1>3 DEF ServeDelete
  <2>5. r \in Reply /\ r.kind = "deleted"
    BY <2>3
  <2>6. Phases'
    BY <1>3, <2>4, <2>5 DEF ServeDelete, Phases
  <2>. QED  BY <1>3, <2>2, <2>4, <2>5, <2>6 DEF ServeDelete
<1>. QED  BY <1>1, <1>2, <1>3

(* The fields of an answer, by its kind. *)
LEMMA RepliesTyped ==
  ASSUME NEW r \in Reply
  PROVE  /\ r.kind = "created" => r.pit \in PitId /\ r.complete \in BOOLEAN
         /\ r.kind = "page" =>
              /\ r.complete \in BOOLEAN /\ r.exact \in BOOLEAN
              /\ r.total \in 0..NumRecords /\ r.hits \in Seq(Record)
         /\ r.kind = "deleted" => r.confirmed \in BOOLEAN
<1>1. CASE r = NoReply
  BY <1>1 DEF NoReply
<1>2. CASE r \in [kind: {"created"}, pit: PitId, complete: BOOLEAN]
  BY <1>2
<1>3. CASE r \in [kind: {"page"}, complete: BOOLEAN, exact: BOOLEAN,
                  total: 0..NumRecords, hits: Seq(Record)]
  BY <1>3
<1>4. CASE r \in [kind: {"deleted"}, confirmed: BOOLEAN]
  BY <1>4
<1>. QED  BY <1>1, <1>2, <1>3, <1>4 DEF Reply

LEMMA ShapeBegin ==
  ASSUME TypeOK, Phases, NEW c \in Caller, AnyBegin(c)
  PROVE  TypeOK' /\ Phases'
<1>1. PICK new \in Call, at \in {"create", "search", "return"} :
        /\ Start(c, new, at)
        /\ error' = error \/ error' = [error EXCEPT ![c] = TRUE]
        /\ at = "create" => new.pit = NoPit
        /\ at = "search" => new.pit \in PitId
  <2>1. AnyRequest \in Request
    BY RequestAssumption DEF AnyRequest
  <2>2. \A q \in Request : IdleCall(q) \in Call /\ IdleCall(q).pit = NoPit
                            /\ [IdleCall(q) EXCEPT !.left = KeepAlive] \in Call
                            /\ [IdleCall(q) EXCEPT !.left = KeepAlive].pit = NoPit
    BY KeepAliveAssumption, MaxLimitAssumption, NumRecordsAssumption DEF IdleCall, Call
  <2>3. PICK q \in Request, t \in Cursor \cup {NoCursor} :
          \/ BeginFresh(c, q)
          \/ t \in Cursor /\ BeginResumed(c, q, t)
          \/ RejectCursor(c, q, t)
    BY DEF AnyBegin
  <2>4. CASE BeginFresh(c, q)
    BY <2>2, <2>4 DEF BeginFresh
  <2>5. CASE t \in Cursor /\ BeginResumed(c, q, t)
    <3>. DEFINE new == [request |-> q, pit |-> t.pit, after |-> t.after,
                        returned |-> t.returned, left |-> KeepAlive]
    <3>1. new \in Call /\ new.pit \in PitId
      BY <2>5, KeepAliveAssumption, MaxLimitAssumption, NumRecordsAssumption
      DEF Call, Cursor, Record
    <3>2. Start(c, new, "search") /\ error' = error
      BY <2>5 DEF BeginResumed
    <3>. QED  BY <3>1, <3>2
  <2>6. CASE RejectCursor(c, q, t)
    BY <2>1, <2>2, <2>6 DEF RejectCursor
  <2>. QED  BY <2>3, <2>4, <2>5, <2>6
<1>2. Phases'
  BY <1>1 DEF Start, TypeOK, Phases
<1>. QED  BY <1>1, <1>2 DEF Start, TypeOK, IndexerTypeOK, indexerVars

LEMMA ShapeHandle ==
  ASSUME TypeOK, Phases, NEW c \in Caller,
         HandleCreate(c) \/ HandleDelete(c) \/ RequestFails(c)
         \/ PageWithoutCursor(c) \/ PageRejected(c)
  PROVE  TypeOK' /\ Phases'
<1>. USE DEF TypeOK, IndexerTypeOK, indexerVars
<1>1. NoReply \in Reply /\ NoReply.kind = "none" /\ NoResult \in Result
  BY NumRecordsAssumption DEF NoReply, Reply, NoResult, Result
<1>2. ASSUME reply[c].kind = "created"
      PROVE  reply[c].pit \in PitId /\ reply[c].complete \in BOOLEAN
  BY <1>2, RepliesTyped
<1>3. ASSUME reply[c].kind = "page"
      PROVE  Parsed(reply[c], NoCursor) \in Result
  BY <1>3, RepliesTyped DEF Parsed, Result
<1>4. \A p \in PitId : [call[c] EXCEPT !.pit = p] \in Call
  BY DEF Call
<1>5. CASE HandleCreate(c)
  <2>1. reply[c].kind = "created" /\ reply[c].pit \in PitId
    BY <1>2, <1>5 DEF HandleCreate
  <2>2. (call \in [Caller -> Call])'
    BY <1>4, <1>5, <2>1 DEF HandleCreate
  <2>3. Phases'
    BY <1>1, <1>5, <2>1 DEF HandleCreate, Phases, Call
  <2>. QED  BY <1>1, <1>5, <2>2, <2>3 DEF HandleCreate
<1>6. CASE HandleDelete(c)
  BY <1>1, <1>6 DEF HandleDelete, Phases
<1>7. CASE RequestFails(c)
  <2>1. [op |-> pc[c], pit |-> call[c].pit] \in LateRequest
    BY <1>7 DEF RequestFails, LateRequest, Call
  <2>. QED  BY <1>1, <1>7, <2>1 DEF RequestFails, AfterFailure, Phases
<1>8. CASE PageWithoutCursor(c)
  BY <1>1, <1>3, <1>8 DEF PageWithoutCursor, Phases
<1>9. CASE PageRejected(c)
  BY <1>1, <1>9 DEF PageRejected, Phases
<1>. QED  BY <1>5, <1>6, <1>7, <1>8, <1>9

(* A page that leads to a cursor has a last hit to resume after. *)
LEMMA NextCursorTyped ==
  ASSUME TypeOK, Phases, NEW c \in Caller, reply[c].kind = "page",
         PageAccepted(c, reply[c]), IssuesCursor(c, reply[c])
  PROVE  /\ NextCursor(c, reply[c]) \in Cursor
         /\ Len(reply[c].hits) \in 1..MaxLimit
<1>. DEFINE r == reply[c]
<1>1. r.hits \in Seq(Record) /\ r.total \in 0..NumRecords
  BY RepliesTyped DEF TypeOK
<1>2. Len(r.hits) # 0
  BY <1>1 DEF PageAccepted, IssuesCursor
<1>3. call[c].returned \in 0..MaxLimit /\ call[c].request \in Request
  BY DEF TypeOK, Call
<1>4. Len(r.hits) \in 1..MaxLimit /\ Cumulative(c, r.hits) \in 1..MaxLimit
  BY <1>1, <1>2, <1>3, MaxLimitAssumption DEF PageAccepted, Cumulative
<1>5. r.hits[Len(r.hits)] \in Record
  BY <1>1, <1>4
<1>6. call[c].pit \in PitId
  BY DEF Phases
<1>. QED  BY <1>3, <1>4, <1>5, <1>6 DEF NextCursor, Cursor

LEMMA ShapeCursorPage ==
  ASSUME TypeOK, Phases, NEW c \in Caller, PageWithCursor(c)
  PROVE  TypeOK' /\ Phases'
<1>. DEFINE t == NextCursor(c, reply[c])
<1>1. reply[c].kind = "page" /\ t \in Cursor
  BY NextCursorTyped DEF PageWithCursor
<1>2. Parsed(reply[c], t) \in Result
  BY <1>1, RepliesTyped DEF TypeOK, Parsed, Result
<1>3. CursorLife(c) \in -1..KeepAlive
  BY KeepAliveAssumption DEF TypeOK, Call, CursorLife
<1>4. NoReply \in Reply /\ NoReply.kind = "none"
  BY DEF NoReply, Reply
<1>. HIDE DEF t
<1>5. /\ result' = [result EXCEPT ![c] = Parsed(reply[c], t)]
      /\ life' = [life EXCEPT ![t] = IF @ > CursorLife(c) THEN @ ELSE CursorLife(c)]
      /\ reply' = [reply EXCEPT ![c] = NoReply]
      /\ pc' = [pc EXCEPT ![c] = "return"]
      /\ UNCHANGED <<indexerVars, call, error, late>>
  BY DEF PageWithCursor, t
<1>6. life' \in [Cursor -> -1..KeepAlive]
  BY <1>1, <1>3, <1>5 DEF TypeOK
<1>7. Phases'
  BY <1>4, <1>5 DEF TypeOK, Phases
<1>. QED  BY <1>2, <1>4, <1>5, <1>6, <1>7 DEF TypeOK, IndexerTypeOK, indexerVars

LEMMA ShapeEnd ==
  ASSUME TypeOK, Phases, NEW c \in Caller, Take(c) \/ Crash(c)
  PROVE  TypeOK' /\ Phases'
<1>1. Forget(c)
  BY DEF Take, Crash
<1>2. IdleCall(AnyRequest) \in Call
  BY RequestAssumption, KeepAliveAssumption, MaxLimitAssumption, NumRecordsAssumption
  DEF IdleCall, Call, AnyRequest
<1>3. NoReply \in Reply /\ NoReply.kind = "none" /\ NoResult \in Result
  BY NumRecordsAssumption DEF NoReply, Reply, NoResult, Result
<1>4. late' \in SUBSET LateRequest
  <2>1. ASSUME Crash(c), pc[c] # "return"
        PROVE  [op |-> pc[c], pit |-> call[c].pit] \in LateRequest
    BY <2>1 DEF Crash, TypeOK, Call, LateRequest
  <2>. QED  BY <2>1 DEF Take, Crash, TypeOK
<1>5. Phases'
  BY <1>1, <1>3 DEF Forget, TypeOK, Phases
<1>. QED
  BY <1>1, <1>2, <1>3, <1>4, <1>5 DEF Forget, TypeOK, IndexerTypeOK, indexerVars

LEMMA ShapeNext == TypeOK /\ Phases /\ [AnyNext]_vars => TypeOK' /\ Phases'
<1>. SUFFICES ASSUME TypeOK, Phases, [AnyNext]_vars
              PROVE  TypeOK' /\ Phases'
  OBVIOUS
<1>1. CASE UNCHANGED vars
  BY <1>1 DEF vars, TypeOK, IndexerTypeOK, Phases
<1>2. CASE IndexerStep
  BY <1>2, ShapeIndexer
<1>3. ASSUME NEW c \in Caller, AnyBegin(c) \/ CallStep(c) \/ Take(c) \/ Crash(c)
      PROVE  TypeOK' /\ Phases'
  BY <1>3, ShapeBegin, ShapeServe, ShapeHandle, ShapeCursorPage, ShapeEnd
  DEF CallStep
<1>. QED  BY <1>1, <1>2, <1>3 DEF AnyNext

(* Every reachable state is well typed. *)
THEOREM TypeCorrect == Spec => []TypeOK
<1>1. Spec => [](TypeOK /\ Phases)
  BY ShapeInit, ShapeNext, NextIsAnyNext, PTL DEF Spec
<1>. QED  BY <1>1, PTL

-----------------------------------------------------------------------------
(* PITs and cursors *)

(* A PIT id somebody was given. *)
Known(p) == pits[p].state # "unused"

(* A PIT stays usable for n more ticks, unless somebody deletes it. *)
Kept(p, n) ==
  n > 0 => \/ pits[p].state = "deleted"
           \/ IsOpen(p) /\ pits[p].ttl >= n

(* Nothing a step does to a PIT in use changes its content or revives it, *)
(* and only time takes from what Kept promises.                           *)
LEMMA PitFrame ==
  ASSUME TypeOK, Phases, [AnyNext]_vars, NEW p \in PitId, Known(p)
  PROVE  /\ Known(p)'
         /\ pits'[p].snapshot = pits[p].snapshot
         /\ ~IsOpen(p) => ~IsOpen(p)'
         /\ Tick \/ \A n \in 0..KeepAlive : Kept(p, n) => Kept(p, n)'
<1>. USE KeepAliveAssumption DEF Known, Kept, IsOpen
<1>. DEFINE Frame(q) ==
       /\ q \in PitId
       /\ OpenPit(q) \/ TouchPit(q) \/ DeletePit(q) \/ (Reap(q) /\ IsOpen(q))
<1>1. ASSUME NEW q, Frame(q)
      PROVE  /\ Known(p)'
             /\ pits'[p].snapshot = pits[p].snapshot
             /\ ~IsOpen(p) => ~IsOpen(p)'
             /\ \A n \in 0..KeepAlive : Kept(p, n) => Kept(p, n)'
  <2>1. pits \in [PitId -> Pit] /\ pits[p].ttl \in 0..KeepAlive
    BY DEF TypeOK, IndexerTypeOK, Pit
  <2>2. CASE OpenPit(q)
    BY <1>1, <2>1, <2>2 DEF OpenPit
  <2>3. CASE TouchPit(q)
    BY <1>1, <2>1, <2>3 DEF TouchPit, Pit
  <2>4. CASE DeletePit(q)
    BY <1>1, <2>1, <2>4 DEF DeletePit, Pit
  <2>5. CASE Reap(q)
    BY <1>1, <2>1, <2>5 DEF Reap, Pit
  <2>. QED  BY <1>1, <2>2, <2>3, <2>4, <2>5
<1>. HIDE DEF Frame
<1>2. CASE Tick
  BY <1>2 DEF Tick, AgePits, TypeOK, IndexerTypeOK, Pit
<1>3. CASE pits' = pits
  BY <1>3
<1>4. ASSUME ~Tick, pits' # pits
      PROVE  \E q : Frame(q)
  <2>1. CASE IndexerStep
    <3>1. ASSUME NEW m \in late, ServeLate(m)
          PROVE  \E q : Frame(q)
      <4>1. CASE \E q \in PitId : OpenPit(q)
        BY <4>1 DEF Frame
      <4>2. CASE TouchPit(m.pit) \/ DeletePit(m.pit)
        <5>1. m.pit \in PitId
          BY <1>4, <4>2 DEF TouchPit, DeletePit, TypeOK, IndexerTypeOK
        <5>. QED  BY <4>2, <5>1 DEF Frame
      <4>. QED  BY <3>1, <4>1, <4>2 DEF ServeLate
    <3>. QED  BY <1>4, <2>1, <3>1 DEF IndexerStep, Ingest, Reap, Frame
  <2>2. ASSUME NEW c \in Caller, AnyBegin(c) \/ CallStep(c) \/ Take(c) \/ Crash(c)
        PROVE  \E q : Frame(q)
    <3>1. \/ \E q \in PitId : ServeCreate(c, q)
          \/ ServeSearch(c)
          \/ ServeDelete(c)
      BY <1>4, <2>2 DEF AnyBegin, BeginFresh, BeginResumed, RejectCursor, Start,
         CallStep, HandleCreate, PageWithCursor, PageWithoutCursor, PageRejected,
         HandleDelete, RequestFails, Take, Crash, Forget, indexerVars
    <3>. QED  BY <1>4, <3>1 DEF Frame, ServeCreate, ServeSearch, ServeDelete, AwaitsReply, Phases
  <2>. QED  BY <1>4, <2>1, <2>2 DEF AnyNext, vars
<1>. QED  BY <1>1, <1>2, <1>3, <1>4

(* The strengthening: what holds of a call at each of its steps ... *)
HasPit(c) == pc[c] \in {"search", "delete"} \/ Succeeded(c)

PagePassed(c) == ~error[c] /\ pc[c] \in {"delete", "return"}

Counted(c) ==
  call[c].returned
    <= Cardinality(ReadThrough(call[c].pit, call[c].request, call[c].after))

HitsSelected(c, hits) ==
  \A i \in DOMAIN hits : hits[i] \in Selected(call[c].pit, call[c].request)

CallInv(c) ==
  /\ HasPit(c) => call[c].pit \in PitId /\ Known(call[c].pit)
  /\ pc[c] = "create" => call[c].returned = 0
  /\ reply[c].kind = "created" => Known(reply[c].pit)
  /\ reply[c].kind = "page" =>
       /\ Kept(call[c].pit, call[c].left)
       /\ HitsSelected(c, reply[c].hits)
  /\ pc[c] = "search" \/ PagePassed(c) => Counted(c)
  /\ PagePassed(c) =>
       /\ HitsSelected(c, result[c].hits)
       /\ InStableOrder(c, result[c].hits)
  /\ reply[c].kind = "deleted" /\ reply[c].confirmed => ~IsOpen(call[c].pit)
  /\ Succeeded(c) /\ result[c].next = NoCursor => ~IsOpen(call[c].pit)

(* ... and of a cursor once issued. *)
CursorInv(t) ==
  life[t] >= 0 =>
    /\ Known(t.pit)
    /\ Kept(t.pit, life[t])
    /\ t.returned <= Cardinality(ReadThrough(t.pit, t.request, t.after))

IInv ==
  /\ TypeOK
  /\ Phases
  /\ \A c \in Caller : CallInv(c)
  /\ \A t \in Cursor : CursorInv(t)

(* A PIT of the same content selects the same alerts. *)
LEMMA SameContent ==
  ASSUME NEW p, pits'[p].snapshot = pits[p].snapshot
  PROVE  \A q, n : /\ Selected(p, q)' = Selected(p, q)
                   /\ ReadThrough(p, q, n)' = ReadThrough(p, q, n)
BY DEF Selected, ReadThrough

(* What is owed to a PIT's user stays owed, and shrinks only with time. *)
LEMMA KeptFrame ==
  ASSUME TypeOK, Phases, [AnyNext]_vars, NEW p \in PitId, Known(p),
         NEW n \in 0..KeepAlive, Kept(p, n),
         NEW m, m = IF Tick THEN Older(n) ELSE n
  PROVE  Kept(p, m)'
<1>1. CASE Tick
  <2>1. pits[p] \in Pit /\ m = Older(n)
    BY <1>1 DEF TypeOK, IndexerTypeOK
  <2>2. pits'[p].state = pits[p].state /\ pits'[p].ttl = Older(pits[p].ttl)
    BY <1>1, <2>1 DEF Tick, AgePits, Pit
  <2>3. \A ttl \in 0..KeepAlive : ttl >= n => Older(ttl) >= Older(n)
    BY KeepAliveAssumption DEF Older
  <2>4. Older(n) > 0 => n > 0
    BY KeepAliveAssumption DEF Older
  <2>. QED  BY <2>1, <2>2, <2>3, <2>4 DEF Kept, IsOpen, Pit
<1>2. CASE ~Tick
  BY <1>2, PitFrame
<1>. QED  BY <1>1, <1>2

(* A step of somebody else, or the passing of time. *)
LEMMA CallStable ==
  ASSUME TypeOK, Phases, [AnyNext]_vars, NEW c \in Caller, CallInv(c),
         pc'[c] = pc[c], reply'[c] = reply[c], error'[c] = error[c],
         result'[c] = result[c],
         call'[c].request = call[c].request, call'[c].pit = call[c].pit,
         call'[c].after = call[c].after, call'[c].returned = call[c].returned,
         call'[c].left = IF Tick THEN Older(call[c].left) ELSE call[c].left
  PROVE  CallInv(c)'
<1>1. PICK k : k = call[c]
  OBVIOUS
<1>2. PICK r : r = reply[c]
  OBVIOUS
<1>3. PICK e : e = result[c]
  OBVIOUS
<1>4. /\ call'[c].pit = k.pit /\ call'[c].request = k.request
      /\ call'[c].after = k.after /\ call'[c].returned = k.returned
      /\ reply'[c] = r /\ result'[c] = e
  BY <1>1, <1>2, <1>3
<1>5. r.kind = "created" => Known(r.pit)'
  BY <1>2, PitFrame, RepliesTyped DEF CallInv, TypeOK
<1>6. /\ HasPit(c)' = HasPit(c)
      /\ PagePassed(c)' = PagePassed(c)
      /\ Succeeded(c)' = Succeeded(c)
  BY DEF HasPit, PagePassed, Succeeded
<1>7. CASE ~HasPit(c)
  <2>1. pc[c] # "search" /\ ~PagePassed(c) /\ ~Succeeded(c)
        /\ r.kind # "page" /\ r.kind # "deleted"
    BY <1>2, <1>7 DEF HasPit, PagePassed, Succeeded, Phases
  <2>. QED  BY <1>1, <1>4, <1>5, <1>6, <1>7, <2>1 DEF CallInv
<1>8. CASE HasPit(c)
  <2>1. k.pit \in PitId /\ Known(k.pit)
    BY <1>1, <1>8 DEF CallInv
  <2>2. /\ Known(k.pit)'
        /\ pits'[k.pit].snapshot = pits[k.pit].snapshot
        /\ ~IsOpen(k.pit) => ~IsOpen(k.pit)'
    BY <2>1, PitFrame
  <2>3. /\ Selected(k.pit, k.request)' = Selected(k.pit, k.request)
        /\ ReadThrough(k.pit, k.request, k.after)'
             = ReadThrough(k.pit, k.request, k.after)
    BY <2>2, SameContent
  <2>4. r.kind = "page" => Kept(k.pit, call[c].left)'
    <3>1. k.left \in 0..KeepAlive
      BY <1>1 DEF TypeOK, Call
    <3>2. PICK m : m = IF Tick THEN Older(k.left) ELSE k.left
      OBVIOUS
    <3>3. r.kind = "page" => Kept(k.pit, m)'
      BY <1>1, <1>2, <2>1, <3>1, <3>2, KeptFrame DEF CallInv
    <3>4. call'[c].left = m
      BY <1>1, <3>2
    <3>. QED  BY <3>3, <3>4 DEF Kept, IsOpen
  <2>5. Counted(c)' <=> Counted(c)
    BY <1>1, <1>4, <2>3 DEF Counted
  <2>6. \A hits : /\ HitsSelected(c, hits)' <=> HitsSelected(c, hits)
                  /\ InStableOrder(c, hits)' <=> InStableOrder(c, hits)
    BY <1>1, <1>4, <2>3 DEF HitsSelected, InStableOrder, Ascending
  <2>7. /\ (HasPit(c) => call[c].pit \in PitId /\ Known(call[c].pit))'
        /\ (reply[c].kind = "created" => Known(reply[c].pit))'
        /\ (pc[c] = "create" => call[c].returned = 0)'
        /\ (pc[c] = "search" \/ PagePassed(c) => Counted(c))'
    BY <1>1, <1>4, <1>5, <1>6, <2>1, <2>2, <2>5 DEF CallInv, Known
  <2>8. (reply[c].kind = "page" => /\ Kept(call[c].pit, call[c].left)
                                   /\ HitsSelected(c, reply[c].hits))'
    BY <1>1, <1>2, <1>4, <2>4, <2>6 DEF CallInv, Kept, IsOpen
  <2>9. (PagePassed(c) => /\ HitsSelected(c, result[c].hits)
                          /\ InStableOrder(c, result[c].hits))'
    BY <1>3, <1>4, <1>6, <2>6 DEF CallInv
  <2>10. /\ (reply[c].kind = "deleted" /\ reply[c].confirmed => ~IsOpen(call[c].pit))'
         /\ (Succeeded(c) /\ result[c].next = NoCursor => ~IsOpen(call[c].pit))'
    BY <1>1, <1>2, <1>3, <1>4, <1>6, <2>2 DEF CallInv, IsOpen
  <2>. QED  BY <2>7, <2>8, <2>9, <2>10 DEF CallInv
<1>. QED  BY <1>7, <1>8

(* A cursor not issued again in this step keeps its promises. *)
LEMMA CursorStable ==
  ASSUME TypeOK, Phases, [AnyNext]_vars, NEW t \in Cursor, CursorInv(t),
         life'[t] = IF Tick THEN Older(life[t]) ELSE life[t]
  PROVE  CursorInv(t)'
<1>1. PICK m : m = life'[t]
  OBVIOUS
<1>2. life[t] \in -1..KeepAlive /\ t.pit \in PitId
  BY DEF TypeOK, Cursor
<1>3. CASE life[t] >= 0
  <2>1. life[t] \in 0..KeepAlive
    BY <1>2, <1>3, KeepAliveAssumption
  <2>2. PICK n \in 0..KeepAlive : n = life[t]
    BY <2>1
  <2>3. Known(t.pit) /\ Kept(t.pit, n)
        /\ t.returned <= Cardinality(ReadThrough(t.pit, t.request, t.after))
    BY <1>3, <2>2 DEF CursorInv
  <2>4. Kept(t.pit, m)'
    BY <1>1, <1>2, <2>2, <2>3, KeptFrame
  <2>5. /\ Known(t.pit)'
        /\ ReadThrough(t.pit, t.request, t.after)'
             = ReadThrough(t.pit, t.request, t.after)
    BY <1>2, <2>3, PitFrame, SameContent
  <2>. QED  BY <1>1, <2>3, <2>4, <2>5 DEF CursorInv, Kept, IsOpen
<1>4. CASE ~(life[t] >= 0)
  <2>1. ~(life'[t] >= 0)
    BY <1>2, <1>4, KeepAliveAssumption DEF Older
  <2>. QED  BY <2>1 DEF CursorInv
<1>. QED  BY <1>3, <1>4

-----------------------------------------------------------------------------
(* Counting *)

(* The alerts on a page. *)
HitSet(hits) == {hits[i] : i \in DOMAIN hits}

(* A page in stable order holds as many alerts as hits. *)
LEMMA HitsCount ==
  ASSUME NEW s \in Seq(Record), Ascending(s)
  PROVE  IsFiniteSet(HitSet(s)) /\ Cardinality(HitSet(s)) = Len(s)
<1>1. /\ DOMAIN s = 1..Len(s) /\ Len(s) \in Nat
      /\ s \in [1..Len(s) -> HitSet(s)]
      /\ \A i \in 1..Len(s) : s[i] \in Int
  <2>1. DOMAIN s = 1..Len(s) /\ Len(s) \in Nat /\ \A i \in 1..Len(s) : s[i] \in Record
    OBVIOUS
  <2>2. \A i \in 1..Len(s) : s[i] \in HitSet(s)
    BY <2>1 DEF HitSet
  <2>3. s = [i \in 1..Len(s) |-> s[i]]
    BY <2>1
  <2>. QED  BY <2>1, <2>2, <2>3 DEF Record
<1>2. \A i, j \in 1..Len(s) : s[i] = s[j] => i = j
  BY <1>1 DEF Ascending
<1>3. \A x \in HitSet(s) : \E i \in 1..Len(s) : s[i] = x
  BY <1>1 DEF HitSet
<1>. HIDE DEF HitSet
<1>4. s \in Bijection(1..Len(s), HitSet(s))
  BY <1>1, <1>2, <1>3 DEF Bijection, Injection, Surjection, IsInjective
<1>5. ExistsBijection(1..Len(s), HitSet(s))
  BY <1>4 DEF ExistsBijection
<1>6. IsFiniteSet(1..Len(s)) /\ Cardinality(1..Len(s)) = Len(s)
  BY <1>1, FS_Interval
<1>. QED  BY <1>5, <1>6, FS_Bijection

(* Counting on by a page in stable order stays within the alerts that lie *)
(* at or before its last hit: the arithmetic behind returned_records.     *)
LEMMA CountedOn ==
  ASSUME TypeOK, NEW c \in Caller, call[c].pit \in PitId,
         NEW hits \in Seq(Record), Len(hits) \in Nat \ {0},
         HitsSelected(c, hits), InStableOrder(c, hits), Counted(c)
  PROVE  Cumulative(c, hits)
           <= Cardinality(ReadThrough(call[c].pit, call[c].request, hits[Len(hits)]))
<1>. DEFINE S == Selected(call[c].pit, call[c].request)
            before == ReadThrough(call[c].pit, call[c].request, call[c].after)
            through == ReadThrough(call[c].pit, call[c].request, hits[Len(hits)])
<1>1. S \subseteq Record /\ IsFiniteSet(S)
  BY SelectedFinite DEF TypeOK, Call
<1>2. call[c].after \in Int /\ call[c].returned \in Nat
  BY MaxLimitAssumption, NumRecordsAssumption DEF TypeOK, Call
<1>3. before \subseteq S /\ through \subseteq S /\ HitSet(hits) \subseteq S
  BY DEF ReadThrough, HitSet, HitsSelected
<1>4. IsFiniteSet(before) /\ IsFiniteSet(through) /\ IsFiniteSet(HitSet(hits))
  BY <1>1, <1>3, FS_Subset
<1>5. \A x \in HitSet(hits) : x > call[c].after /\ x <= hits[Len(hits)]
  <2>. SUFFICES ASSUME NEW i \in DOMAIN hits
                PROVE  hits[i] > call[c].after /\ hits[i] <= hits[Len(hits)]
    BY DEF HitSet
  <2>1. DOMAIN hits = 1..Len(hits) /\ hits[i] \in Int /\ hits[Len(hits)] \in Int
    <3>1. DOMAIN hits = 1..Len(hits) /\ hits[i] \in Record /\ hits[Len(hits)] \in Record
      OBVIOUS
    <3>. QED  BY <3>1 DEF Record
  <2>2. i = Len(hits) \/ hits[i] < hits[Len(hits)]
    BY <2>1 DEF InStableOrder, Ascending
  <2>. QED  BY <2>1, <2>2 DEF InStableOrder
<1>6. before \cap HitSet(hits) = {}
  BY <1>1, <1>2, <1>5 DEF ReadThrough, Record
<1>7. before \cup HitSet(hits) \subseteq through
  <2>1. hits[Len(hits)] \in HitSet(hits)
    BY DEF HitSet
  <2>2. hits[Len(hits)] > call[c].after /\ hits[Len(hits)] \in Int
    BY <1>1, <1>3, <1>5, <2>1 DEF Record
  <2>. QED  BY <1>1, <1>2, <1>3, <1>5, <2>2 DEF ReadThrough, Record
<1>8. Cardinality(before \cup HitSet(hits)) = Cardinality(before) + Len(hits)
  <2>1. Cardinality(HitSet(hits)) = Len(hits)
    BY HitsCount DEF InStableOrder
  <2>2. Cardinality(before \cap HitSet(hits)) = 0 /\ Cardinality(before) \in Nat
    BY <1>4, <1>6, FS_EmptySet, FS_CardinalityType
  <2>3. Cardinality(before \cup HitSet(hits))
          = Cardinality(before) + Cardinality(HitSet(hits))
              - Cardinality(before \cap HitSet(hits))
    BY <1>4, FS_Union
  <2>. QED  BY <2>1, <2>2, <2>3
<1>9. Cardinality(before \cup HitSet(hits)) <= Cardinality(through)
  BY <1>4, <1>7, FS_Subset
<1>10. call[c].returned <= Cardinality(before)
  BY DEF Counted
<1>. QED  BY <1>2, <1>4, <1>8, <1>9, <1>10, FS_CardinalityType DEF Cumulative

-----------------------------------------------------------------------------
(* The acting call *)

(* Each action of a caller establishes what its own call promises. *)
LEMMA OwnBegin ==
  ASSUME IInv, NEW c \in Caller, AnyBegin(c)
  PROVE  CallInv(c)' /\ life' = life
<1>. USE DEF IInv
<1>1. PICK q \in Request, t \in Cursor \cup {NoCursor} :
        \/ BeginFresh(c, q)
        \/ t \in Cursor /\ BeginResumed(c, q, t)
        \/ RejectCursor(c, q, t)
  BY DEF AnyBegin
<1>2. /\ pc[c] = "idle" /\ pits' = pits /\ reply' = reply /\ life' = life
      /\ pc'[c] \in {"create", "search", "return"}
  BY <1>1 DEF BeginFresh, BeginResumed, RejectCursor, Start, indexerVars, TypeOK
<1>3. reply'[c].kind \notin {"created", "page", "deleted"}
  BY <1>2 DEF Phases
<1>4. CASE BeginFresh(c, q)
  <2>1. pc'[c] = "create" /\ call'[c].returned = 0
    BY <1>4 DEF BeginFresh, Start, TypeOK, IdleCall
  <2>. QED  BY <1>2, <1>3, <2>1 DEF CallInv, HasPit, PagePassed, Succeeded
<1>5. CASE RejectCursor(c, q, t)
  <2>1. pc'[c] = "return" /\ error'[c] = TRUE
    BY <1>5 DEF RejectCursor, Start, TypeOK
  <2>. QED  BY <1>2, <1>3, <2>1 DEF CallInv, HasPit, PagePassed, Succeeded
<1>6. CASE t \in Cursor /\ BeginResumed(c, q, t)
  <2>1. /\ pc'[c] = "search"
        /\ call'[c].pit = t.pit /\ call'[c].after = t.after
        /\ call'[c].request = t.request /\ call'[c].returned = t.returned
    BY <1>6 DEF BeginResumed, CursorAccepted, Start, TypeOK
  <2>2. /\ t.pit \in PitId /\ Known(t.pit)
        /\ t.returned <= Cardinality(ReadThrough(t.pit, t.request, t.after))
    <3>1. t \in Cursor /\ t.pit \in PitId /\ CursorInv(t)
      BY <1>6 DEF Cursor
    <3>2. life[t] > 0 /\ life[t] \in -1..KeepAlive
      BY <1>6, <3>1 DEF BeginResumed, CursorAccepted, TypeOK
    <3>. QED  BY <3>1, <3>2, KeepAliveAssumption DEF CursorInv
  <2>3. Known(t.pit)' /\ ReadThrough(t.pit, t.request, t.after)'
                           = ReadThrough(t.pit, t.request, t.after)
    BY <1>2, <2>2, SameContent DEF Known
  <2>4. Counted(c)'
    BY <2>1, <2>2, <2>3 DEF Counted
  <2>5. Known(call[c].pit)'
    BY <2>1, <2>3 DEF Known
  <2>. QED  BY <1>2, <1>3, <2>1, <2>2, <2>4, <2>5 DEF CallInv, HasPit, PagePassed, Succeeded
<1>. QED  BY <1>1, <1>2, <1>4, <1>5, <1>6

LEMMA OwnServeCreate ==
  ASSUME IInv, NEW c \in Caller, NEW p \in PitId, ServeCreate(c, p)
  PROVE  CallInv(c)'
<1>1. /\ pc[c] = "create" /\ pc' = pc /\ call' = call
      /\ reply'[c].kind = "created" /\ reply'[c].pit = p
  BY DEF IInv, TypeOK, ServeCreate, AwaitsReply, Created
<1>2. Known(p)'
  BY DEF IInv, TypeOK, IndexerTypeOK, ServeCreate, OpenPit, Known
<1>3. Known(reply[c].pit)'
  BY <1>1, <1>2 DEF Known
<1>. QED  BY <1>1, <1>3 DEF IInv, CallInv, HasPit, PagePassed, Succeeded

LEMMA OwnServeSearch ==
  ASSUME IInv, NEW c \in Caller, ServeSearch(c), [AnyNext]_vars
  PROVE  CallInv(c)'
<1>1. PICK k : k = call[c]
  OBVIOUS
<1>2. /\ pc[c] = "search" /\ pc'[c] = "search" /\ call' = call /\ call'[c] = k
      /\ k.pit \in PitId /\ Known(k.pit) /\ k \in Call
  BY <1>1 DEF IInv, TypeOK, ServeSearch, AwaitsReply, CallInv, HasPit
<1>3. Known(k.pit)' /\ pits'[k.pit].snapshot = pits[k.pit].snapshot
  BY <1>2, PitFrame DEF IInv
<1>4. \A n : /\ Selected(k.pit, k.request)' = Selected(k.pit, k.request)
             /\ ReadThrough(k.pit, k.request, n)' = ReadThrough(k.pit, k.request, n)
  BY <1>3, SameContent
<1>5. PICK h : /\ reply'[c].kind = "page" /\ reply'[c].hits = h
               /\ \A i \in DOMAIN h : h[i] \in Selected(k.pit, k.request)
  <2>1. \A x, e, n, s : /\ Page(x, e, n, s).kind = "page"
                        /\ Page(x, e, n, s).hits = s
    BY DEF Page
  <2>2. reply \in [Caller -> Reply]
    BY DEF IInv, TypeOK
  <2>3. PICK x, e, n, s : /\ reply'[c] = Page(x, e, n, s)
                          /\ s = << >> \/ s \in HitsFor(c)
    BY <2>2 DEF ServeSearch
  <2>4. \A i \in DOMAIN s : s[i] \in Selected(k.pit, k.request)
    BY <1>1, <1>2, <2>3, HitsTyped DEF IInv
  <2>. QED  BY <2>1, <2>3, <2>4
<1>6. HitsSelected(c, reply[c].hits)'
  BY <1>2, <1>4, <1>5 DEF HitsSelected
<1>7. Kept(call[c].pit, call[c].left)'
  <2>1. k.left \in 0..KeepAlive /\ pits[k.pit] \in Pit
    BY <1>2 DEF Call, IInv, TypeOK, IndexerTypeOK
  <2>2. pits'[k.pit].state = "open" /\ pits'[k.pit].ttl = KeepAlive
    BY <1>1, <1>2, <2>1 DEF ServeSearch, TouchPit, IsOpen, Pit, IInv, TypeOK, IndexerTypeOK
  <2>. QED  BY <1>2, <2>1, <2>2, KeepAliveAssumption DEF Kept, IsOpen
<1>8. Counted(c)'
  BY <1>1, <1>2, <1>4 DEF IInv, CallInv, Counted
<1>9. Known(call[c].pit)'
  BY <1>2, <1>3 DEF Known
<1>. QED  BY <1>2, <1>5, <1>6, <1>7, <1>8, <1>9
          DEF CallInv, HasPit, PagePassed, Succeeded

LEMMA OwnServeDelete ==
  ASSUME IInv, NEW c \in Caller, ServeDelete(c), [AnyNext]_vars
  PROVE  CallInv(c)'
<1>1. PICK k : k = call[c]
  OBVIOUS
<1>2. PICK e : e = result[c]
  OBVIOUS
<1>3. /\ pc[c] = "delete" /\ pc'[c] = "delete" /\ call'[c] = k
      /\ error'[c] = error[c] /\ result'[c] = e
      /\ k.pit \in PitId /\ Known(k.pit)
  BY <1>1, <1>2 DEF IInv, ServeDelete, AwaitsReply, CallInv, HasPit
<1>4. Known(k.pit)' /\ pits'[k.pit].snapshot = pits[k.pit].snapshot
  BY <1>3, PitFrame DEF IInv
<1>5. \A n : /\ Selected(k.pit, k.request)' = Selected(k.pit, k.request)
             /\ ReadThrough(k.pit, k.request, n)' = ReadThrough(k.pit, k.request, n)
  BY <1>4, SameContent
<1>6. /\ reply'[c].kind = "deleted"
      /\ reply'[c].confirmed => ~IsOpen(k.pit)'
  <2>1. pits \in [PitId -> Pit] /\ reply \in [Caller -> Reply]
    BY DEF IInv, TypeOK, IndexerTypeOK
  <2>2. CASE DeletePit(k.pit) /\ reply' = [reply EXCEPT ![c] = Deleted(TRUE)]
    BY <1>3, <2>1, <2>2 DEF DeletePit, IsOpen, Deleted, Pit
  <2>3. CASE reply' = [reply EXCEPT ![c] = Deleted(FALSE)]
    BY <2>1, <2>3 DEF Deleted
  <2>. QED  BY <1>1, <2>2, <2>3 DEF ServeDelete
<1>7. PagePassed(c)' => /\ Counted(c)'
                        /\ HitsSelected(c, result[c].hits)'
                        /\ InStableOrder(c, result[c].hits)'
  BY <1>1, <1>2, <1>3, <1>5
  DEF IInv, CallInv, PagePassed, Counted, HitsSelected, InStableOrder, Ascending
<1>8. /\ Known(call[c].pit)'
      /\ (reply[c].confirmed => ~IsOpen(call[c].pit))'
  BY <1>3, <1>4, <1>6 DEF Known, IsOpen
<1>. QED  BY <1>3, <1>6, <1>7, <1>8 DEF CallInv, HasPit, Succeeded

LEMMA OwnHandleCreate ==
  ASSUME IInv, NEW c \in Caller, HandleCreate(c)
  PROVE  CallInv(c)'
<1>1. PICK p \in PitId : p = reply[c].pit
  BY RepliesTyped DEF HandleCreate, IInv, TypeOK
<1>2. /\ pits' = pits /\ Known(p) /\ pc[c] = "create" /\ call[c].returned = 0
      /\ call'[c].pit = p /\ call'[c].returned = 0
      /\ call'[c].request \in Request
      /\ reply'[c].kind = "none"
      /\ \/ pc'[c] = "search"
         \/ pc'[c] = "delete" /\ error'[c] = TRUE
  BY <1>1 DEF HandleCreate, IInv, TypeOK, Call, CallInv, Phases, indexerVars, NoReply
<1>3. Known(call[c].pit)'
  BY <1>2 DEF Known
<1>4. Counted(c)'
  <2>1. TypeOK' /\ Phases'
    BY ShapeHandle DEF IInv
  <2>2. PICK k : k = call'[c]
    OBVIOUS
  <2>3. IsFiniteSet(Selected(p, k.request))
    BY <1>2, <2>2, SelectedFinite DEF IInv
  <2>4. Cardinality(ReadThrough(p, k.request, k.after)) \in Nat
    BY <2>3, FS_Subset, FS_CardinalityType DEF ReadThrough
  <2>5. ReadThrough(p, k.request, k.after)' = ReadThrough(p, k.request, k.after)
    BY <1>2, SameContent
  <2>. QED  BY <1>2, <2>2, <2>4, <2>5 DEF Counted
<1>. QED  BY <1>2, <1>3, <1>4 DEF CallInv, HasPit, PagePassed, Succeeded

LEMMA OwnParsed ==
  ASSUME IInv, NEW c \in Caller, PageWithCursor(c) \/ PageWithoutCursor(c)
  PROVE  CallInv(c)'
<1>1. PICK k : k = call[c]
  OBVIOUS
<1>2. PICK h : h = reply[c].hits
  OBVIOUS
<1>3. /\ pits' = pits /\ call'[c] = k /\ error'[c] = error[c]
      /\ reply[c].kind = "page" /\ PageAccepted(c, reply[c])
      /\ reply'[c].kind = "none" /\ result'[c].hits = h
      /\ \/ pc'[c] = "delete"
         \/ pc'[c] = "return" /\ result'[c].next \in Cursor
  BY <1>1, <1>2, NextCursorTyped
  DEF PageWithCursor, PageWithoutCursor, IInv, TypeOK, indexerVars, NoReply, Parsed
<1>4. /\ pc[c] = "search" /\ k.pit \in PitId /\ Known(k.pit)
      /\ Counted(c) /\ HitsSelected(c, h) /\ InStableOrder(c, h)
  BY <1>1, <1>2, <1>3 DEF IInv, Phases, CallInv, HasPit, PageAccepted
<1>5. \A n : /\ Selected(k.pit, k.request)' = Selected(k.pit, k.request)
             /\ ReadThrough(k.pit, k.request, n)' = ReadThrough(k.pit, k.request, n)
  BY <1>3, SameContent
<1>6. /\ Counted(c)'
      /\ HitsSelected(c, result[c].hits)'
      /\ InStableOrder(c, result[c].hits)'
  BY <1>1, <1>3, <1>4, <1>5 DEF Counted, HitsSelected, InStableOrder, Ascending
<1>7. Known(call[c].pit)'
  BY <1>3, <1>4 DEF Known
<1>8. (pc[c] = "return" => result[c].next # NoCursor)'
  BY <1>3, SentinelAssumption DEF Cursor
<1>. QED  BY <1>3, <1>4, <1>6, <1>7, <1>8 DEF CallInv, HasPit, PagePassed, Succeeded

LEMMA OwnFailed ==
  ASSUME IInv, NEW c \in Caller, PageRejected(c) \/ RequestFails(c)
  PROVE  CallInv(c)'
<1>1. PICK k : k = call[c]
  OBVIOUS
<1>2. /\ pits' = pits /\ call'[c] = k /\ error'[c] = TRUE /\ reply'[c].kind = "none"
      /\ \/ pc'[c] = "return"
         \/ pc'[c] = "delete" /\ pc[c] = "search"
  BY <1>1 DEF PageRejected, RequestFails, AfterFailure, IInv, TypeOK, Phases,
              indexerVars, NoReply
<1>3. pc[c] = "search" => k.pit \in PitId /\ Known(k.pit)'
  BY <1>1, <1>2 DEF IInv, CallInv, HasPit, Known
<1>4. (pc[c] = "delete" => call[c].pit \in PitId /\ Known(call[c].pit))'
  BY <1>2, <1>3 DEF Known
<1>. QED  BY <1>2, <1>4 DEF CallInv, HasPit, PagePassed, Succeeded

LEMMA OwnHandleDelete ==
  ASSUME IInv, NEW c \in Caller, HandleDelete(c)
  PROVE  CallInv(c)'
<1>1. PICK k : k = call[c]
  OBVIOUS
<1>2. PICK e : e = result[c]
  OBVIOUS
<1>3. /\ pits' = pits /\ call'[c] = k /\ reply'[c].kind = "none"
      /\ pc[c] = "delete" /\ pc'[c] = "return"
  BY <1>1 DEF HandleDelete, IInv, TypeOK, Phases, indexerVars, NoReply
<1>4. CASE error'[c] = TRUE
  BY <1>3, <1>4 DEF CallInv, HasPit, PagePassed, Succeeded
<1>5. CASE CleanupConfirmed(reply[c]) /\ UNCHANGED <<error, result>>
  <2>1. /\ k.pit \in PitId /\ Known(k.pit) /\ ~IsOpen(k.pit)
        /\ ~error[c] => Counted(c) /\ HitsSelected(c, e.hits) /\ InStableOrder(c, e.hits)
        /\ result'[c] = e /\ error' = error
    BY <1>1, <1>2, <1>3, <1>5
    DEF HandleDelete, CleanupConfirmed, IInv, CallInv, HasPit, PagePassed
  <2>2. \A n : /\ Selected(k.pit, k.request)' = Selected(k.pit, k.request)
               /\ ReadThrough(k.pit, k.request, n)' = ReadThrough(k.pit, k.request, n)
    BY <1>3, SameContent
  <2>3. ~error'[c] => /\ Counted(c)'
                      /\ HitsSelected(c, result[c].hits)'
                      /\ InStableOrder(c, result[c].hits)'
    BY <1>1, <1>3, <2>1, <2>2 DEF Counted, HitsSelected, InStableOrder, Ascending
  <2>4. Known(call[c].pit)' /\ ~IsOpen(call[c].pit)'
    BY <1>3, <2>1 DEF Known, IsOpen
  <2>. QED  BY <1>3, <2>1, <2>3, <2>4 DEF CallInv, HasPit, PagePassed, Succeeded
<1>. QED  BY <1>4, <1>5 DEF HandleDelete, IInv, TypeOK

LEMMA OwnEnd ==
  ASSUME IInv, NEW c \in Caller, Take(c) \/ Crash(c)
  PROVE  CallInv(c)'
<1>1. pc'[c] = "idle" /\ reply'[c].kind = "none"
  BY DEF Take, Crash, Forget, IInv, TypeOK, NoReply
<1>. QED  BY <1>1 DEF CallInv, HasPit, PagePassed, Succeeded

-----------------------------------------------------------------------------
(* The invariant and what follows from it *)

(* A cursor newly issued carries the promises of the call that issues it. *)
LEMMA CursorIssued ==
  ASSUME IInv, NEW c \in Caller, PageWithCursor(c), NEW t \in Cursor,
         life'[t] # life[t]
  PROVE  CursorInv(t)'
<1>1. PICK k : k = call[c]
  OBVIOUS
<1>2. PICK h : h = reply[c].hits
  OBVIOUS
<1>3. /\ reply[c].kind = "page" /\ pits' = pits
      /\ PageAccepted(c, reply[c]) /\ IssuesCursor(c, reply[c])
      /\ NextCursor(c, reply[c]) \in Cursor /\ Len(h) \in 1..MaxLimit
      /\ h \in Seq(Record)
  BY <1>2, NextCursorTyped, RepliesTyped DEF PageWithCursor, IInv, TypeOK, indexerVars
<1>4. /\ t = NextCursor(c, reply[c])
      /\ life'[t] = CursorLife(c)
  BY <1>3 DEF PageWithCursor, IInv, TypeOK
<1>5. /\ t.pit = k.pit /\ t.request = k.request
      /\ t.after = h[Len(h)] /\ t.returned = Cumulative(c, h)
      /\ life'[t] = k.left
  BY <1>1, <1>2, <1>4 DEF NextCursor, CursorLife
<1>6. /\ k.pit \in PitId /\ Known(k.pit) /\ Kept(k.pit, k.left)
      /\ Counted(c) /\ HitsSelected(c, h) /\ InStableOrder(c, h)
  BY <1>1, <1>2, <1>3 DEF IInv, Phases, CallInv, HasPit, PageAccepted
<1>7. t.returned <= Cardinality(ReadThrough(t.pit, t.request, t.after))
  <2>1. Len(h) \in Nat \ {0}
    BY <1>3, MaxLimitAssumption
  <2>. QED  BY <1>1, <1>3, <1>5, <1>6, <2>1, CountedOn DEF IInv
<1>8. ReadThrough(t.pit, t.request, t.after)' = ReadThrough(t.pit, t.request, t.after)
  BY <1>3, SameContent
<1>. QED  BY <1>3, <1>5, <1>6, <1>7, <1>8 DEF CursorInv, Known, Kept, IsOpen

(* The invariant is inductive. *)
LEMMA InvInit == Init => IInv
<1>. SUFFICES ASSUME Init PROVE IInv
  OBVIOUS
<1>1. TypeOK /\ Phases
  BY ShapeInit
<1>2. ASSUME NEW c \in Caller PROVE CallInv(c)
  BY DEF Init, TransportInit, NoReply, CallInv, HasPit, PagePassed, Succeeded
<1>3. ASSUME NEW t \in Cursor PROVE CursorInv(t)
  BY DEF Init, TransportInit, CursorInv
<1>. QED  BY <1>1, <1>2, <1>3 DEF IInv

LEMMA InvNext == IInv /\ [AnyNext]_vars => IInv'
<1>. SUFFICES ASSUME IInv, [AnyNext]_vars PROVE IInv'
  OBVIOUS
<1>1. TypeOK' /\ Phases'
  BY ShapeNext DEF IInv
<1>2. CASE Tick
  <2>1. ASSUME NEW c \in Caller PROVE CallInv(c)'
    <3>1. /\ UNCHANGED <<pc, reply, error, result>>
          /\ call'[c] = [call[c] EXCEPT !.left = Older(@)]
          /\ call[c] \in Call
      BY <1>2 DEF Tick, IInv, TypeOK
    <3>. QED  BY <1>2, <3>1, CallStable DEF IInv, Call
  <2>2. ASSUME NEW t \in Cursor PROVE CursorInv(t)'
    <3>1. life'[t] = Older(life[t])
      BY <1>2 DEF Tick
    <3>. QED  BY <1>2, <3>1, CursorStable DEF IInv
  <2>. QED  BY <1>1, <2>1, <2>2 DEF IInv
<1>3. CASE ~Tick /\ UNCHANGED <<callVars, life>>
  BY <1>1, <1>3, CallStable, CursorStable DEF IInv, callVars
<1>4. ASSUME ~Tick, NEW c \in Caller, AnyBegin(c) \/ CallStep(c) \/ Take(c) \/ Crash(c)
      PROVE  IInv'
  <2>1. CallInv(c)'
    BY <1>4, OwnBegin, OwnServeCreate, OwnServeSearch, OwnServeDelete, OwnHandleCreate,
       OwnParsed, OwnFailed, OwnHandleDelete, OwnEnd DEF CallStep
  <2>2. ASSUME NEW d \in Caller, d # c PROVE CallInv(d)'
    <3>1. /\ pc'[d] = pc[d] /\ reply'[d] = reply[d] /\ error'[d] = error[d]
          /\ result'[d] = result[d] /\ call'[d] = call[d]
      <4>. USE <1>4, <2>2 DEF IInv, TypeOK
      <4>1. CASE AnyBegin(c)
        BY <4>1 DEF AnyBegin, BeginFresh, BeginResumed, RejectCursor, Start
      <4>2. CASE (\E p \in PitId : ServeCreate(c, p)) \/ ServeSearch(c) \/ ServeDelete(c)
        BY <4>2 DEF ServeCreate, ServeSearch, ServeDelete
      <4>3. CASE HandleCreate(c) \/ HandleDelete(c) \/ RequestFails(c)
        BY <4>3 DEF HandleCreate, HandleDelete, RequestFails
      <4>4. CASE PageWithCursor(c) \/ PageWithoutCursor(c) \/ PageRejected(c)
        BY <4>4 DEF PageWithCursor, PageWithoutCursor, PageRejected
      <4>5. CASE Take(c) \/ Crash(c)
        BY <4>5 DEF Take, Crash, Forget
      <4>. QED  BY <4>1, <4>2, <4>3, <4>4, <4>5 DEF CallStep
    <3>. QED  BY <1>4, <3>1, CallStable DEF IInv
  <2>3. ASSUME NEW t \in Cursor PROVE CursorInv(t)'
    <3>1. life' = life \/ PageWithCursor(c)
      BY <1>4 DEF AnyBegin, BeginFresh, BeginResumed, RejectCursor, Start, CallStep,
         ServeCreate, ServeSearch, ServeDelete, HandleCreate, HandleDelete,
         RequestFails, PageWithoutCursor, PageRejected, Take, Crash, Forget
    <3>2. CASE life'[t] = life[t]
      BY <1>4, <3>2, CursorStable DEF IInv
    <3>3. CASE life'[t] # life[t]
      BY <3>1, <3>3, CursorIssued
    <3>. QED  BY <3>2, <3>3
  <2>. QED  BY <1>1, <2>1, <2>2, <2>3 DEF IInv
<1>5. CASE IndexerStep
  BY <1>2, <1>3, <1>5 DEF IndexerStep, ServeLate, callVars
<1>6. CASE UNCHANGED vars
  BY <1>2, <1>3, <1>6 DEF vars, callVars
<1>. QED  BY <1>2, <1>4, <1>5, <1>6 DEF AnyNext

LEMMA Invariance == Spec => []IInv
BY InvInit, InvNext, NextIsAnyNext, PTL DEF Spec

(* An unexpired cursor's PIT is open at least as long, or was deleted. *)
THEOREM CursorsWithinPits == Spec => []CursorWithinPit
<1>1. IInv => CursorWithinPit
  <2>. SUFFICES ASSUME IInv, NEW t \in Cursor, life[t] > 0
                PROVE  \/ pits[t.pit].state = "deleted"
                       \/ IsOpen(t.pit) /\ pits[t.pit].ttl >= life[t]
    BY DEF CursorWithinPit
  <2>1. life[t] \in -1..KeepAlive
    BY DEF IInv, TypeOK
  <2>. QED  BY <2>1, KeepAliveAssumption DEF IInv, CursorInv, Kept
<1>. QED  BY <1>1, Invariance, PTL

(* No alert is counted twice along a chain of cursors. *)
THEOREM CursorsCountRightly == Spec => []CursorAccounting
<1>1. IInv => CursorAccounting
  BY DEF IInv, CursorInv, CursorAccounting, IssuedCursors
<1>. QED  BY <1>1, Invariance, PTL

(* A result without a cursor is returned only once its PIT is gone. *)
THEOREM SuccessReleases == Spec => []SuccessReleasesPit
<1>1. IInv => SuccessReleasesPit
  BY DEF IInv, CallInv, SuccessReleasesPit
<1>. QED  BY <1>1, Invariance, PTL

(* A page whose exact total is right holds exactly what was left to read. *)
THEOREM FinalPagesExact == Spec => []FinalPageExact
<1>1. IInv => FinalPageExact
  <2>. SUFFICES ASSUME IInv, NEW c \in Caller, Succeeded(c),
                       result[c].total = Cumulative(c, result[c].hits),
                       result[c].total = TrueTotal(c)
                PROVE  /\ Ascending(result[c].hits)
                       /\ HitSet(result[c].hits)
                            = {a \in Selected(call[c].pit, call[c].request) :
                                 a > call[c].after}
    BY DEF FinalPageExact, HitSet
  <2>. DEFINE h == result[c].hits
              S == Selected(call[c].pit, call[c].request)
              before == ReadThrough(call[c].pit, call[c].request, call[c].after)
              rest == {a \in S : a > call[c].after}
  <2>1. /\ Counted(c) /\ HitsSelected(c, h) /\ InStableOrder(c, h)
        /\ call[c].pit \in PitId
    BY DEF IInv, CallInv, HasPit, Succeeded, PagePassed
  <2>2. S \subseteq Record /\ IsFiniteSet(S)
    BY <2>1, SelectedFinite DEF IInv, TypeOK, Call
  <2>3. h \in Seq(Record) /\ call[c].after \in Int /\ call[c].returned \in Nat
    BY MaxLimitAssumption, NumRecordsAssumption DEF IInv, TypeOK, Call, Result
  <2>4. IsFiniteSet(HitSet(h)) /\ Cardinality(HitSet(h)) = Len(h) /\ Len(h) \in Nat
    BY <2>1, <2>3, HitsCount DEF InStableOrder
  <2>5. HitSet(h) \subseteq rest
    BY <2>1 DEF HitSet, HitsSelected, InStableOrder
  <2>6. IsFiniteSet(before) /\ IsFiniteSet(rest) /\ before \cap rest = {}
        /\ S = before \cup rest
    <3>1. before \subseteq S /\ rest \subseteq S
      BY DEF ReadThrough
    <3>2. before \cap rest = {} /\ S = before \cup rest
      BY <2>2, <2>3 DEF ReadThrough, Record
    <3>. QED  BY <2>2, <3>1, <3>2, FS_Subset
  <2>7. Cardinality(S) = Cardinality(before) + Cardinality(rest)
        /\ Cardinality(before) \in Nat /\ Cardinality(rest) \in Nat
    <3>1. Cardinality(before \cup rest)
            = Cardinality(before) + Cardinality(rest) - Cardinality(before \cap rest)
      BY <2>6, FS_Union
    <3>2. Cardinality(before \cap rest) = 0
      BY <2>6, FS_EmptySet
    <3>3. Cardinality(before) \in Nat /\ Cardinality(rest) \in Nat
      BY <2>6, FS_CardinalityType
    <3>4. Cardinality(S) = Cardinality(before \cup rest)
      BY <2>6
    <3>. HIDE DEF S, before, rest
    <3>. QED  BY <3>1, <3>2, <3>3, <3>4
  <2>8. call[c].returned <= Cardinality(before)
        /\ Cardinality(S) = call[c].returned + Len(h)
    BY <2>1 DEF Counted, TrueTotal, Cumulative
  <2>9. Cardinality(HitSet(h)) <= Cardinality(rest)
    BY <2>5, <2>6, FS_Subset
  <2>10. Cardinality(HitSet(h)) = Cardinality(rest)
    BY <2>3, <2>4, <2>7, <2>8, <2>9
  <2>11. HitSet(h) = rest
    BY <2>5, <2>6, <2>10, FS_Subset
  <2>. QED  BY <2>1, <2>11 DEF InStableOrder
<1>. QED  BY <1>1, Invariance, PTL

(* A call that knows a PIT id ends through the deletion request, or with a *)
(* cursor in its result.                                                  *)
THEOREM CallsEndThroughDeletion == Spec => EndsThroughDeletion
<1>. DEFINE Good ==
       \A c \in Caller :
         /\ pc[c] # "return" /\ pc'[c] = "return"
         /\ call'[c].pit # NoPit
         /\ result'[c].next = NoCursor
         => pc[c] = "delete"
<1>1. IInv /\ [AnyNext]_vars => [Good]_vars
  <2>. SUFFICES ASSUME IInv, AnyNext, NEW d \in Caller,
                       pc[d] # "return", pc'[d] = "return",
                       call'[d].pit # NoPit, result'[d].next = NoCursor
                PROVE  pc[d] = "delete"
    BY DEF vars
  <2>. USE DEF IInv, TypeOK
  <2>1. CASE IndexerStep
    BY <2>1 DEF IndexerStep, ServeLate, Tick, callVars
  <2>2. ASSUME NEW c \in Caller, AnyBegin(c) \/ CallStep(c) \/ Take(c) \/ Crash(c)
        PROVE  pc[d] = "delete"
    <3>1. CASE AnyBegin(c)
      BY <3>1 DEF AnyBegin, BeginFresh, BeginResumed, RejectCursor, Start, IdleCall
    <3>2. CASE (\E p \in PitId : ServeCreate(c, p)) \/ ServeSearch(c) \/ ServeDelete(c)
      BY <3>2 DEF ServeCreate, ServeSearch, ServeDelete
    <3>3. CASE HandleCreate(c) \/ PageWithoutCursor(c) \/ PageRejected(c)
      BY <3>3 DEF HandleCreate, PageWithoutCursor, PageRejected
    <3>4. CASE HandleDelete(c)
      BY <3>4 DEF HandleDelete, Phases
    <3>5. CASE RequestFails(c)
      BY <3>5 DEF RequestFails, AfterFailure, Phases
    <3>6. CASE PageWithCursor(c)
      <4>1. NextCursor(c, reply[c]) # NoCursor
        BY <3>6, NextCursorTyped, SentinelAssumption DEF PageWithCursor, Cursor
      <4>. QED  BY <3>6, <4>1 DEF PageWithCursor, Parsed
    <3>7. CASE Take(c) \/ Crash(c)
      BY <3>7 DEF Take, Crash, Forget
    <3>. QED  BY <2>2, <3>1, <3>2, <3>3, <3>4, <3>5, <3>6, <3>7 DEF CallStep
  <2>. QED  BY <2>1, <2>2 DEF AnyNext
<1>. QED  BY <1>1, Invariance, NextIsAnyNext, PTL DEF Spec, EndsThroughDeletion
=============================================================================
