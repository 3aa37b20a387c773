-------------------------- MODULE DetectionDedupe --------------------------
(***************************************************************************)
(* Deduplication of canonical detections (detection/compiler/dedupe.py)    *)
(* as the common pipeline runs it, followed by the incident builder's      *)
(* check that a second deduplication changes nothing.                      *)
(*                                                                         *)
(* A detection is its id (ids are unique and ordered: the tie-break of     *)
(* _detection_sort_key), the key of _artifact_key, its two timestamps and  *)
(* its references.  Lists are sets here: every list is sorted by a key     *)
(* that ends in the unique id, so a set determines it.                     *)
(***************************************************************************)
EXTENDS Integers, FiniteSetsExt

CONSTANTS
  Id,       \* detection ids, numbered in their string order
  Key,      \* values of _artifact_key
  Time,     \* instants
  NoTime,   \* a null timestamp
  MaxGap    \* _window_seconds_for_artifact, by key

ASSUME DedupeAssumption ==
  /\ Id \subseteq Nat /\ IsFiniteSet(Id) /\ Time \subseteq Nat
  /\ NoTime \notin Nat
  /\ MaxGap \in [Key -> Nat]

VARIABLES
  raw,      \* history: the detections the rules produced
  given,    \* the list passed to dedupe_detections
  todo,     \* grouped: items the loop has not reached
  group,    \* current_group
  merged,   \* merged_results
  pass,     \* which of the two deduplications is running
  verdict   \* what _validate_deduped_canonical_detections says

vars == <<raw, given, todo, group, merged, pass, verdict>>

Timestamp == Time \cup {NoTime}
Detection == [id : Id, key : Key, start : Timestamp, end : Timestamp, refs : SUBSET Id]

DedupeTypeOK ==
  /\ \A S \in {raw, given, todo, group, merged} : S \subseteq Detection
  /\ pass \in {"produce", "revalidate"}
  /\ verdict \in {"none", "accepted", "rejected"}

\* Rules may put either timestamp, both or neither on a detection, in any order.
Raw(i, k, s, e) == [id |-> i, key |-> k, start |-> s, end |-> e, refs |-> {i}]

DedupeInit ==
  /\ \E ids \in SUBSET Id, k \in [Id -> Key], s, e \in [Id -> Timestamp] :
       raw = {Raw(i, k[i], s[i], e[i]) : i \in ids}
  /\ given = raw /\ todo = raw
  /\ group = {} /\ merged = {}
  /\ pass = "produce" /\ verdict = "none"

-----------------------------------------------------------------------------
FirstTs(d) == IF d.start # NoTime THEN d.start ELSE d.end

Timed(d) == FirstTs(d) # NoTime

\* _detection_sort_key: timed before untimed, then the instant, then the id
Before(a, b) ==
  \/ Timed(a) /\ ~Timed(b)
  \/ Timed(a) /\ Timed(b) /\ FirstTs(a) < FirstTs(b)
  \/ FirstTs(a) = FirstTs(b) /\ a.id < b.id

First(S) == CHOOSE d \in S : \A e \in S \ {d} : Before(d, e)
LastItem(S) == CHOOSE d \in S : \A e \in S \ {d} : Before(e, d)

Known(times) == times \ {NoTime}
Earliest(times) == IF Known(times) = {} THEN NoTime ELSE Min(Known(times))
Latest(times) == IF Known(times) = {} THEN NoTime ELSE Max(Known(times))

\* Mistakes the properties must notice: only the first item's references survive ...
MergeFirstRefs(items) ==
  [First(items) EXCEPT !.start = Earliest({d.start : d \in items}),
                       !.end = Latest({d.end : d \in items})]
\* ... the first item's start is kept even when it has none.
MergeFirstStart(items) ==
  [First(items) EXCEPT !.end = Latest({d.end : d \in items}),
                       !.refs = UNION {d.refs : d \in items}]

\* merge_detection_group: the first item, with the widest window and all refs
Merge(items) ==
  [First(items) EXCEPT !.start = Earliest({d.start : d \in items}),
                       !.end = Latest({d.end : d \in items}),
                       !.refs = UNION {d.refs : d \in items}]

\* A mistake: the gap is measured from the group's first item.
NearGroupStart(items, item) ==
  /\ Timed(First(items)) /\ Timed(item)
  /\ FirstTs(item) - FirstTs(First(items)) <= MaxGap[item.key]

\* The loop's test: item goes on the group when it is near the group's last.
Continues(items, item) ==
  /\ Timed(LastItem(items)) /\ Timed(item)
  /\ FirstTs(item) - FirstTs(LastItem(items)) <= MaxGap[item.key]

-----------------------------------------------------------------------------
Remaining(k) == {d \in todo : d.key = k}
GroupKey == First(group).key

\* The keys are visited in some order (the code's is by repr); within one key
\* the items are visited in sorted order.
IsNext(item) ==
  /\ item \in todo
  /\ group # {} => item.key = GroupKey
  /\ item = First(Remaining(item.key))

OpenGroup(item) ==
  /\ IsNext(item)
  /\ group = {}
  /\ group' = {item} /\ todo' = todo \ {item}
  /\ UNCHANGED <<raw, given, merged, pass, verdict>>

JoinGroup(item) ==
  /\ IsNext(item)
  /\ group # {} /\ Continues(group, item)
  /\ group' = group \cup {item} /\ todo' = todo \ {item}
  /\ UNCHANGED <<raw, given, merged, pass, verdict>>

SplitGroup(item) ==
  /\ IsNext(item)
  /\ group # {} /\ ~Continues(group, item)
  /\ merged' = merged \cup {Merge(group)}
  /\ group' = {item} /\ todo' = todo \ {item}
  /\ UNCHANGED <<raw, given, pass, verdict>>

\* if current_group: the key has no item left
CloseGroup ==
  /\ group # {} /\ Remaining(GroupKey) = {}
  /\ merged' = merged \cup {Merge(group)}
  /\ group' = {}
  /\ UNCHANGED <<raw, given, todo, pass, verdict>>

Finished == todo = {} /\ group = {}

\* The incident builder deduplicates what it was handed once more ...
Revalidate ==
  /\ pass = "produce" /\ Finished
  /\ pass' = "revalidate"
  /\ given' = merged /\ todo' = merged /\ merged' = {}
  /\ UNCHANGED <<raw, group, verdict>>

\* ... and refuses a list that this changes.
Judge ==
  /\ pass = "revalidate" /\ Finished /\ verdict = "none"
  /\ verdict' = IF merged = given THEN "accepted" ELSE "rejected"
  /\ UNCHANGED <<raw, given, todo, group, merged, pass>>

DedupeNext ==
  \/ \E item \in todo : OpenGroup(item) \/ JoinGroup(item) \/ SplitGroup(item)
  \/ CloseGroup
  \/ Revalidate
  \/ Judge

DedupeSpec == DedupeInit /\ [][DedupeNext]_vars

-----------------------------------------------------------------------------
\* Every reference of a raw detection is in exactly one place at every step of
\* both passes: still to do, in the open group, or in one result.  A group
\* left unflushed or an item put on two groups would break it.
EachReferenceOnce ==
  \A r \in raw :
    Cardinality({d \in todo \cup group \cup merged : r.id \in d.refs}) = 1

\* Reference definition: two detections of a key belong to one episode when no
\* silence longer than the key's gap lies between them.
SameEpisode(a, b) ==
  \/ a = b
  \/ /\ a.key = b.key /\ Timed(a) /\ Timed(b)
     /\ LET from == Min({FirstTs(a), FirstTs(b)})
            to == Max({FirstTs(a), FirstTs(b)})
            instants == {FirstTs(d) : d \in {x \in raw : x.key = a.key /\ Timed(x)}}
        IN \A t \in instants : from <= t /\ t < to =>
             \E u \in instants : t < u /\ u - t <= MaxGap[a.key]

Episode(r) == {x.id : x \in {y \in raw : SameEpisode(r, y)}}

\* What the first pass hands on is one detection per episode, whatever order
\* the keys were visited in: the loop over sorted items with its memory of one
\* item computes the chains the window rule describes.
OnePerEpisode ==
  pass = "revalidate" =>
    /\ {d.refs : d \in given} = {Episode(r) : r \in raw}
    /\ Cardinality(given) = Cardinality({Episode(r) : r \in raw})

\* A merged detection is placed, for the sort and for the correlation windows,
\* at an instant at which one of its members was: the widened window never
\* moves it to a time at which nothing was detected.
PlacedAtAMember ==
  \A d \in merged \cup given :
    FirstTs(d) \in {FirstTs(r) : r \in {x \in raw : x.id \in d.refs}}

\* The incident builder never refuses the pipeline's own output: deduplicating
\* twice gives what deduplicating once gives, even for groups whose members
\* lack one timestamp or both.
RevalidationAccepts == verdict # "rejected"
=============================================================================
