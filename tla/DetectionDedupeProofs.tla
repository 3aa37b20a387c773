----------------------- MODULE DetectionDedupeProofs -----------------------
(***************************************************************************)
(* Proofs about DetectionDedupe, for any finite set of ids, any keys, gaps *)
(* and timestamps, and any order in which the keys are visited.            *)
(***************************************************************************)
EXTENDS DetectionDedupe, FiniteSetTheorems, WellFoundedInduction, TLAPS

-----------------------------------------------------------------------------
(* Finite sets and orders. *)

\* A nonempty set of naturals has a least element.
LEMMA LeastExists ==
  ASSUME NEW S \in SUBSET Nat, S # {}
  PROVE  \E n \in S : \A m \in S : n <= m
<1>1. PICK n \in S : \A m \in S : ~ (<<m, n>> \in OpToRel(<, Nat))
  BY NatLessThanWellFounded, WFMin
<1>2. \A m \in S : ~ (m < n)
  BY <1>1 DEF OpToRel
<1> QED
  BY <1>2

\* S has an element that R relates to every other.
HasTop(S, R) == \E t \in S : \A x \in S \ {t} : <<x, t>> \in R

\* A finite set has a last element in any transitive total relation: a smallest
\* counterexample would have a smaller one.
LEMMA TopExists ==
  ASSUME NEW S, IsFiniteSet(S), S # {}, NEW R,
         \A x, y \in S : x # y => <<x, y>> \in R \/ <<y, x>> \in R,
         \A x, y, z \in S : <<x, y>> \in R /\ <<y, z>> \in R => <<x, z>> \in R
  PROVE  HasTop(S, R)
<1> DEFINE Counter == {T \in SUBSET S : T # {} /\ ~HasTop(T, R)}
           Sizes == {Cardinality(T) : T \in Counter}
<1>1. ASSUME NEW T \in SUBSET S
      PROVE  IsFiniteSet(T) /\ Cardinality(T) \in Nat
  BY FS_Subset, FS_CardinalityType
<1>2. SUFFICES ASSUME Counter # {} PROVE FALSE
  OBVIOUS
<1>3. Sizes \in SUBSET Nat /\ Sizes # {}
  BY <1>1, <1>2
<1>4. PICK n \in Sizes : \A m \in Sizes : n <= m
  BY <1>3, LeastExists
<1>5. PICK T \in Counter : Cardinality(T) = n
  BY <1>4
<1>6. PICK x : x \in T
  BY <1>5
<1> DEFINE U == T \ {x}
<1>7. Cardinality(U) = n - 1 /\ U \in SUBSET S
  BY <1>1, <1>5, <1>6, FS_RemoveElement
<1>8. n \in Nat
  BY <1>3, <1>4
<1>9. U \notin Counter
  <2>1. SUFFICES ASSUME U \in Counter PROVE FALSE
    OBVIOUS
  <2>2. Cardinality(U) \in Sizes
    BY <2>1
  <2> HIDE DEF U, Sizes
  <2> QED
    BY <2>2, <1>4, <1>7, <1>8
<1>10. CASE U = {}
  <2>1. T = {x}
    BY <1>10, <1>6
  <2> QED
    BY <2>1, <1>5 DEF HasTop
<1>11. CASE U # {}
  <2>1. PICK t \in U : \A y \in U \ {t} : <<y, t>> \in R
    BY <1>7, <1>9, <1>11 DEF HasTop
  <2>2. t \in T /\ t # x /\ t \in S /\ x \in S /\ T \in SUBSET S
    BY <1>5, <1>6
  <2>3. CASE <<x, t>> \in R
    <3>1. \A y \in T \ {t} : <<y, t>> \in R
      BY <2>1, <2>3
    <3> QED
      BY <3>1, <2>2, <1>5 DEF HasTop
  <2>4. CASE <<t, x>> \in R
    <3>1. \A y \in T \ {x} : <<y, x>> \in R
      BY <2>1, <2>2, <2>4
    <3> QED
      BY <3>1, <1>6, <1>5 DEF HasTop
  <2> QED
    BY <2>2, <2>3, <2>4
<1> QED
  BY <1>10, <1>11

\* A nonempty finite set of naturals has a greatest element, and Min and Max
\* are what their names say.
LEMMA Extremes ==
  ASSUME NEW S \in SUBSET Nat, IsFiniteSet(S), S # {}
  PROVE  /\ Min(S) \in S /\ \A n \in S : Min(S) <= n
         /\ Max(S) \in S /\ \A n \in S : n <= Max(S)
<1> DEFINE R == {p \in Nat \X Nat : p[1] <= p[2]}
<1>1. \A x, y \in S : <<x, y>> \in R <=> x <= y
  OBVIOUS
<1>2. HasTop(S, R)
  <2> HIDE DEF R
  <2>1. \A x, y \in S : x # y => <<x, y>> \in R \/ <<y, x>> \in R
    BY <1>1
  <2>2. \A x, y, z \in S : <<x, y>> \in R /\ <<y, z>> \in R => <<x, z>> \in R
    BY <1>1
  <2> QED
    BY <2>1, <2>2, TopExists
<1>3. \E t \in S : \A n \in S : t >= n
  <2> HIDE DEF R
  <2>1. PICK t \in S : \A n \in S \ {t} : <<n, t>> \in R
    BY <1>2 DEF HasTop
  <2>2. ASSUME NEW n \in S PROVE t >= n
    <3>1. n = t \/ <<n, t>> \in R
      BY <2>1
    <3>2. n = t \/ n <= t
      BY <1>1, <3>1
    <3> QED
      BY <3>2
  <2> QED
    BY <2>2
<1>4. \E t \in S : \A n \in S : t =< n
  BY LeastExists
<1> QED
  BY <1>3, <1>4 DEF Min, Max

\* Min and Max of the two numbers SameEpisode compares.
LEMMA PairExtremes ==
  ASSUME NEW a \in Nat, NEW b \in Nat
  PROVE  /\ Min({a, b}) = IF a <= b THEN a ELSE b
         /\ Max({a, b}) = IF a <= b THEN b ELSE a
<1>1. IsFiniteSet({a, b})
  <2>1. IsFiniteSet({a})
    BY FS_Singleton
  <2>2. IsFiniteSet({a} \cup {b})
    BY <2>1, FS_AddElement
  <2>3. {a, b} = {a} \cup {b}
    OBVIOUS
  <2> QED
    BY <2>2, <2>3
<1>2. {a, b} \in SUBSET Nat /\ {a, b} # {}
  OBVIOUS
<1> QED
  BY <1>1, <1>2, Extremes

-----------------------------------------------------------------------------
(* The sort key. *)

DistinctIds(S) == \A a, b \in S : a # b => a.id # b.id

\* The instant of a detection is a natural, or there is none.
LEMMA Instants ==
  ASSUME NEW d \in Detection
  PROVE  /\ FirstTs(d) \in Timestamp /\ d.id \in Nat
         /\ FirstTs(d) \in Nat \/ FirstTs(d) = NoTime
         /\ Timed(d) <=> FirstTs(d) \in Nat
BY DedupeAssumption DEF Detection, Timestamp, FirstTs, Timed

\* Before is a strict order, total on distinct ids; untimed detections go last.
LEMMA BeforeOrders ==
  ASSUME NEW a \in Detection, NEW b \in Detection, NEW c \in Detection
  PROVE  /\ a.id # b.id => Before(a, b) \/ Before(b, a)
         /\ Before(a, b) => ~Before(b, a)
         /\ Before(a, b) /\ Before(b, c) => Before(a, c)
         /\ Before(a, b) /\ Timed(b) => Timed(a) /\ FirstTs(a) <= FirstTs(b)
<1>1. NoTime \notin Nat
  BY DedupeAssumption
<1>2. /\ FirstTs(a) \in Nat \/ FirstTs(a) = NoTime
      /\ FirstTs(b) \in Nat \/ FirstTs(b) = NoTime
      /\ FirstTs(c) \in Nat \/ FirstTs(c) = NoTime
      /\ a.id \in Nat /\ b.id \in Nat /\ c.id \in Nat
  BY Instants
<1> QED
  BY <1>1, <1>2 DEF Before, Timed

\* A nonempty list has a first and a last item.
LEMMA Ends ==
  ASSUME NEW S \in SUBSET Detection, IsFiniteSet(S), S # {}, DistinctIds(S)
  PROVE  /\ First(S) \in S /\ \A e \in S \ {First(S)} : Before(First(S), e)
         /\ LastItem(S) \in S /\ \A e \in S \ {LastItem(S)} : Before(e, LastItem(S))
<1> DEFINE Up == {p \in S \X S : Before(p[1], p[2])}
           Down == {p \in S \X S : Before(p[2], p[1])}
<1>1. \A x, y \in S : (<<x, y>> \in Up <=> Before(x, y)) /\ (<<x, y>> \in Down <=> Before(y, x))
  OBVIOUS
<1> HIDE DEF Up, Down
<1>2. \A x, y \in S : x # y => Before(x, y) \/ Before(y, x)
  BY BeforeOrders DEF DistinctIds
<1>3. \A x, y, z \in S : Before(x, y) /\ Before(y, z) => Before(x, z)
  BY BeforeOrders
<1>4. HasTop(S, Up)
  <2>1. \A x, y \in S : x # y => <<x, y>> \in Up \/ <<y, x>> \in Up
    BY <1>1, <1>2
  <2>2. \A x, y, z \in S : <<x, y>> \in Up /\ <<y, z>> \in Up => <<x, z>> \in Up
    BY <1>1, <1>3
  <2> QED
    BY <2>1, <2>2, TopExists
<1>5. HasTop(S, Down)
  <2>1. \A x, y \in S : x # y => <<x, y>> \in Down \/ <<y, x>> \in Down
    BY <1>1, <1>2
  <2>2. \A x, y, z \in S : <<x, y>> \in Down /\ <<y, z>> \in Down => <<x, z>> \in Down
    BY <1>1, <1>3
  <2> QED
    BY <2>1, <2>2, TopExists
<1>6. \E d \in S : \A e \in S \ {d} : Before(e, d)
  BY <1>1, <1>4 DEF HasTop
<1>7. \E d \in S : \A e \in S \ {d} : Before(d, e)
  BY <1>1, <1>5 DEF HasTop
<1> QED
  BY <1>6, <1>7 DEF First, LastItem

-----------------------------------------------------------------------------
(* Merging a group. *)

\* A list of detections, none of whose references is in two of them.
Listed(S) ==
  /\ S \subseteq Detection /\ IsFiniteSet(S)
  /\ \A d \in S : d.id \in d.refs
  /\ \A d, e \in S : d # e => d.refs \cap e.refs = {}

OneKey(S) == \A d, e \in S : d.key = e.key

LEMMA ListedIds ==
  ASSUME NEW S, Listed(S), NEW T \in SUBSET S
  PROVE  Listed(T) /\ DistinctIds(T)
BY FS_Subset DEF Listed, DistinctIds

\* The earliest and the latest of some timestamps are among them.
LEMMA Extent ==
  ASSUME NEW times \in SUBSET Timestamp, IsFiniteSet(times), times # {}
  PROVE  Earliest(times) \in times /\ Latest(times) \in times
<1>1. Known(times) \in SUBSET Nat /\ Known(times) \subseteq times
  BY DedupeAssumption DEF Known, Timestamp
<1>2. IsFiniteSet(Known(times))
  BY <1>1, FS_Subset
<1>3. CASE Known(times) = {}
  <2>1. NoTime \in times
    BY <1>3 DEF Known
  <2> QED
    BY <1>3, <2>1 DEF Earliest, Latest
<1>4. CASE Known(times) # {}
  <2>1. Min(Known(times)) \in Known(times) /\ Max(Known(times)) \in Known(times)
    BY <1>1, <1>2, <1>4, Extremes
  <2> QED
    BY <1>1, <1>4, <2>1 DEF Earliest, Latest
<1> QED
  BY <1>3, <1>4

LEMMA FieldsFinite ==
  ASSUME NEW S, IsFiniteSet(S)
  PROVE  /\ IsFiniteSet({d.start : d \in S}) /\ IsFiniteSet({d.end : d \in S})
         /\ IsFiniteSet({d.refs : d \in S})
<1>1. [d \in S |-> d.start] \in Surjection(S, {d.start : d \in S})
  BY DEF Surjection
<1>2. [d \in S |-> d.end] \in Surjection(S, {d.end : d \in S})
  BY DEF Surjection
<1>3. [d \in S |-> d.refs] \in Surjection(S, {d.refs : d \in S})
  BY DEF Surjection
<1> QED
  BY <1>1, <1>2, <1>3, FS_Surjection

\* What merging a group keeps, and where it places the result.
LEMMA MergeFacts ==
  ASSUME NEW C, Listed(C), C # {}, OneKey(C)
  PROVE  /\ Merge(C) \in Detection
         /\ \A d \in C : Merge(C).key = d.key
         /\ Merge(C).refs = UNION {d.refs : d \in C}
         /\ Merge(C).id \in Merge(C).refs
         /\ \E d \in C : FirstTs(Merge(C)) = FirstTs(d)
<1> DEFINE starts == {d.start : d \in C}
           ends == {d.end : d \in C}
           f == First(C)
           refs == UNION {d.refs : d \in C}
<1>1. C \subseteq Detection /\ f \in C
  BY ListedIds, Ends DEF Listed
<1>2. /\ starts \in SUBSET Timestamp /\ ends \in SUBSET Timestamp
      /\ starts # {} /\ ends # {} /\ IsFiniteSet(starts) /\ IsFiniteSet(ends)
  <2>1. \A d \in C : d.start \in Timestamp /\ d.end \in Timestamp
    BY <1>1 DEF Detection
  <2>2. IsFiniteSet(starts) /\ IsFiniteSet(ends)
    BY FieldsFinite DEF Listed
  <2> QED
    BY <2>1, <2>2
<1>3. Earliest(starts) \in starts /\ Latest(ends) \in ends
  <2> HIDE DEF starts, ends
  <2> QED
    BY <1>2, Extent
<1>4. Merge(C) = [id |-> f.id, key |-> f.key, start |-> Earliest(starts),
                  end |-> Latest(ends), refs |-> refs]
  <2>1. f \in Detection
    BY <1>1
  <2> HIDE DEF f, starts, ends, refs
  <2>2. Merge(C) = [f EXCEPT !.start = Earliest(starts), !.end = Latest(ends), !.refs = refs]
    BY DEF Merge, f, starts, ends, refs
  <2> QED
    BY <2>1, <2>2 DEF Detection
<1>5. f.id \in refs /\ refs \in SUBSET Id
  BY <1>1 DEF Listed, Detection
<1>6. Merge(C) \in Detection
  <2>1. f.id \in Id /\ f.key \in Key
    BY <1>1 DEF Detection
  <2>2. Earliest(starts) \in Timestamp /\ Latest(ends) \in Timestamp
    BY <1>2, <1>3
  <2> HIDE DEF f, starts, ends, refs
  <2> QED
    BY <1>4, <1>5, <2>1, <2>2 DEF Detection
<1>7. \A d \in C : Merge(C).key = d.key
  BY <1>1, <1>4 DEF OneKey
<1>8. Merge(C).refs = refs /\ Merge(C).id \in refs
  BY <1>4, <1>5
<1>9. /\ Merge(C).start = Earliest(starts) /\ Merge(C).end = Latest(ends)
  BY <1>4
<1>10. CASE Earliest(starts) # NoTime
  <2>1. PICK d \in C : d.start = Earliest(starts)
    BY <1>3
  <2>2. FirstTs(d) = d.start /\ FirstTs(Merge(C)) = d.start
    BY <1>9, <1>10, <2>1 DEF FirstTs
  <2> QED
    BY <1>6, <1>7, <1>8, <2>2
<1>11. CASE Earliest(starts) = NoTime
  <2>1. PICK d \in C : d.end = Latest(ends)
    BY <1>3
  <2>2. d.start = NoTime
    <3>1. d.start \in starts
      OBVIOUS
    <3>2. Known(starts) = {}
      <4>1. SUFFICES ASSUME Known(starts) # {} PROVE FALSE
        OBVIOUS
      <4>2. Known(starts) \in SUBSET Nat /\ IsFiniteSet(Known(starts))
        <5>1. Known(starts) \in SUBSET starts
          BY DEF Known
        <5>2. Known(starts) \in SUBSET Nat
          <6> HIDE DEF starts
          <6> QED
            BY <1>2, DedupeAssumption DEF Known, Timestamp
        <5> QED
          BY <5>1, <5>2, <1>2, FS_Subset
      <4>3. Min(Known(starts)) \in Known(starts)
        BY <4>1, <4>2, Extremes
      <4>4. Earliest(starts) \in Known(starts)
        BY <4>1, <4>3 DEF Earliest
      <4> QED
        BY <4>4, <1>11 DEF Known
    <3> HIDE DEF starts
    <3> QED
      BY <3>1, <3>2 DEF Known
  <2>3. FirstTs(d) = d.end /\ FirstTs(Merge(C)) = d.end
    BY <1>9, <1>11, <2>1, <2>2 DEF FirstTs
  <2> QED
    BY <1>6, <1>7, <1>8, <2>3
<1> QED
  BY <1>10, <1>11

\* A group of one is handed on as it is.
LEMMA MergeOne ==
  ASSUME NEW d \in Detection
  PROVE  Merge({d}) = d
<1>1. First({d}) = d
  BY DEF First
<1>2. {c.start : c \in {d}} = {d.start} /\ {c.end : c \in {d}} = {d.end}
  OBVIOUS
<1>3. UNION {c.refs : c \in {d}} = d.refs
  OBVIOUS
<1>4. ASSUME NEW t \in Timestamp
      PROVE  Earliest({t}) = t /\ Latest({t}) = t
  <2>1. {t} \in SUBSET Timestamp /\ {t} # {} /\ IsFiniteSet({t})
    BY FS_Singleton
  <2>2. Earliest({t}) \in {t} /\ Latest({t}) \in {t}
    BY <2>1, Extent
  <2> QED
    BY <2>2
<1>5. Earliest({d.start}) = d.start /\ Latest({d.end}) = d.end
  BY <1>4 DEF Detection
<1>6. Merge({d}) = [d EXCEPT !.start = d.start, !.end = d.end, !.refs = d.refs]
  BY <1>1, <1>2, <1>3, <1>5 DEF Merge
<1> QED
  BY <1>6 DEF Detection

-----------------------------------------------------------------------------
(* The inductive invariant.  P is the partition of the items already worked *)
(* through into the groups that were closed.                                *)

\* td and gp are what is left of S to do and the open group: within a key the
\* closed groups come before the open one and that before what is left, and
\* only the open group's key may be half done.
Scan(S, P, td, gp) ==
  /\ td \subseteq S /\ gp \subseteq S /\ td \cap gp = {}
  /\ UNION P = S \ (td \cup gp)
  /\ \A C \in P : C # {} /\ OneKey(C)
  /\ \A C, D \in P : C # D => C \cap D = {}
  /\ OneKey(gp)
  /\ \A d \in S \ td, e \in td : d.key = e.key =>
       Before(d, e) /\ gp # {} /\ (\A g \in gp : g.key = d.key)
  /\ \A d \in UNION P, e \in gp : d.key = e.key => Before(d, e)

\* The first pass: groups lie within episodes, closed ones are whole episodes.
Separate(S, P, gp) ==
  /\ \A C \in P \cup {gp} : \A a, b \in C : SameEpisode(a, b)
  /\ \A C \in P : \A a \in C, b \in S \ C : ~SameEpisode(a, b)

\* The second pass: every group has one item ...
Singles(P, gp) == \A C \in P \cup {gp} : \A a, b \in C : a = b

\* ... because detections of a key lie further apart than its gap.
Spread(S) ==
  \A a, b \in S :
    a # b /\ a.key = b.key /\ Timed(a) /\ Timed(b) /\ FirstTs(a) <= FirstTs(b) =>
      FirstTs(b) - FirstTs(a) > MaxGap[a.key]

RawList(S) == Listed(S) /\ \A r \in S : r.refs = {r.id}

Represented ==
  /\ RawList(raw) /\ Listed(given)
  /\ \A r \in raw : \E d \in given : r.id \in d.refs
  /\ \A d \in given :
       \E r \in raw : r.id \in d.refs /\ r.key = d.key /\ FirstTs(d) = FirstTs(r)

RefsAreEpisodes == {d.refs : d \in given} = {Episode(r) : r \in raw}

ScanProgress(P) ==
  /\ Scan(given, P, todo, group)
  /\ merged = {Merge(C) : C \in P}
  /\ pass = "produce" => Separate(given, P, group)
  /\ pass = "revalidate" => Singles(P, group)

DedupeInv ==
  /\ Represented
  /\ pass \in {"produce", "revalidate"}
  /\ pass = "produce" => given = raw
  /\ pass = "revalidate" => Spread(given) /\ RefsAreEpisodes
  /\ verdict \in {"none", "accepted"}
  /\ \E P \in SUBSET SUBSET given : ScanProgress(P)

-----------------------------------------------------------------------------
(* The loop over sorted items: what each step does to Scan. *)

OfKey(S, k) == {d \in S : d.key = k}

\* The item that comes next precedes the others of its key.
LEMMA NextFirst ==
  ASSUME NEW S, Listed(S), NEW td \in SUBSET S, NEW item \in td,
         item = First(OfKey(td, item.key))
  PROVE  \A e \in td \ {item} : e.key = item.key => Before(item, e)
<1> DEFINE T == OfKey(td, item.key)
<1>1. T \in SUBSET S /\ T # {}
  BY DEF OfKey
<1>2. \A e \in T \ {First(T)} : Before(First(T), e)
  <2> HIDE DEF T
  <2>1. Listed(T) /\ DistinctIds(T)
    BY <1>1, ListedIds
  <2> QED
    BY <2>1, <1>1, Ends DEF Listed
<1> QED
  BY <1>2 DEF OfKey

LEMMA GroupEnds ==
  ASSUME NEW S, Listed(S), NEW gp \in SUBSET S, gp # {}
  PROVE  /\ First(gp) \in gp /\ LastItem(gp) \in gp
         /\ \A a \in gp : a = LastItem(gp) \/ Before(a, LastItem(gp))
<1>1. Listed(gp) /\ DistinctIds(gp)
  BY ListedIds
<1> QED
  BY <1>1, Ends DEF Listed

LEMMA OpenScan ==
  ASSUME NEW S, Listed(S), NEW P, NEW td, Scan(S, P, td, {}), NEW item \in td,
         item = First(OfKey(td, item.key))
  PROVE  Scan(S, P, td \ {item}, {item})
<1>1. \A e \in td \ {item} : e.key = item.key => Before(item, e)
  BY NextFirst DEF Scan
<1> QED
  BY <1>1 DEF Scan, OneKey

LEMMA JoinScan ==
  ASSUME NEW S, Listed(S), NEW P, NEW td, NEW gp, Scan(S, P, td, gp), NEW item \in td,
         item = First(OfKey(td, item.key)), gp # {}, item.key = First(gp).key
  PROVE  Scan(S, P, td \ {item}, gp \cup {item})
<1>1. \A e \in td \ {item} : e.key = item.key => Before(item, e)
  BY NextFirst DEF Scan
<1>2. \A g \in gp : g.key = item.key
  BY GroupEnds DEF Scan, OneKey
<1> QED
  BY <1>1, <1>2 DEF Scan, OneKey

LEMMA SplitScan ==
  ASSUME NEW S, Listed(S), NEW P, NEW td, NEW gp, Scan(S, P, td, gp), NEW item \in td,
         item = First(OfKey(td, item.key)), gp # {}, item.key = First(gp).key
  PROVE  Scan(S, P \cup {gp}, td \ {item}, {item})
<1>1. \A e \in td \ {item} : e.key = item.key => Before(item, e)
  BY NextFirst DEF Scan
<1>2. \A g \in gp : g.key = item.key
  BY GroupEnds DEF Scan, OneKey
<1>3. UNION (P \cup {gp}) = (UNION P) \cup gp
  OBVIOUS
<1>4. \A d \in (UNION P) \cup gp : d.key = item.key => Before(d, item)
  BY DEF Scan
<1> QED
  BY <1>1, <1>2, <1>3, <1>4 DEF Scan, OneKey

LEMMA CloseScan ==
  ASSUME NEW S, Listed(S), NEW P, NEW td, NEW gp, Scan(S, P, td, gp),
         gp # {}, OfKey(td, First(gp).key) = {}
  PROVE  Scan(S, P \cup {gp}, td, {})
<1>1. \A g \in gp, e \in td : g.key # e.key
  BY GroupEnds DEF Scan, OneKey, OfKey
<1>2. UNION (P \cup {gp}) = (UNION P) \cup gp
  OBVIOUS
<1> QED
  BY <1>1, <1>2 DEF Scan, OneKey

-----------------------------------------------------------------------------
(* Episodes. *)

\* Every instant from a up to b at which the key was seen is soon followed.
Bridged(a, b) ==
  \A x \in raw : x.key = a.key /\ Timed(x) /\ FirstTs(a) <= FirstTs(x) /\ FirstTs(x) < FirstTs(b) =>
    \E y \in raw : /\ y.key = a.key /\ Timed(y)
                   /\ FirstTs(x) < FirstTs(y) /\ FirstTs(y) - FirstTs(x) <= MaxGap[a.key]

LEMMA SameEpisodeBridged ==
  ASSUME raw \subseteq Detection, NEW a \in raw, NEW b \in raw,
         a.key = b.key, Timed(a), Timed(b), FirstTs(a) <= FirstTs(b)
  PROVE  /\ SameEpisode(a, b) <=> (a = b \/ Bridged(a, b))
         /\ SameEpisode(b, a) <=> (a = b \/ Bridged(a, b))
<1> DEFINE instants == {FirstTs(d) : d \in {x \in raw : x.key = a.key /\ Timed(x)}}
           Soon(t) == \E u \in instants : t < u /\ u - t <= MaxGap[a.key]
           All == \A t \in instants : FirstTs(a) <= t /\ t < FirstTs(b) => Soon(t)
<1>1. FirstTs(a) \in Nat /\ FirstTs(b) \in Nat
  BY Instants
<1>2. /\ Min({FirstTs(a), FirstTs(b)}) = FirstTs(a) /\ Max({FirstTs(a), FirstTs(b)}) = FirstTs(b)
      /\ Min({FirstTs(b), FirstTs(a)}) = FirstTs(a) /\ Max({FirstTs(b), FirstTs(a)}) = FirstTs(b)
  BY <1>1, PairExtremes
<1>3. All <=> Bridged(a, b)
  BY DEF Bridged
<1>4. SameEpisode(a, b) <=> (a = b \/ All)
  BY <1>2 DEF SameEpisode
<1>5. SameEpisode(b, a) <=> (a = b \/ All)
  BY <1>2 DEF SameEpisode
<1> QED
  BY <1>3, <1>4, <1>5

\* Belonging together is symmetric, and needs one key and two instants.
LEMMA EpisodeShape ==
  ASSUME raw \subseteq Detection, NEW a \in raw, NEW b \in raw
  PROVE  /\ SameEpisode(a, b) <=> SameEpisode(b, a)
         /\ SameEpisode(a, b) /\ a # b => a.key = b.key /\ Timed(a) /\ Timed(b)
<1>1. SameEpisode(a, b) /\ a # b => a.key = b.key /\ Timed(a) /\ Timed(b)
  BY DEF SameEpisode
<1>2. SameEpisode(b, a) /\ a # b => a.key = b.key /\ Timed(a) /\ Timed(b)
  BY DEF SameEpisode
<1>3. CASE a = b
  BY <1>3
<1>4. CASE a # b /\ a.key = b.key /\ Timed(a) /\ Timed(b)
  <2>1. FirstTs(a) \in Nat /\ FirstTs(b) \in Nat
    BY <1>4, Instants
  <2>2. CASE FirstTs(a) <= FirstTs(b)
    <3>1. SameEpisode(a, b) <=> SameEpisode(b, a)
      BY <1>4, <2>2, SameEpisodeBridged
    <3> QED
      BY <1>1, <3>1
  <2>3. CASE FirstTs(b) <= FirstTs(a)
    <3>1. SameEpisode(a, b) <=> SameEpisode(b, a)
      BY <1>4, <2>3, SameEpisodeBridged
    <3> QED
      BY <1>1, <3>1
  <2> QED
    BY <2>1, <2>2, <2>3
<1> QED
  BY <1>1, <1>2, <1>3, <1>4

\* An item close enough to the last item of a group is of the group's episode.
LEMMA JoinSame ==
  ASSUME Listed(raw), NEW gp \in SUBSET raw, gp # {},
         \A a, b \in gp : SameEpisode(a, b),
         NEW item \in raw, \A g \in gp : g.key = item.key /\ Before(g, item),
         Continues(gp, item)
  PROVE  \A a, b \in gp \cup {item} : SameEpisode(a, b)
<1> DEFINE last == LastItem(gp)
<1>1. last \in gp /\ \A a \in gp : a = last \/ Before(a, last)
  BY GroupEnds
<1>2. raw \subseteq Detection
  BY DEF Listed
<1>3. Timed(last) /\ Timed(item) /\ FirstTs(item) - FirstTs(last) <= MaxGap[item.key]
  BY DEF Continues
<1> HIDE DEF last
<1>4. FirstTs(last) \in Nat /\ FirstTs(item) \in Nat /\ FirstTs(last) <= FirstTs(item)
  BY <1>1, <1>2, <1>3, Instants, BeforeOrders
<1>5. ASSUME NEW a \in gp
      PROVE  SameEpisode(a, item) /\ SameEpisode(item, a)
  <2>1. Timed(a) /\ FirstTs(a) <= FirstTs(last) /\ FirstTs(a) \in Nat
    BY <1>1, <1>2, <1>3, <1>4, Instants, BeforeOrders
  <2>2. a.key = item.key /\ a.key = last.key
    BY <1>1
  <2>3. a = last \/ Bridged(a, last)
    BY <1>1, <1>2, <1>3, <2>1, <2>2, SameEpisodeBridged
  <2>4. ASSUME NEW x \in raw, x.key = a.key, Timed(x),
               FirstTs(a) <= FirstTs(x), FirstTs(x) < FirstTs(item)
        PROVE  \E y \in raw : /\ y.key = a.key /\ Timed(y)
                   /\ FirstTs(x) < FirstTs(y) /\ FirstTs(y) - FirstTs(x) <= MaxGap[a.key]
    <3>1. FirstTs(x) \in Nat /\ MaxGap[a.key] \in Nat
      BY <1>2, <2>4, Instants, DedupeAssumption DEF Detection
    <3>2. CASE FirstTs(x) < FirstTs(last)
      <4>1. a # last
        BY <2>1, <2>4, <3>1, <3>2
      <4> QED
        BY <2>3, <2>4, <3>2, <4>1 DEF Bridged
    <3>3. CASE FirstTs(x) >= FirstTs(last)
      <4>1. FirstTs(item) - FirstTs(x) <= MaxGap[a.key]
        BY <1>3, <1>4, <2>2, <3>1, <3>3
      <4> QED
        BY <1>3, <2>2, <2>4, <4>1
    <3> QED
      BY <1>4, <3>1, <3>2, <3>3
  <2>5. Bridged(a, item)
    BY <2>4 DEF Bridged
  <2>6. FirstTs(a) <= FirstTs(item)
    BY <1>4, <2>1
  <2> QED
    BY <1>2, <1>3, <2>1, <2>2, <2>5, <2>6, SameEpisodeBridged
<1>6. SameEpisode(item, item)
  BY DEF SameEpisode
<1> QED
  BY <1>5, <1>6

\* An item too far from the last item of a group ends the group's episode.
LEMMA SplitApart ==
  ASSUME Listed(raw), NEW P, NEW td, NEW gp, Scan(raw, P, td, gp), gp # {},
         NEW item \in td, item = First(OfKey(td, item.key)),
         \A g \in gp : g.key = item.key, ~Continues(gp, item),
         NEW a \in gp, NEW b \in td
  PROVE  ~SameEpisode(a, b)
<1> DEFINE last == LastItem(gp)
<1>1. raw \subseteq Detection /\ gp \subseteq raw /\ td \subseteq raw /\ td \cap gp = {}
  BY DEF Listed, Scan
<1>2. last \in gp /\ \A g \in gp : g = last \/ Before(g, last)
  BY <1>1, GroupEnds
<1>3. \A e \in td : e.key = item.key => e = item \/ Before(item, e)
  BY <1>1, NextFirst
<1>4. Before(last, item)
  BY <1>1, <1>2 DEF Scan
<1>5. SUFFICES ASSUME SameEpisode(a, b) PROVE FALSE
  OBVIOUS
<1>6. a # b /\ a \in raw /\ b \in raw
  BY <1>1
<1>7. a.key = b.key /\ Timed(a) /\ Timed(b) /\ a.key = item.key /\ last.key = item.key
  BY <1>1, <1>2, <1>5, <1>6, EpisodeShape
<1>8. Timed(item) /\ FirstTs(item) <= FirstTs(b)
  <2>1. b = item \/ Before(item, b)
    BY <1>3, <1>7
  <2>2. FirstTs(b) \in Nat /\ item \in Detection /\ b \in Detection
    BY <1>1, <1>7, Instants
  <2> QED
    BY <1>7, <2>1, <2>2, BeforeOrders
<1>9. ~(Timed(last) /\ Timed(item) /\ FirstTs(item) - FirstTs(last) <= MaxGap[item.key])
  BY DEF Continues
<1> HIDE DEF last
<1>10. last \in raw /\ item \in raw
  BY <1>1, <1>2
<1>11. Timed(last) /\ FirstTs(last) <= FirstTs(item)
  BY <1>1, <1>4, <1>8, <1>10, BeforeOrders
<1>12. Timed(a) /\ FirstTs(a) <= FirstTs(last)
  <2>1. a = last \/ Before(a, last)
    BY <1>2
  <2>2. FirstTs(last) \in Nat /\ a \in Detection /\ last \in Detection
    BY <1>1, <1>6, <1>10, <1>11, Instants
  <2> QED
    BY <1>11, <2>1, <2>2, BeforeOrders
<1>13. /\ FirstTs(a) \in Nat /\ FirstTs(b) \in Nat /\ FirstTs(last) \in Nat /\ FirstTs(item) \in Nat
       /\ MaxGap[item.key] \in Nat
  BY <1>1, <1>6, <1>7, <1>8, <1>10, <1>11, Instants, DedupeAssumption DEF Detection
<1>14. FirstTs(item) - FirstTs(last) > MaxGap[item.key]
  BY <1>8, <1>9, <1>11, <1>13
<1>15. FirstTs(a) <= FirstTs(last) /\ FirstTs(last) < FirstTs(b) /\ FirstTs(a) <= FirstTs(b)
  BY <1>8, <1>12, <1>13, <1>14
<1>16. Bridged(a, b)
  BY <1>1, <1>5, <1>6, <1>7, <1>15, SameEpisodeBridged
<1>17. PICK y \in raw : /\ y.key = a.key /\ Timed(y) /\ FirstTs(last) < FirstTs(y)
                        /\ FirstTs(y) - FirstTs(last) <= MaxGap[a.key]
  BY <1>7, <1>10, <1>11, <1>15, <1>16 DEF Bridged
<1>18. FirstTs(y) \in Nat /\ y \in Detection /\ last \in Detection /\ item \in Detection
  BY <1>1, <1>10, <1>17, Instants
<1>19. CASE y \in td
  <2>1. y = item \/ Before(item, y)
    BY <1>3, <1>7, <1>17, <1>19
  <2>2. FirstTs(item) <= FirstTs(y)
    BY <1>13, <1>17, <1>18, <2>1, BeforeOrders
  <2> QED
    BY <1>7, <1>13, <1>14, <1>17, <1>18, <2>2
<1>20. CASE y = last
  BY <1>13, <1>17, <1>20
<1>21. CASE Before(y, last)
  <2>1. FirstTs(y) <= FirstTs(last)
    BY <1>11, <1>18, <1>21, BeforeOrders
  <2> QED
    BY <1>13, <1>17, <1>18, <2>1
<1>22. y \in td \/ y \in gp \/ y \in UNION P
  BY <1>17 DEF Scan
<1>23. y \in gp => y = last \/ Before(y, last)
  BY <1>2
<1>24. y \in UNION P => Before(y, last)
  <2>1. y.key = last.key
    BY <1>7, <1>17
  <2> QED
    BY <1>2, <2>1 DEF Scan
<1> QED
  BY <1>19, <1>20, <1>21, <1>22, <1>23, <1>24

\* A group whose episode has no item left can be closed.
LEMMA CloseSeparate ==
  ASSUME Listed(raw), NEW P, NEW td, NEW gp, Scan(raw, P, td, gp), Separate(raw, P, gp),
         \A a \in gp, b \in td : ~SameEpisode(a, b)
  PROVE  \A C \in P \cup {gp} : \A a \in C, b \in raw \ C : ~SameEpisode(a, b)
<1>1. SUFFICES ASSUME NEW a \in gp, NEW b \in raw \ gp PROVE ~SameEpisode(a, b)
  BY DEF Separate
<1>2. a \in raw /\ (b \in td \/ b \in UNION P)
  BY DEF Scan
<1>3. CASE b \in UNION P
  <2>1. PICK C \in P : b \in C
    BY <1>3
  <2>2. a \notin C
    BY <2>1 DEF Scan
  <2>3. ~SameEpisode(b, a)
    BY <1>2, <2>1, <2>2 DEF Separate
  <2> QED
    BY <1>2, <2>3, EpisodeShape DEF Listed
<1> QED
  BY <1>2, <1>3

-----------------------------------------------------------------------------
(* The steps. *)

LEMMA EpisodeUnchanged ==
  ASSUME raw' = raw
  PROVE  /\ \A a, b : SameEpisode(a, b)' <=> SameEpisode(a, b)
         /\ \A r : Episode(r)' = Episode(r)
<1>1. \A a, b : SameEpisode(a, b)' <=> SameEpisode(a, b)
  BY DEF SameEpisode
<1>2. ASSUME NEW r PROVE Episode(r)' = Episode(r)
  BY <1>1 DEF Episode
<1> QED
  BY <1>1, <1>2

\* A step of the loop leaves the lists and the verdict alone.
LEMMA LoopStep ==
  ASSUME DedupeInv, UNCHANGED <<raw, given, pass, verdict>>,
         NEW Q, Q \in SUBSET SUBSET given, ScanProgress(Q)'
  PROVE  DedupeInv'
<1>1. Represented'
  BY DEF DedupeInv, Represented
<1>2. RefsAreEpisodes' <=> RefsAreEpisodes
  BY EpisodeUnchanged DEF RefsAreEpisodes
<1> QED
  BY <1>1, <1>2 DEF DedupeInv

LEMMA NextItem ==
  ASSUME DedupeInv, NEW P, Scan(given, P, todo, group), NEW item \in todo, IsNext(item)
  PROVE  /\ item = First(OfKey(todo, item.key)) /\ item \in given /\ Listed(given)
         /\ group # {} => /\ item.key = First(group).key
                          /\ \A g \in group : g.key = item.key /\ Before(g, item)
<1>1. Listed(given) /\ item \in given
  BY DEF DedupeInv, Represented, Scan
<1>2. item = First(OfKey(todo, item.key))
  BY DEF IsNext, Remaining, OfKey
<1>3. ASSUME group # {} PROVE item.key = First(group).key
  BY <1>3 DEF IsNext, GroupKey
<1>4. ASSUME group # {}, NEW g \in group PROVE g.key = item.key /\ Before(g, item)
  <2>1. g.key = item.key
    BY <1>1, <1>3, <1>4, GroupEnds DEF Scan, OneKey
  <2> QED
    BY <2>1 DEF Scan
<1> QED
  BY <1>1, <1>2, <1>3, <1>4

LEMMA OpenStep ==
  ASSUME DedupeInv, NEW item \in todo, OpenGroup(item)
  PROVE  DedupeInv'
<1>1. PICK P \in SUBSET SUBSET given : ScanProgress(P)
  BY DEF DedupeInv
<1>2. /\ IsNext(item) /\ group = {} /\ group' = {item} /\ todo' = todo \ {item}
      /\ UNCHANGED <<raw, given, merged, pass, verdict>>
  BY DEF OpenGroup
<1>3. Scan(given, P, todo, group)
  BY <1>1 DEF ScanProgress
<1>4. Scan(given', P, todo', group')
  BY <1>2, <1>3, NextItem, OpenScan
<1>5. ASSUME pass = "produce" PROVE Separate(given, P, group)'
  <2>1. SameEpisode(item, item)
    BY DEF SameEpisode
  <2>2. Separate(given, P, {item})
    BY <1>1, <1>2, <1>5, <2>1 DEF ScanProgress, Separate
  <2> QED
    BY <1>2, <2>2, EpisodeUnchanged DEF Separate
<1>6. pass = "revalidate" => Singles(P, group')
  BY <1>1, <1>2 DEF ScanProgress, Singles
<1>7. ScanProgress(P)'
  BY <1>1, <1>2, <1>4, <1>5, <1>6 DEF ScanProgress
<1> QED
  BY <1>2, <1>7, LoopStep

\* In the second pass no item is close enough to join a group.
LEMMA NoSecondJoin ==
  ASSUME DedupeInv, pass = "revalidate", NEW P, Scan(given, P, todo, group),
         NEW item \in todo, IsNext(item), group # {}, Continues(group, item)
  PROVE  FALSE
<1> DEFINE last == LastItem(group)
<1>1. /\ Listed(given) /\ item \in given
      /\ \A g \in group : g.key = item.key /\ Before(g, item)
  BY NextItem
<1>2. last \in group /\ last \in given /\ last # item
  BY <1>1, GroupEnds DEF Scan
<1>3. Timed(last) /\ Timed(item) /\ FirstTs(item) - FirstTs(last) <= MaxGap[item.key]
  BY DEF Continues
<1> HIDE DEF last
<1>4. last \in Detection /\ item \in Detection
  BY <1>1, <1>2 DEF Listed
<1>5. FirstTs(last) <= FirstTs(item) /\ last.key = item.key
  BY <1>1, <1>2, <1>3, <1>4, BeforeOrders
<1>6. FirstTs(item) - FirstTs(last) > MaxGap[last.key]
  BY <1>1, <1>2, <1>3, <1>5 DEF DedupeInv, Spread
<1>7. FirstTs(last) \in Nat /\ FirstTs(item) \in Nat /\ MaxGap[item.key] \in Nat
  BY <1>3, <1>4, Instants, DedupeAssumption DEF Detection
<1> QED
  BY <1>3, <1>5, <1>6, <1>7

LEMMA JoinStep ==
  ASSUME DedupeInv, NEW item \in todo, JoinGroup(item)
  PROVE  DedupeInv'
<1>1. PICK P \in SUBSET SUBSET given : ScanProgress(P)
  BY DEF DedupeInv
<1>2. /\ IsNext(item) /\ group # {} /\ Continues(group, item)
      /\ group' = group \cup {item} /\ todo' = todo \ {item}
      /\ UNCHANGED <<raw, given, merged, pass, verdict>>
  BY DEF JoinGroup
<1>3. Scan(given, P, todo, group)
  BY <1>1 DEF ScanProgress
<1>4. /\ Listed(given) /\ item \in given /\ item = First(OfKey(todo, item.key))
      /\ item.key = First(group).key
      /\ \A g \in group : g.key = item.key /\ Before(g, item)
  BY <1>2, <1>3, NextItem
<1>5. Scan(given', P, todo', group')
  BY <1>2, <1>3, <1>4, JoinScan
<1>6. ASSUME pass = "produce" PROVE Separate(given, P, group)'
  <2>1. given = raw /\ Separate(given, P, group) /\ group \in SUBSET raw
    BY <1>1, <1>3, <1>6 DEF DedupeInv, ScanProgress, Scan
  <2>2. \A a, b \in group \cup {item} : SameEpisode(a, b)
    <3>1. \A a, b \in group : SameEpisode(a, b)
      BY <2>1 DEF Separate
    <3> QED
      BY <1>2, <1>4, <2>1, <3>1, JoinSame
  <2>3. Separate(given, P, group \cup {item})
    BY <2>1, <2>2 DEF Separate
  <2> QED
    BY <1>2, <2>3, EpisodeUnchanged DEF Separate
<1>7. pass # "revalidate"
  BY <1>2, <1>3, NoSecondJoin
<1>8. ScanProgress(P)'
  BY <1>1, <1>2, <1>5, <1>6, <1>7 DEF ScanProgress
<1> QED
  BY <1>2, <1>8, LoopStep

LEMMA SplitStep ==
  ASSUME DedupeInv, NEW item \in todo, SplitGroup(item)
  PROVE  DedupeInv'
<1>1. PICK P \in SUBSET SUBSET given : ScanProgress(P)
  BY DEF DedupeInv
<1>0. PICK Q : Q = P \cup {group}
  OBVIOUS
<1>2. /\ IsNext(item) /\ group # {} /\ ~Continues(group, item)
      /\ merged' = merged \cup {Merge(group)}
      /\ group' = {item} /\ todo' = todo \ {item}
      /\ UNCHANGED <<raw, given, pass, verdict>>
  BY DEF SplitGroup
<1>3. Scan(given, P, todo, group)
  BY <1>1 DEF ScanProgress
<1>4. /\ Listed(given) /\ item \in given /\ item = First(OfKey(todo, item.key))
      /\ item.key = First(group).key
      /\ \A g \in group : g.key = item.key /\ Before(g, item)
  BY <1>2, <1>3, NextItem
<1>5. Scan(given', Q, todo', group')
  BY <1>0, <1>2, <1>3, <1>4, SplitScan
<1>6. ASSUME pass = "produce" PROVE Separate(given, Q, group)'
  <2>1. given = raw /\ Separate(raw, P, group) /\ Scan(raw, P, todo, group)
    BY <1>1, <1>3, <1>6 DEF DedupeInv, ScanProgress
  <2>2. \A a \in group, b \in todo : ~SameEpisode(a, b)
    BY <1>2, <1>4, <2>1, SplitApart
  <2>3. \A C \in Q : \A a \in C, b \in raw \ C : ~SameEpisode(a, b)
    BY <1>0, <1>4, <2>1, <2>2, CloseSeparate
  <2>4. \A C \in Q : \A a, b \in C : SameEpisode(a, b)
    BY <1>0, <2>1 DEF Separate
  <2>5. SameEpisode(item, item)
    BY DEF SameEpisode
  <2>6. Separate(given, Q, {item})
    BY <2>1, <2>3, <2>4, <2>5 DEF Separate
  <2> QED
    BY <1>2, <2>6, EpisodeUnchanged DEF Separate
<1>7. pass = "revalidate" => Singles(Q, group')
  BY <1>0, <1>1, <1>2 DEF ScanProgress, Singles
<1>8. merged' = {Merge(C) : C \in Q}
  BY <1>0, <1>1, <1>2 DEF ScanProgress
<1>9. Q \in SUBSET SUBSET given
  BY <1>0, <1>3 DEF Scan
<1>10. ScanProgress(Q)'
  BY <1>2, <1>5, <1>6, <1>7, <1>8 DEF ScanProgress
<1> QED
  BY <1>2, <1>9, <1>10, LoopStep

LEMMA CloseStep ==
  ASSUME DedupeInv, CloseGroup
  PROVE  DedupeInv'
<1>1. PICK P \in SUBSET SUBSET given : ScanProgress(P)
  BY DEF DedupeInv
<1>0. PICK Q : Q = P \cup {group}
  OBVIOUS
<1>2. /\ group # {} /\ Remaining(GroupKey) = {}
      /\ merged' = merged \cup {Merge(group)} /\ group' = {}
      /\ UNCHANGED <<raw, given, todo, pass, verdict>>
  BY DEF CloseGroup
<1>3. Scan(given, P, todo, group) /\ Listed(given) /\ OfKey(todo, First(group).key) = {}
  BY <1>0, <1>1, <1>2 DEF ScanProgress, DedupeInv, Represented, Remaining, GroupKey, OfKey
<1>4. Scan(given', Q, todo', group')
  BY <1>0, <1>2, <1>3, CloseScan
<1>5. ASSUME pass = "produce" PROVE Separate(given, Q, group)'
  <2>1. given = raw /\ Separate(raw, P, group) /\ Scan(raw, P, todo, group) /\ Listed(raw)
    BY <1>1, <1>3, <1>5 DEF DedupeInv, ScanProgress
  <2>2. ASSUME NEW a \in group, NEW b \in todo PROVE ~SameEpisode(a, b)
    <3>1. a.key # b.key
      BY <1>2, <1>3, GroupEnds DEF Scan, OneKey, OfKey
    <3> QED
      BY <3>1 DEF SameEpisode
  <2>3. \A C \in Q : \A a \in C, b \in raw \ C : ~SameEpisode(a, b)
    BY <1>0, <2>1, <2>2, CloseSeparate
  <2>4. \A C \in Q : \A a, b \in C : SameEpisode(a, b)
    BY <1>0, <2>1 DEF Separate
  <2>5. Separate(given, Q, {})
    BY <2>1, <2>3, <2>4 DEF Separate
  <2> QED
    BY <1>2, <2>5, EpisodeUnchanged DEF Separate
<1>6. pass = "revalidate" => Singles(Q, group')
  BY <1>0, <1>1, <1>2 DEF ScanProgress, Singles
<1>7. merged' = {Merge(C) : C \in Q}
  BY <1>0, <1>1, <1>2 DEF ScanProgress
<1>8. Q \in SUBSET SUBSET given
  BY <1>0, <1>3 DEF Scan
<1>9. ScanProgress(Q)'
  BY <1>2, <1>4, <1>5, <1>6, <1>7 DEF ScanProgress
<1> QED
  BY <1>2, <1>8, <1>9, LoopStep

\* The parts of a partition of a list, each of one key, merge into a list.
LEMMA PartsMerge ==
  ASSUME NEW S, Listed(S), NEW P, Scan(S, P, {}, {})
  PROVE  /\ Listed({Merge(C) : C \in P})
         /\ \A C \in P : /\ Listed(C) /\ Merge(C) \in Detection
                         /\ \A d \in C : Merge(C).key = d.key
                         /\ Merge(C).refs = UNION {d.refs : d \in C}
                         /\ \E d \in C : FirstTs(Merge(C)) = FirstTs(d)
<1>1. UNION P = S /\ P \in SUBSET SUBSET S /\ \A C \in P : C # {} /\ OneKey(C)
  BY DEF Scan
<1>2. ASSUME NEW C \in P
      PROVE  /\ Listed(C) /\ Merge(C) \in Detection
             /\ \A d \in C : Merge(C).key = d.key
             /\ Merge(C).refs = UNION {d.refs : d \in C}
             /\ Merge(C).id \in Merge(C).refs
             /\ \E d \in C : FirstTs(Merge(C)) = FirstTs(d)
  <2>1. Listed(C)
    BY <1>1, ListedIds
  <2> QED
    BY <1>1, <2>1, MergeFacts
<1>3. IsFiniteSet({Merge(C) : C \in P})
  <2>1. IsFiniteSet(P)
    <3>1. IsFiniteSet(SUBSET S)
      BY FS_SUBSET DEF Listed
    <3> QED
      BY <1>1, <3>1, FS_Subset
  <2>2. [C \in P |-> Merge(C)] \in Surjection(P, {Merge(C) : C \in P})
    BY DEF Surjection
  <2> QED
    BY <2>1, <2>2, FS_Surjection
<1>4. ASSUME NEW C \in P, NEW D \in P, Merge(C) # Merge(D)
      PROVE  Merge(C).refs \cap Merge(D).refs = {}
  <2>1. C # D /\ C \cap D = {}
    BY <1>4 DEF Scan
  <2>2. SUFFICES ASSUME NEW i, i \in Merge(C).refs, i \in Merge(D).refs PROVE FALSE
    OBVIOUS
  <2>3. PICK c \in C : i \in c.refs
    BY <1>2, <2>2
  <2>4. PICK d \in D : i \in d.refs
    BY <1>2, <2>2
  <2>5. c # d /\ c \in S /\ d \in S
    BY <1>1, <2>1
  <2> QED
    BY <2>3, <2>4, <2>5 DEF Listed
<1>5. Listed({Merge(C) : C \in P})
  BY <1>2, <1>3, <1>4 DEF Listed
<1> QED
  BY <1>2, <1>5

\* Merged episodes of a key lie further apart than its gap.
LEMMA PartsSpread ==
  ASSUME Listed(raw), NEW P, Scan(raw, P, {}, {}), Separate(raw, P, {})
  PROVE  Spread({Merge(C) : C \in P})
<1>1. SUFFICES ASSUME NEW C \in P, NEW D \in P,
                      Merge(C) # Merge(D), Merge(C).key = Merge(D).key,
                      Timed(Merge(C)), Timed(Merge(D)),
                      FirstTs(Merge(C)) <= FirstTs(Merge(D))
               PROVE  FirstTs(Merge(D)) - FirstTs(Merge(C)) > MaxGap[Merge(C).key]
  BY DEF Spread
<1>2. PICK c \in C : FirstTs(Merge(C)) = FirstTs(c)
  BY PartsMerge
<1>3. PICK d \in D : FirstTs(Merge(D)) = FirstTs(d)
  BY PartsMerge
<1>4. Merge(C).key = c.key /\ c.key = d.key
  BY <1>1, PartsMerge
<1>5. c \in raw /\ d \in raw /\ d \notin C /\ raw \subseteq Detection
  BY <1>1 DEF Scan, Listed
<1>6. ~SameEpisode(c, d) /\ c # d
  BY <1>5 DEF Separate
<1>7. Timed(c) /\ Timed(d) /\ FirstTs(c) <= FirstTs(d)
  BY <1>1, <1>2, <1>3 DEF Timed
<1>8. ~Bridged(c, d)
  BY <1>4, <1>5, <1>6, <1>7, SameEpisodeBridged
<1>9. PICK x \in raw : /\ x.key = c.key /\ Timed(x)
                       /\ FirstTs(c) <= FirstTs(x) /\ FirstTs(x) < FirstTs(d)
                       /\ \A y \in raw : ~ (/\ y.key = c.key /\ Timed(y)
                            /\ FirstTs(x) < FirstTs(y) /\ FirstTs(y) - FirstTs(x) <= MaxGap[c.key])
  BY <1>8 DEF Bridged
<1>10. ~ (FirstTs(d) - FirstTs(x) <= MaxGap[c.key])
  BY <1>4, <1>5, <1>7, <1>9
<1>11. /\ FirstTs(c) \in Nat /\ FirstTs(d) \in Nat /\ FirstTs(x) \in Nat
       /\ MaxGap[c.key] \in Nat
  BY <1>5, <1>7, <1>9, Instants, DedupeAssumption DEF Detection
<1>12. FirstTs(d) - FirstTs(c) > MaxGap[c.key]
  BY <1>9, <1>10, <1>11
<1> QED
  BY <1>2, <1>3, <1>4, <1>12

\* The references of a merged episode are the ids of its members.
LEMMA PartsAreEpisodes ==
  ASSUME RawList(raw), NEW P, Scan(raw, P, {}, {}), Separate(raw, P, {})
  PROVE  \A C \in P : \A r \in C : Merge(C).refs = Episode(r)
<1>1. SUFFICES ASSUME NEW C \in P, NEW r \in C PROVE Merge(C).refs = Episode(r)
  OBVIOUS
<1>2. C \subseteq raw /\ \A x \in raw : x.refs = {x.id}
  BY DEF Scan, RawList
<1>3. \A x \in raw : SameEpisode(r, x) <=> x \in C
  BY <1>2 DEF Separate
<1>4. Merge(C).refs = UNION {d.refs : d \in C}
  BY PartsMerge DEF RawList
<1>5. Merge(C).refs = {d.id : d \in C}
  <2>1. \A d \in C : d.refs = {d.id}
    BY <1>2
  <2> QED
    BY <1>4, <2>1
<1>6. Episode(r) = {d.id : d \in C}
  <2>1. {y \in raw : SameEpisode(r, y)} = C
    BY <1>2, <1>3
  <2> QED
    BY <2>1 DEF Episode
<1> QED
  BY <1>5, <1>6

LEMMA RevalidateStep ==
  ASSUME DedupeInv, Revalidate
  PROVE  DedupeInv'
<1>1. PICK P \in SUBSET SUBSET given : ScanProgress(P)
  BY DEF DedupeInv
<1>2. /\ pass = "produce" /\ todo = {} /\ group = {} /\ pass' = "revalidate"
      /\ given' = merged /\ todo' = merged /\ merged' = {}
      /\ UNCHANGED <<raw, group, verdict>>
  BY DEF Revalidate, Finished
<1>3. /\ given = raw /\ RawList(raw) /\ Listed(raw) /\ merged = {Merge(C) : C \in P}
      /\ Scan(raw, P, {}, {}) /\ Separate(raw, P, {})
  BY <1>1, <1>2 DEF DedupeInv, Represented, RawList, ScanProgress
<1>4. /\ Listed(merged) /\ Spread(merged)
      /\ \A C \in P : /\ Merge(C).refs = UNION {d.refs : d \in C}
                      /\ \A d \in C : Merge(C).key = d.key
                      /\ \E d \in C : FirstTs(Merge(C)) = FirstTs(d)
  BY <1>3, PartsMerge, PartsSpread
<1>5. Represented'
  <2>1. ASSUME NEW r \in raw PROVE \E d \in merged : r.id \in d.refs
    <3>1. PICK C \in P : r \in C
      BY <1>3 DEF Scan
    <3>2. r.id \in Merge(C).refs
      BY <1>3, <1>4, <3>1 DEF Listed
    <3> QED
      BY <1>3, <3>2
  <2>2. ASSUME NEW d \in merged
        PROVE  \E r \in raw : r.id \in d.refs /\ r.key = d.key /\ FirstTs(d) = FirstTs(r)
    <3>1. PICK C \in P : d = Merge(C)
      BY <1>3
    <3>2. PICK r \in C : FirstTs(d) = FirstTs(r)
      BY <1>4, <3>1
    <3>3. r \in raw /\ r.id \in d.refs /\ r.key = d.key
      BY <1>3, <1>4, <3>1 DEF Scan, Listed
    <3> QED
      BY <3>2, <3>3
  <2> QED
    BY <1>2, <1>3, <1>4, <2>1, <2>2 DEF Represented
<1>6. RefsAreEpisodes'
  <2>1. \A C \in P : \A r \in C : Merge(C).refs = Episode(r)
    BY <1>3, PartsAreEpisodes
  <2>2. {d.refs : d \in merged} = {Merge(C).refs : C \in P}
    BY <1>3
  <2>3. {Merge(C).refs : C \in P} = {Episode(r) : r \in raw}
    <3>1. \A C \in P : \E r \in raw : r \in C
      BY <1>3 DEF Scan
    <3>2. \A r \in raw : \E C \in P : r \in C
      BY <1>3 DEF Scan
    <3> QED
      BY <2>1, <3>1, <3>2
  <2> QED
    BY <1>2, <2>2, <2>3, EpisodeUnchanged DEF RefsAreEpisodes
<1>7. ScanProgress({})'
  <2>1. Scan(merged, {}, merged, {})
    BY DEF Scan, OneKey
  <2>2. Singles({}, {})
    BY DEF Singles
  <2> QED
    BY <1>2, <2>1, <2>2 DEF ScanProgress
<1>8. {} \in SUBSET SUBSET merged
  OBVIOUS
<1>9. Spread(given)'
  BY <1>2, <1>4 DEF Spread
<1> QED
  BY <1>2, <1>5, <1>6, <1>7, <1>8, <1>9 DEF DedupeInv

\* The second pass hands back what it was given.
LEMMA SecondPassSame ==
  ASSUME DedupeInv, pass = "revalidate", Finished
  PROVE  merged = given
<1>1. PICK P \in SUBSET SUBSET given : ScanProgress(P)
  BY DEF DedupeInv
<1>2. /\ merged = {Merge(C) : C \in P} /\ UNION P = given
      /\ \A C \in P : C # {} /\ \A a, b \in C : a = b
  BY <1>1 DEF ScanProgress, Finished, Scan, Singles
<1>3. given \subseteq Detection
  BY DEF DedupeInv, Represented, Listed
<1>4. \A C \in P : \E d \in given : C = {d} /\ Merge(C) = d
  <2>1. SUFFICES ASSUME NEW C \in P PROVE \E d \in given : C = {d} /\ Merge(C) = d
    OBVIOUS
  <2>2. PICK d \in C : TRUE
    BY <1>2
  <2>3. C = {d} /\ d \in given
    BY <1>2
  <2> QED
    BY <1>3, <2>3, MergeOne
<1>5. \A d \in given : \E C \in P : d \in C
  BY <1>2
<1> QED
  BY <1>2, <1>4, <1>5

LEMMA JudgeStep ==
  ASSUME DedupeInv, Judge
  PROVE  DedupeInv'
<1>1. PICK P \in SUBSET SUBSET given : ScanProgress(P)
  BY DEF DedupeInv
<1>2. merged = given
  BY SecondPassSame DEF Judge
<1>3. verdict' = "accepted" /\ UNCHANGED <<raw, given, todo, group, merged, pass>>
  BY <1>2 DEF Judge
<1>4. ScanProgress(P)'
  <2>1. Separate(given, P, group)' <=> Separate(given, P, group)
    BY <1>3, EpisodeUnchanged DEF Separate
  <2> QED
    BY <1>1, <1>3, <2>1 DEF ScanProgress
<1>5. Represented' /\ (RefsAreEpisodes' <=> RefsAreEpisodes)
  BY <1>3, EpisodeUnchanged DEF DedupeInv, Represented, RefsAreEpisodes
<1> QED
  BY <1>1, <1>3, <1>4, <1>5 DEF DedupeInv

-----------------------------------------------------------------------------
(* Initial states. *)

LEMMA StartInv ==
  ASSUME RawList(raw), given = raw, todo = raw, group = {}, merged = {},
         pass = "produce", verdict = "none"
  PROVE  DedupeInv
<1>1. Represented
  <2>1. \A r \in raw : r.id \in r.refs
    BY DEF RawList
  <2> QED
    BY <2>1 DEF Represented, RawList
<1>2. ScanProgress({})
  <2>1. Scan(raw, {}, raw, {}) /\ Separate(raw, {}, {})
    BY DEF Scan, OneKey, Separate
  <2> QED
    BY <2>1 DEF ScanProgress
<1>3. {} \in SUBSET SUBSET given
  OBVIOUS
<1> QED
  BY <1>1, <1>2, <1>3 DEF DedupeInv

LEMMA RawIsRawList ==
  ASSUME NEW ids \in SUBSET Id, NEW k \in [Id -> Key],
         NEW s \in [Id -> Timestamp], NEW e \in [Id -> Timestamp]
  PROVE  RawList({Raw(i, k[i], s[i], e[i]) : i \in ids})
<1> DEFINE S == {Raw(i, k[i], s[i], e[i]) : i \in ids}
<1>1. \A i \in ids : /\ Raw(i, k[i], s[i], e[i]) \in Detection
                     /\ Raw(i, k[i], s[i], e[i]).id = i
                     /\ Raw(i, k[i], s[i], e[i]).refs = {i}
  BY DEF Raw, Detection
<1>2. IsFiniteSet(S)
  <2>1. IsFiniteSet(ids)
    BY FS_Subset, DedupeAssumption
  <2>2. [i \in ids |-> Raw(i, k[i], s[i], e[i])] \in Surjection(ids, S)
    BY DEF Surjection
  <2> QED
    BY <2>1, <2>2, FS_Surjection
<1>3. \A d \in S : d \in Detection /\ d.refs = {d.id}
  BY <1>1
<1>4. \A c, d \in S : c # d => c.id # d.id
  BY <1>1
<1>5. RawList(S)
  <2> HIDE DEF S
  <2> QED
    BY <1>2, <1>3, <1>4 DEF RawList, Listed
<1> QED
  BY <1>5

-----------------------------------------------------------------------------
LEMMA DedupeStepKeeps ==
  ASSUME DedupeInv, [DedupeNext]_vars
  PROVE  DedupeInv'
<1>1. CASE \E item \in todo : OpenGroup(item)
  BY <1>1, OpenStep
<1>2. CASE \E item \in todo : JoinGroup(item)
  BY <1>2, JoinStep
<1>3. CASE \E item \in todo : SplitGroup(item)
  BY <1>3, SplitStep
<1>4. CASE CloseGroup
  BY <1>4, CloseStep
<1>5. CASE Revalidate
  BY <1>5, RevalidateStep
<1>6. CASE Judge
  BY <1>6, JudgeStep
<1>7. CASE UNCHANGED vars
  <2>1. PICK P \in SUBSET SUBSET given : ScanProgress(P)
    BY DEF DedupeInv
  <2>2. ScanProgress(P)'
    <3>1. raw' = raw
      BY <1>7 DEF vars
    <3>2. Separate(given, P, group)' <=> Separate(given, P, group)
      BY <1>7, <3>1, EpisodeUnchanged DEF Separate, vars
    <3> QED
      BY <1>7, <2>1, <3>2 DEF ScanProgress, vars
  <2> QED
    BY <1>7, <2>2, LoopStep DEF vars
<1> QED
  BY <1>1, <1>2, <1>3, <1>4, <1>5, <1>6, <1>7 DEF DedupeNext

LEMMA DedupeInvariant == DedupeSpec => []DedupeInv
<1>1. DedupeInit => DedupeInv
  BY StartInv, RawIsRawList DEF DedupeInit
<1> QED
  BY <1>1, DedupeStepKeeps, PTL DEF DedupeSpec

\* What a group merges to is a detection with the group's references, placed
\* where one of the group is.
LEMMA MergedFacts ==
  ASSUME DedupeInv, NEW P, Scan(given, P, todo, group), NEW C \in P
  PROVE  /\ C \subseteq given \ (todo \cup group)
         /\ Merge(C) \in Detection
         /\ Merge(C).refs = UNION {d.refs : d \in C}
         /\ \E d \in C : FirstTs(Merge(C)) = FirstTs(d)
<1>1. C \subseteq given \ (todo \cup group) /\ C # {} /\ OneKey(C)
  BY DEF Scan
<1>2. Listed(C)
  BY <1>1, ListedIds DEF DedupeInv, Represented
<1> QED
  BY <1>1, <1>2, MergeFacts

LEMMA TypeFromInv == DedupeInv => DedupeTypeOK
<1>1. SUFFICES ASSUME DedupeInv PROVE DedupeTypeOK
  OBVIOUS
<1>2. PICK P \in SUBSET SUBSET given : ScanProgress(P)
  BY <1>1 DEF DedupeInv
<1>3. Scan(given, P, todo, group) /\ merged = {Merge(C) : C \in P}
  BY <1>2 DEF ScanProgress
<1>4. \A C \in P : Merge(C) \in Detection
  BY <1>1, <1>3, MergedFacts
<1>5. merged \subseteq Detection
  BY <1>3, <1>4
<1>6. raw \subseteq Detection /\ given \subseteq Detection
  BY <1>1 DEF DedupeInv, Represented, RawList, Listed
<1>7. todo \subseteq given /\ group \subseteq given
  BY <1>3 DEF Scan
<1> QED
  BY <1>1, <1>5, <1>6, <1>7 DEF DedupeInv, DedupeTypeOK

\* Every list of the two passes holds detections.
THEOREM DedupeTypeCorrect == DedupeSpec => []DedupeTypeOK
BY DedupeInvariant, TypeFromInv, PTL

LEMMA OnceFromInv == DedupeInv => EachReferenceOnce
<1>1. SUFFICES ASSUME DedupeInv, NEW r \in raw
               PROVE  Cardinality({d \in todo \cup group \cup merged : r.id \in d.refs}) = 1
  BY DEF EachReferenceOnce
<1>2. PICK P \in SUBSET SUBSET given : ScanProgress(P)
  BY <1>1 DEF DedupeInv
<1>3. Scan(given, P, todo, group) /\ merged = {Merge(C) : C \in P}
  BY <1>2 DEF ScanProgress
<1>4. PICK g \in given : r.id \in g.refs
  BY <1>1 DEF DedupeInv, Represented
<1>5. \A d \in given : r.id \in d.refs => d = g
  BY <1>1, <1>4 DEF DedupeInv, Represented, Listed
<1>6. \A C \in P : r.id \in Merge(C).refs <=> g \in C
  BY <1>1, <1>3, <1>4, <1>5, MergedFacts
<1>7. \A C \in P : g \in C => g \notin todo \cup group
  BY <1>1, <1>3, MergedFacts
<1> DEFINE holders == {d \in todo \cup group \cup merged : r.id \in d.refs}
<1>8. todo \subseteq given /\ group \subseteq given
  BY <1>3 DEF Scan
<1>9. CASE g \in todo \cup group
  <2>1. \A d \in merged : r.id \notin d.refs
    BY <1>3, <1>6, <1>7, <1>9
  <2>2. holders = {g}
    BY <1>4, <1>5, <1>8, <1>9, <2>1
  <2> QED
    BY <2>2, FS_Singleton
<1>10. CASE g \notin todo \cup group
  <2>1. PICK C \in P : g \in C
    BY <1>3, <1>10 DEF Scan
  <2>2. \A D \in P : g \in D => D = C
    BY <1>3, <2>1 DEF Scan
  <2>3. \A d \in todo \cup group : r.id \notin d.refs
    BY <1>5, <1>8, <1>10
  <2>4. holders = {Merge(C)}
    BY <1>3, <1>6, <2>1, <2>2, <2>3
  <2> QED
    BY <2>4, FS_Singleton
<1> QED
  BY <1>9, <1>10

\* At every step of both passes every raw detection's reference is in exactly
\* one place: still to do, in the open group, or in one result.
THEOREM NothingLostOrDoubled == DedupeSpec => []EachReferenceOnce
BY DedupeInvariant, OnceFromInv, PTL

LEMMA PlacedFromInv == DedupeInv => PlacedAtAMember
<1>1. SUFFICES ASSUME DedupeInv, NEW d \in merged \cup given
               PROVE  FirstTs(d) \in {FirstTs(r) : r \in {x \in raw : x.id \in d.refs}}
  BY DEF PlacedAtAMember
<1>2. PICK P \in SUBSET SUBSET given : ScanProgress(P)
  BY <1>1 DEF DedupeInv
<1>3. Scan(given, P, todo, group) /\ merged = {Merge(C) : C \in P}
  BY <1>2 DEF ScanProgress
<1>4. \A g \in given : \E r \in raw : r.id \in g.refs /\ FirstTs(g) = FirstTs(r)
  BY <1>1 DEF DedupeInv, Represented
<1>5. ASSUME d \in merged
      PROVE  \E r \in raw : r.id \in d.refs /\ FirstTs(d) = FirstTs(r)
  <2>1. PICK C \in P : d = Merge(C)
    BY <1>3, <1>5
  <2>2. /\ C \subseteq given /\ Merge(C).refs = UNION {c.refs : c \in C}
        /\ \E c \in C : FirstTs(Merge(C)) = FirstTs(c)
    BY <1>1, <1>3, MergedFacts
  <2>3. PICK c \in C : FirstTs(d) = FirstTs(c)
    BY <2>1, <2>2
  <2>4. PICK r \in raw : r.id \in c.refs /\ FirstTs(c) = FirstTs(r)
    BY <1>4, <2>2
  <2> QED
    BY <2>1, <2>2, <2>3, <2>4
<1> QED
  BY <1>4, <1>5

\* A merged detection stands at an instant at which one of its members was
\* detected, whichever of the members' timestamps are missing.
THEOREM MergedStandsAtAMember == DedupeSpec => []PlacedAtAMember
BY DedupeInvariant, PlacedFromInv, PTL

\* Given sets of references, each in one detection, count the detections.
LEMMA EpisodesFromInv == DedupeInv => OnePerEpisode
<1>1. SUFFICES ASSUME DedupeInv, pass = "revalidate"
               PROVE  /\ {d.refs : d \in given} = {Episode(r) : r \in raw}
                      /\ Cardinality(given) = Cardinality({Episode(r) : r \in raw})
  BY DEF OnePerEpisode
<1> DEFINE sets == {d.refs : d \in given}
<1>2. sets = {Episode(r) : r \in raw} /\ Listed(given)
  BY <1>1 DEF DedupeInv, RefsAreEpisodes, Represented
<1>3. \A c, d \in given : c.refs = d.refs => c = d
  BY <1>2 DEF Listed
<1>4. [d \in given |-> d.refs] \in Bijection(given, sets)
  <2>1. [d \in given |-> d.refs] \in Injection(given, sets)
    BY <1>3 DEF Injection, IsInjective
  <2>2. [d \in given |-> d.refs] \in Surjection(given, sets)
    BY DEF Surjection
  <2> QED
    BY <2>1, <2>2 DEF Bijection
<1>5. Cardinality(sets) = Cardinality(given)
  <2>1. ExistsBijection(given, sets)
    BY <1>4 DEF ExistsBijection
  <2> QED
    BY <1>2, <2>1, FS_Bijection DEF Listed
<1> QED
  BY <1>2, <1>5

\* What the first pass hands on is one detection per episode: the loop with its
\* memory of one item computes the chains the window rule describes, whatever
\* the order of the keys.
THEOREM OneDetectionPerEpisode == DedupeSpec => []OnePerEpisode
BY DedupeInvariant, EpisodesFromInv, PTL

\* The incident builder never refuses the pipeline's own output: a second
\* deduplication changes nothing.
THEOREM SecondPassAccepts == DedupeSpec => []RevalidationAccepts
<1>1. DedupeInv => RevalidationAccepts
  BY DEF DedupeInv, RevalidationAccepts
<1> QED
  BY <1>1, DedupeInvariant, PTL
=============================================================================
