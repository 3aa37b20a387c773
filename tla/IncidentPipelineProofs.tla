----------------------- MODULE IncidentPipelineProofs -----------------------
(***************************************************************************)
(* Proofs about IncidentPipeline, for any raw lists, windows and gaps.     *)
(* The steps of the two deduplications are DetectionDedupe's, so its       *)
(* invariant carries over; what is added is that every stage holds exactly *)
(* what its function makes of the deduplicated list.                       *)
(***************************************************************************)
EXTENDS IncidentPipeline, DetectionDedupeProofs

-----------------------------------------------------------------------------
(* Ranks: a finite strictly ordered set is enumerated by counting, for each *)
(* element, those before it.                                                *)

StrictOrder(S, R) ==
  /\ \A x \in S : <<x, x>> \notin R
  /\ \A x, y \in S : x # y => <<x, y>> \in R \/ <<y, x>> \in R
  /\ \A x, y, z \in S : <<x, y>> \in R /\ <<y, z>> \in R => <<x, z>> \in R

Lower(S, R, x) == {y \in S : <<y, x>> \in R}
Rank(S, R, x) == Cardinality(Lower(S, R, x))

LEMMA RankRises ==
  ASSUME NEW S, IsFiniteSet(S), NEW R, StrictOrder(S, R)
  PROVE  /\ \A x \in S : Rank(S, R, x) \in 0..(Cardinality(S) - 1)
         /\ \A x, y \in S : <<x, y>> \in R => Rank(S, R, x) < Rank(S, R, y)
<1>1. ASSUME NEW T \in SUBSET S PROVE IsFiniteSet(T) /\ Cardinality(T) \in Nat
  BY FS_Subset, FS_CardinalityType
<1>2. ASSUME NEW x \in S PROVE Rank(S, R, x) \in 0..(Cardinality(S) - 1)
  <2>1. Lower(S, R, x) \in SUBSET (S \ {x}) /\ S \ {x} \in SUBSET S /\ Lower(S, R, x) \in SUBSET S
    BY DEF Lower, StrictOrder
  <2>2. Cardinality(S \ {x}) = Cardinality(S) - 1
    BY FS_RemoveElement
  <2>3. Cardinality(Lower(S, R, x)) <= Cardinality(S \ {x})
    BY <1>1, <2>1, FS_Subset
  <2>4. Cardinality(Lower(S, R, x)) \in Nat /\ Cardinality(S) \in Nat
    BY <1>1, <2>1
  <2> QED
    BY <2>2, <2>3, <2>4 DEF Rank
<1>3. ASSUME NEW x \in S, NEW y \in S, <<x, y>> \in R
      PROVE  Rank(S, R, x) < Rank(S, R, y)
  <2> DEFINE L == Lower(S, R, x)
             M == Lower(S, R, y)
  <2>1. L \in SUBSET S /\ M \in SUBSET S /\ x \notin L /\ L \cup {x} \in SUBSET M
    BY <1>3 DEF Lower, StrictOrder
  <2>2. /\ IsFiniteSet(L) /\ Cardinality(L) \in Nat
        /\ IsFiniteSet(M) /\ Cardinality(M) \in Nat
    BY <1>1, <2>1
  <2> HIDE DEF L, M
  <2>3. Cardinality(L \cup {x}) = Cardinality(L) + 1
    BY <2>1, <2>2, FS_AddElement
  <2>4. Cardinality(L \cup {x}) <= Cardinality(M)
    BY <2>1, <2>2, FS_Subset
  <2>5. Cardinality(L) < Cardinality(M)
    BY <2>2, <2>3, <2>4
  <2> QED
    BY <2>5 DEF Rank, L, M
<1> QED
  BY <1>2, <1>3

LEMMA RankInjective ==
  ASSUME NEW S, IsFiniteSet(S), NEW R, StrictOrder(S, R), NEW x \in S, NEW y \in S,
         Rank(S, R, x) = Rank(S, R, y)
  PROVE  x = y
<1>1. Rank(S, R, x) \in Int
  BY RankRises
<1>2. SUFFICES ASSUME x # y PROVE FALSE
  OBVIOUS
<1>3. <<x, y>> \in R \/ <<y, x>> \in R
  BY <1>2 DEF StrictOrder
<1>4. Rank(S, R, x) < Rank(S, R, y) \/ Rank(S, R, y) < Rank(S, R, x)
  BY <1>3, RankRises
<1> QED
  BY <1>1, <1>4

LEMMA RankOnto ==
  ASSUME NEW S, IsFiniteSet(S), NEW R, StrictOrder(S, R), NEW i \in 1..Cardinality(S)
  PROVE  \E x \in S : Rank(S, R, x) = i - 1
<1> DEFINE n == Cardinality(S)
           f == [x \in S |-> Rank(S, R, x)]
<1>1. n \in Nat
  BY FS_CardinalityType
<1>2. f \in Injection(S, 0..(n - 1))
  <2>1. f \in [S -> 0..(n - 1)]
    BY RankRises
  <2>2. \A x, y \in S : f[x] = f[y] => x = y
    BY RankInjective
  <2> HIDE DEF f
  <2> QED
    BY <2>1, <2>2 DEF Injection, IsInjective
<1>3. IsFiniteSet(0..(n - 1)) /\ Cardinality(0..(n - 1)) = n
  <2> HIDE DEF n
  <2>1. 0 \in Int /\ n - 1 \in Int
    BY <1>1
  <2>2. /\ IsFiniteSet(0..(n - 1))
        /\ Cardinality(0..(n - 1)) = IF 0 > n - 1 THEN 0 ELSE (n - 1) - 0 + 1
    BY <2>1, FS_Interval
  <2> QED
    BY <1>1, <2>2
<1>4. f \in Surjection(S, 0..(n - 1))
  <2> HIDE DEF f
  <2> QED
    BY <1>2, <1>3, FS_Injection
<1>5. i - 1 \in 0..(n - 1)
  BY <1>1
<1>6. \E x \in S : f[x] = i - 1
  <2> HIDE DEF f, n
  <2> QED
    BY <1>4, <1>5 DEF Surjection
<1> QED
  BY <1>6

\* s lists every element of S once.
Enumerates(S, s) ==
  /\ s \in [1..Cardinality(S) -> S]
  /\ \A i, j \in 1..Cardinality(S) : s[i] = s[j] => i = j
  /\ \A x \in S : \E i \in 1..Cardinality(S) : s[i] = x

LEMMA RankEnumerates ==
  ASSUME NEW S, IsFiniteSet(S), NEW R, StrictOrder(S, R),
         NEW s, s \in [1..Cardinality(S) -> S],
         \A i \in 1..Cardinality(S) : Rank(S, R, s[i]) = i - 1
  PROVE  Enumerates(S, s)
<1> DEFINE n == Cardinality(S)
<1>1. n \in Nat
  BY FS_CardinalityType
<1>2. ASSUME NEW i \in 1..n, NEW j \in 1..n, s[i] = s[j] PROVE i = j
  <2>1. i - 1 = j - 1
    BY <1>2
  <2> QED
    BY <1>1, <2>1
<1>3. ASSUME NEW x \in S PROVE \E i \in 1..n : s[i] = x
  <2>1. Rank(S, R, x) \in 0..(n - 1)
    BY RankRises
  <2>2. Rank(S, R, x) + 1 \in 1..n /\ (Rank(S, R, x) + 1) - 1 = Rank(S, R, x)
    BY <1>1, <2>1
  <2>3. s[Rank(S, R, x) + 1] = x
    BY <2>2, RankInjective
  <2> QED
    BY <2>2, <2>3
<1> QED
  BY <1>2, <1>3 DEF Enumerates

-----------------------------------------------------------------------------
(* Windows. *)

LEMMA TimedInstant ==
  ASSUME NEW d \in Detection, Timed(d)
  PROVE  FirstTs(d) \in Nat /\ FirstTs(d) \in Time
BY Instants DEF Timestamp, Timed

\* M is a nonempty set of detections of ds, all with an instant.
Placed(ds, M) == M \subseteq ds /\ M # {} /\ \A d \in M : Timed(d)

LEMMA StartsSpan ==
  ASSUME NEW ds, Listed(ds), NEW M, Placed(ds, M)
  PROVE  /\ Starts(M) \subseteq Time /\ Starts(M) \subseteq Nat
         /\ \E d \in M : Min(Starts(M)) = FirstTs(d)
         /\ \E d \in M : Max(Starts(M)) = FirstTs(d)
         /\ \A d \in M : Min(Starts(M)) <= FirstTs(d) /\ FirstTs(d) <= Max(Starts(M))
<1>1. /\ IsFiniteSet(M) /\ \A d \in M : FirstTs(d) \in Nat /\ FirstTs(d) \in Time
  BY TimedInstant, FS_Subset DEF Listed, Placed
<1>2. IsFiniteSet(Starts(M))
  <2>1. [d \in M |-> FirstTs(d)] \in Surjection(M, Starts(M))
    BY DEF Surjection, Starts
  <2> QED
    BY <1>1, <2>1, FS_Surjection
<1>3. Starts(M) \in SUBSET Nat /\ Starts(M) # {} /\ Starts(M) \subseteq Time
  BY <1>1 DEF Starts, Placed
<1>4. /\ Min(Starts(M)) \in Starts(M) /\ \A n \in Starts(M) : Min(Starts(M)) <= n
      /\ Max(Starts(M)) \in Starts(M) /\ \A n \in Starts(M) : n <= Max(Starts(M))
  BY <1>2, <1>3, Extremes
<1> QED
  BY <1>3, <1>4 DEF Starts

\* The window of a set is that of any bounds attained in it.
LEMMA StartsBounds ==
  ASSUME NEW ds, Listed(ds), NEW M, Placed(ds, M),
         NEW lo \in M, NEW hi \in M,
         \A d \in M : FirstTs(lo) <= FirstTs(d) /\ FirstTs(d) <= FirstTs(hi)
  PROVE  Min(Starts(M)) = FirstTs(lo) /\ Max(Starts(M)) = FirstTs(hi)
<1>1. \A d \in M : FirstTs(d) \in Nat
  BY TimedInstant DEF Listed, Placed
<1>2. PICK a \in M : Min(Starts(M)) = FirstTs(a)
  BY StartsSpan
<1>3. PICK b \in M : Max(Starts(M)) = FirstTs(b)
  BY StartsSpan
<1>4. FirstTs(a) <= FirstTs(lo) /\ FirstTs(hi) <= FirstTs(b)
  BY <1>2, <1>3, StartsSpan
<1>5. FirstTs(a) = FirstTs(lo) /\ FirstTs(hi) = FirstTs(b)
  BY <1>1, <1>4
<1> QED
  BY <1>2, <1>3, <1>5

-----------------------------------------------------------------------------
(* What every correlation of ds is. *)

Sound(ds, c) ==
  /\ Placed(ds, c.members)
  /\ c.refs = UNION {d.refs : d \in c.members}
  /\ c.start = Min(Starts(c.members)) /\ c.end = Max(Starts(c.members))

\* The chains of ChainsAreReal, among the detections of M.
AuthAmong(M) ==
  \E f, s, k \in M :
    /\ f.key.artifact = "ssh_failed_login" /\ s.key.artifact = "ssh_success_login"
    /\ k.key.artifact = "authorized_keys_modification"
    /\ <<f.key.host, f.key.user, f.key.src>> = <<s.key.host, s.key.user, s.key.src>>
    /\ k.key.host = s.key.host
    /\ Gap(f, s) \in 0..AuthWindow /\ Gap(s, k) \in 0..PersistenceWindow

ExecAmong(M) ==
  \E l, x \in M :
    /\ l.key.artifact = "ssh_key_login" /\ x.key.artifact = "process_exec"
    /\ <<l.key.host, l.key.user>> = <<x.key.host, x.key.user>>
    /\ Gap(l, x) \in 0..ExecutionWindow

ParentAmong(M) ==
  \E p, x, e \in M :
    /\ e.key.artifact = "encoded_command_observed"
    /\ x.key.proc = e.key.proc /\ FirstTs(x) = FirstTs(e)
    /\ p.key.proc.pid = e.key.proc.ppid
    /\ p.key.proc.event # x.key.proc.event
    /\ <<p.key.host, p.key.user>> = <<e.key.host, e.key.user>>
    /\ <<x.key.host, x.key.user>> = <<e.key.host, e.key.user>>
    /\ Gap(p, e) \in 0..ParentWindow

LEMMA FollowsGap ==
  ASSUME NEW a \in Detection, NEW b \in Detection, NEW w \in Nat, Follows(a, b, w)
  PROVE  /\ Timed(a) /\ Timed(b) /\ FirstTs(a) \in Nat /\ FirstTs(b) \in Nat
         /\ FirstTs(a) <= FirstTs(b) /\ Gap(a, b) \in 0..w
<1>1. Timed(a) /\ Timed(b) /\ FirstTs(a) <= FirstTs(b) /\ FirstTs(b) - FirstTs(a) <= w
  BY DEF Follows
<1>2. FirstTs(a) \in Nat /\ FirstTs(b) \in Nat
  BY <1>1, TimedInstant
<1> QED
  BY <1>1, <1>2 DEF Gap

LEMMA AuthHit ==
  ASSUME NEW ds, Listed(ds), NEW r \in AuthThenKeys(ds)
  PROVE  Sound(ds, r) /\ AuthAmong(r.members) /\ \E s \in ds : r.by = <<s>>
<1>1. PICK s \in With(ds, "ssh_success_login") :
        /\ FailedBefore(ds, s) # {} /\ KeysAfter(ds, s) # {}
        /\ r = Found(<<s>>, FailedBefore(ds, s) \cup {s} \cup KeysAfter(ds, s),
                     Min(Starts(FailedBefore(ds, s))), Max(Starts(KeysAfter(ds, s))))
  BY DEF AuthThenKeys
<1> DEFINE F == FailedBefore(ds, s)
           K == KeysAfter(ds, s)
           M == F \cup {s} \cup K
<1>2. /\ r.by = <<s>> /\ r.members = M /\ r.refs = UNION {d.refs : d \in M}
      /\ r.start = Min(Starts(F)) /\ r.end = Max(Starts(K))
  BY <1>1 DEF Found
<1>3. s \in ds /\ ds \subseteq Detection /\ s.key.artifact = "ssh_success_login"
  BY DEF With, Listed
<1>4. \A f \in F : /\ f \in ds /\ f.key.artifact = "ssh_failed_login"
                   /\ SameAccount(f, s) /\ f.key.src = s.key.src /\ Follows(f, s, AuthWindow)
  BY DEF FailedBefore, With
<1>5. \A k \in K : /\ k \in ds /\ k.key.artifact = "authorized_keys_modification"
                   /\ SameHost(k, s) /\ Follows(s, k, PersistenceWindow)
  BY DEF KeysAfter, With
<1>6. F # {} /\ K # {}
  BY <1>1
<1> HIDE DEF F, K
<1>7. \A f \in F : /\ Timed(f) /\ Timed(s) /\ FirstTs(f) <= FirstTs(s)
                   /\ Gap(f, s) \in 0..AuthWindow
  BY <1>3, <1>4, FollowsGap, PipelineAssumption
<1>8. \A k \in K : /\ Timed(k) /\ Timed(s) /\ FirstTs(s) <= FirstTs(k)
                   /\ Gap(s, k) \in 0..PersistenceWindow
  BY <1>3, <1>5, FollowsGap, PipelineAssumption
<1>9. Placed(ds, F) /\ Placed(ds, K) /\ Placed(ds, M)
  BY <1>3, <1>4, <1>5, <1>6, <1>7, <1>8 DEF Placed
<1>10. \A d \in M : FirstTs(d) \in Nat
  BY <1>3, <1>9, TimedInstant DEF Placed
<1>11. PICK lo \in F : Min(Starts(F)) = FirstTs(lo)
  BY <1>9, StartsSpan
<1>12. PICK hi \in K : Max(Starts(K)) = FirstTs(hi)
  BY <1>9, StartsSpan
<1>13. \A d \in M : FirstTs(lo) <= FirstTs(d) /\ FirstTs(d) <= FirstTs(hi)
  <2>1. \A f \in F : FirstTs(lo) <= FirstTs(f)
    BY <1>9, <1>11, StartsSpan
  <2>2. \A k \in K : FirstTs(k) <= FirstTs(hi)
    BY <1>9, <1>12, StartsSpan
  <2>3. FirstTs(lo) <= FirstTs(s) /\ FirstTs(s) <= FirstTs(hi)
    BY <1>7, <1>8
  <2> QED
    BY <1>7, <1>8, <1>10, <1>11, <1>12, <2>1, <2>2, <2>3
<1>14. Min(Starts(M)) = FirstTs(lo) /\ Max(Starts(M)) = FirstTs(hi)
  BY <1>9, <1>13, StartsBounds
<1>15. Sound(ds, r)
  BY <1>2, <1>9, <1>11, <1>12, <1>14 DEF Sound
<1>16. AuthAmong(M)
  <2>1. /\ lo \in M /\ s \in M /\ hi \in M
        /\ <<lo.key.host, lo.key.user, lo.key.src>> = <<s.key.host, s.key.user, s.key.src>>
        /\ hi.key.host = s.key.host
    BY <1>4, <1>5 DEF SameAccount, SameHost
  <2> QED
    BY <1>3, <1>4, <1>5, <1>7, <1>8, <2>1 DEF AuthAmong
<1> QED
  BY <1>2, <1>3, <1>15, <1>16

LEMMA ExecHit ==
  ASSUME NEW ds, Listed(ds), NEW r \in KeyLoginThenExec(ds)
  PROVE  Sound(ds, r) /\ ExecAmong(r.members) /\ \E x \in ds : r.by = <<x>>
<1>1. PICK x \in With(ds, "process_exec") :
        /\ LoginsBefore(ds, x) # {}
        /\ r = Found(<<x>>, LoginsBefore(ds, x) \cup {x},
                     Min(Starts(LoginsBefore(ds, x))), FirstTs(x))
  BY DEF KeyLoginThenExec
<1> DEFINE L == LoginsBefore(ds, x)
           M == L \cup {x}
<1>2. /\ r.by = <<x>> /\ r.members = M /\ r.refs = UNION {d.refs : d \in M}
      /\ r.start = Min(Starts(L)) /\ r.end = FirstTs(x)
  BY <1>1 DEF Found
<1>3. x \in ds /\ ds \subseteq Detection /\ x.key.artifact = "process_exec"
  BY DEF With, Listed
<1>4. \A l \in L : /\ l \in ds /\ l.key.artifact = "ssh_key_login"
                   /\ SameAccount(l, x) /\ Follows(l, x, ExecutionWindow)
  BY DEF LoginsBefore, With
<1>5. L # {}
  BY <1>1
<1> HIDE DEF L
<1>6. \A l \in L : /\ Timed(l) /\ Timed(x) /\ FirstTs(l) <= FirstTs(x)
                   /\ Gap(l, x) \in 0..ExecutionWindow
  BY <1>3, <1>4, FollowsGap, PipelineAssumption
<1>7. Placed(ds, L) /\ Placed(ds, M)
  BY <1>3, <1>4, <1>5, <1>6 DEF Placed
<1>8. \A d \in M : FirstTs(d) \in Nat
  BY <1>3, <1>7, TimedInstant DEF Placed
<1>9. PICK lo \in L : Min(Starts(L)) = FirstTs(lo)
  BY <1>7, StartsSpan
<1>10. \A d \in M : FirstTs(lo) <= FirstTs(d) /\ FirstTs(d) <= FirstTs(x)
  <2>1. \A l \in L : FirstTs(lo) <= FirstTs(l)
    BY <1>7, <1>9, StartsSpan
  <2> QED
    BY <1>6, <1>8, <1>9, <2>1
<1>11. Min(Starts(M)) = FirstTs(lo) /\ Max(Starts(M)) = FirstTs(x)
  BY <1>7, <1>10, StartsBounds
<1>12. Sound(ds, r)
  BY <1>2, <1>7, <1>9, <1>11 DEF Sound
<1>13. ExecAmong(M)
  <2>1. lo \in M /\ x \in M /\ <<lo.key.host, lo.key.user>> = <<x.key.host, x.key.user>>
    BY <1>4 DEF SameAccount, SameHost
  <2> QED
    BY <1>3, <1>4, <1>6, <2>1 DEF ExecAmong
<1> QED
  BY <1>2, <1>3, <1>12, <1>13

LEMMA ParentHit ==
  ASSUME NEW ds, Listed(ds), NEW r \in PowershellParentChild(ds)
  PROVE  /\ Sound(ds, r) /\ ParentAmong(r.members)
         /\ \E e, c, p \in ds : r.by = <<e, c, p>>
<1> DEFINE seen == With(ds, "powershell_process_observed")
<1>1. PICK h \in With(ds, "encoded_command_observed") \X seen \X seen :
        /\ Timed(h[1]) /\ SameProcess(h[2], h[1]) /\ IsParent(h[3], h[2])
        /\ r = Found(h, {h[1], h[2], h[3]}, FirstTs(h[3]), FirstTs(h[2]))
  BY DEF PowershellParentChild
<1>2. PICK e \in With(ds, "encoded_command_observed"), c \in seen, p \in seen : h = <<e, c, p>>
  OBVIOUS
<1> DEFINE M == {e, c, p}
<1>3. /\ r.by = <<e, c, p>> /\ r.members = M /\ r.refs = UNION {d.refs : d \in M}
      /\ r.start = FirstTs(p) /\ r.end = FirstTs(c)
  BY <1>1, <1>2 DEF Found
<1>4. /\ e \in ds /\ c \in ds /\ p \in ds /\ ds \subseteq Detection
      /\ e.key.artifact = "encoded_command_observed"
  BY DEF With, Listed
<1>5. /\ Timed(e) /\ c.key.proc = e.key.proc /\ FirstTs(c) = FirstTs(e)
      /\ p.key.proc.event # c.key.proc.event /\ p.key.proc.pid = c.key.proc.ppid
      /\ <<p.key.host, p.key.user>> = <<e.key.host, e.key.user>>
      /\ <<c.key.host, c.key.user>> = <<e.key.host, e.key.user>>
      /\ Follows(p, c, ParentWindow)
  BY <1>1, <1>2 DEF SameProcess, IsParent, SameAccount, SameHost
<1>6. /\ Timed(p) /\ Timed(c) /\ FirstTs(p) \in Nat /\ FirstTs(c) \in Nat
      /\ FirstTs(p) <= FirstTs(c) /\ Gap(p, c) \in 0..ParentWindow
  BY <1>4, <1>5, FollowsGap, PipelineAssumption
<1>7. Placed(ds, M)
  BY <1>4, <1>5, <1>6 DEF Placed
<1>8. Min(Starts(M)) = FirstTs(p) /\ Max(Starts(M)) = FirstTs(c)
  <2>1. \A d \in M : FirstTs(p) <= FirstTs(d) /\ FirstTs(d) <= FirstTs(c)
    BY <1>5, <1>6
  <2>2. p \in M /\ c \in M
    OBVIOUS
  <2> HIDE DEF M
  <2> QED
    BY <1>7, <2>1, <2>2, StartsBounds
<1>9. Sound(ds, r)
  BY <1>3, <1>7, <1>8 DEF Sound
<1>10. ParentAmong(M)
  <2>1. Gap(p, e) \in 0..ParentWindow
    BY <1>5, <1>6 DEF Gap
  <2>2. p \in M /\ c \in M /\ e \in M
    OBVIOUS
  <2> QED
    BY <1>4, <1>5, <2>1, <2>2 DEF ParentAmong
<1> QED
  BY <1>3, <1>4, <1>9, <1>10

-----------------------------------------------------------------------------
(* Numbers. *)

\* The results of a policy in the order of its loops.
LoopOrder(results) == {p \in results \X results : LoopsBefore(p[1].by, p[2].by)}

LEMMA LoopsOne ==
  ASSUME NEW a, NEW b
  PROVE  LoopsBefore(<<a>>, <<b>>) <=> Before(a, b)
<1> DEFINE s == <<a>>
           t == <<b>>
           Here(i) == Before(s[i], t[i]) /\ \A j \in 1..(i - 1) : s[j] = t[j]
<1>1. LoopsBefore(s, t) <=> \E i \in 1..1 : Here(i)
  <2>1. DOMAIN s = 1..1
    OBVIOUS
  <2> HIDE DEF s, t
  <2> QED
    BY <2>1 DEF LoopsBefore
<1>2. (\E i \in 1..1 : Here(i)) <=> Here(1)
  <2> HIDE DEF Here
  <2>1. \A i : i \in 1..1 <=> i = 1
    OBVIOUS
  <2> QED
    BY <2>1
<1>3. Here(1) <=> Before(a, b)
  OBVIOUS
<1> QED
  BY <1>1, <1>2, <1>3

LEMMA LoopsThree ==
  ASSUME NEW a1, NEW a2, NEW a3, NEW b1, NEW b2, NEW b3
  PROVE  LoopsBefore(<<a1, a2, a3>>, <<b1, b2, b3>>) <=>
           \/ Before(a1, b1)
           \/ a1 = b1 /\ Before(a2, b2)
           \/ a1 = b1 /\ a2 = b2 /\ Before(a3, b3)
<1> DEFINE a == <<a1, a2, a3>>
           b == <<b1, b2, b3>>
           Here(i) == Before(a[i], b[i]) /\ \A j \in 1..(i - 1) : a[j] = b[j]
<1>1. LoopsBefore(a, b) <=> \E i \in 1..3 : Here(i)
  BY DEF LoopsBefore
<1>2. (\E i \in 1..3 : Here(i)) <=> Here(1) \/ Here(2) \/ Here(3)
  <2> HIDE DEF Here
  <2>1. \A i : i \in 1..3 <=> i = 1 \/ i = 2 \/ i = 3
    OBVIOUS
  <2> QED
    BY <2>1
<1>3. Here(1) <=> Before(a1, b1)
  OBVIOUS
<1>4. Here(2) <=> a1 = b1 /\ Before(a2, b2)
  <2>1. \A j : j \in 1..(2 - 1) <=> j = 1
    OBVIOUS
  <2> QED
    BY <2>1
<1>5. Here(3) <=> a1 = b1 /\ a2 = b2 /\ Before(a3, b3)
  <2>1. \A j : j \in 1..(3 - 1) <=> j = 1 \/ j = 2
    OBVIOUS
  <2> QED
    BY <2>1
<1> QED
  BY <1>1, <1>2, <1>3, <1>4, <1>5

\* Before on the items of a list.
LEMMA ListOrder ==
  ASSUME NEW ds, Listed(ds)
  PROVE  /\ \A a \in ds : ~Before(a, a)
         /\ \A a, b \in ds : a # b => Before(a, b) \/ Before(b, a)
         /\ \A a, b, c \in ds : Before(a, b) /\ Before(b, c) => Before(a, c)
<1>1. ds \subseteq Detection /\ DistinctIds(ds)
  BY ListedIds DEF Listed
<1> QED
  BY <1>1, BeforeOrders DEF DistinctIds

LEMMA OneLoopOrder ==
  ASSUME NEW ds, Listed(ds), NEW results,
         \A r \in results : \E d \in ds : r.by = <<d>>,
         \A q, r \in results : q.by = r.by => q = r
  PROVE  StrictOrder(results, LoopOrder(results))
<1> DEFINE R == LoopOrder(results)
<1>1. PICK of : \A r \in results : of[r] \in ds /\ r.by = <<of[r]>>
  <2> DEFINE f == [r \in results |-> CHOOSE d \in ds : r.by = <<d>>]
  <2>1. \A r \in results : f[r] \in ds /\ r.by = <<f[r]>>
    OBVIOUS
  <2> QED
    BY <2>1
<1>2. \A q, r \in results : <<q, r>> \in R <=> Before(of[q], of[r])
  <2>1. SUFFICES ASSUME NEW q \in results, NEW r \in results
                 PROVE  LoopsBefore(q.by, r.by) <=> Before(of[q], of[r])
    BY DEF LoopOrder
  <2>2. q.by = <<of[q]>> /\ r.by = <<of[r]>>
    BY <1>1
  <2>3. LoopsBefore(<<of[q]>>, <<of[r]>>) <=> Before(of[q], of[r])
    BY LoopsOne
  <2> QED
    BY <2>2, <2>3
<1>3. \A q, r \in results : of[q] = of[r] => q = r
  BY <1>1
<1> HIDE DEF R
<1>4. StrictOrder(results, R)
  <2>1. \A r \in results : <<r, r>> \notin R
    BY <1>1, <1>2, ListOrder
  <2>2. \A q, r \in results : q # r => <<q, r>> \in R \/ <<r, q>> \in R
    BY <1>1, <1>2, <1>3, ListOrder
  <2>3. ASSUME NEW x \in results, NEW y \in results, NEW z \in results,
               <<x, y>> \in R, <<y, z>> \in R
        PROVE  <<x, z>> \in R
    BY <1>1, <1>2, <2>3, ListOrder
  <2> QED
    BY <2>1, <2>2, <2>3 DEF StrictOrder
<1> QED
  BY <1>4 DEF R

LEMMA ThreeLoopOrder ==
  ASSUME NEW ds, Listed(ds), NEW results,
         \A r \in results : \E e, c, p \in ds : r.by = <<e, c, p>>,
         \A q, r \in results : q.by = r.by => q = r
  PROVE  StrictOrder(results, LoopOrder(results))
<1> DEFINE R == LoopOrder(results)
           Triple(r, e, c, p) == e \in ds /\ c \in ds /\ p \in ds /\ r.by = <<e, c, p>>
<1>1. ASSUME NEW r \in results PROVE \E e, c, p : Triple(r, e, c, p)
  OBVIOUS
<1>2. ASSUME NEW q \in results, NEW r \in results,
             NEW e, NEW c, NEW p, NEW f, NEW d, NEW o,
             Triple(q, e, c, p), Triple(r, f, d, o)
      PROVE  <<q, r>> \in R <=> \/ Before(e, f)
                                \/ e = f /\ Before(c, d)
                                \/ e = f /\ c = d /\ Before(p, o)
  BY <1>2, LoopsThree DEF LoopOrder
<1>3. ASSUME NEW q \in results, NEW r \in results,
             NEW e, NEW c, NEW p, NEW f, NEW d, NEW o,
             Triple(q, e, c, p), Triple(r, f, d, o), q # r
      PROVE  e # f \/ c # d \/ p # o
  BY <1>3
<1> HIDE DEF R
<1>4. StrictOrder(results, R)
  <2>1. ASSUME NEW r \in results PROVE <<r, r>> \notin R
    <3>1. PICK e, c, p : Triple(r, e, c, p)
      BY <1>1
    <3> QED
      BY <1>2, <3>1, ListOrder
  <2>2. ASSUME NEW q \in results, NEW r \in results, q # r
        PROVE  <<q, r>> \in R \/ <<r, q>> \in R
    <3>1. PICK e, c, p : Triple(q, e, c, p)
      BY <1>1
    <3>2. PICK f, d, o : Triple(r, f, d, o)
      BY <1>1
    <3>3. e # f \/ c # d \/ p # o
      BY <1>3, <2>2, <3>1, <3>2
    <3>4. /\ e # f => Before(e, f) \/ Before(f, e)
          /\ c # d => Before(c, d) \/ Before(d, c)
          /\ p # o => Before(p, o) \/ Before(o, p)
      BY <3>1, <3>2, ListOrder
    <3>5. <<q, r>> \in R <=> \/ Before(e, f)
                             \/ e = f /\ Before(c, d)
                             \/ e = f /\ c = d /\ Before(p, o)
      BY <1>2, <3>1, <3>2
    <3>6. <<r, q>> \in R <=> \/ Before(f, e)
                             \/ f = e /\ Before(d, c)
                             \/ f = e /\ d = c /\ Before(o, p)
      BY <1>2, <3>1, <3>2
    <3> QED
      BY <3>3, <3>4, <3>5, <3>6
  <2>3. ASSUME NEW x \in results, NEW y \in results, NEW z \in results,
               <<x, y>> \in R, <<y, z>> \in R
        PROVE  <<x, z>> \in R
    <3>1. PICK e, c, p : Triple(x, e, c, p)
      BY <1>1
    <3>2. PICK f, d, o : Triple(y, f, d, o)
      BY <1>1
    <3>3. PICK g, b, n : Triple(z, g, b, n)
      BY <1>1
    <3>4. \/ Before(e, f)
          \/ e = f /\ Before(c, d)
          \/ e = f /\ c = d /\ Before(p, o)
      BY <1>2, <2>3, <3>1, <3>2
    <3>5. \/ Before(f, g)
          \/ f = g /\ Before(d, b)
          \/ f = g /\ d = b /\ Before(o, n)
      BY <1>2, <2>3, <3>2, <3>3
    <3>6. /\ Before(e, f) /\ Before(f, g) => Before(e, g)
          /\ Before(c, d) /\ Before(d, b) => Before(c, b)
          /\ Before(p, o) /\ Before(o, n) => Before(p, n)
      BY <3>1, <3>2, <3>3, ListOrder
    <3>7. \/ Before(e, g)
          \/ e = g /\ Before(c, b)
          \/ e = g /\ c = b /\ Before(p, n)
      BY <3>4, <3>5, <3>6
    <3> QED
      BY <1>2, <3>1, <3>3, <3>7
  <2> QED
    BY <2>1, <2>2, <2>3 DEF StrictOrder
<1> QED
  BY <1>4 DEF R

\* Numbered results keep their fields and have numbers of their own.
LEMMA NumberedFacts ==
  ASSUME NEW results, IsFiniteSet(results), StrictOrder(results, LoopOrder(results)),
         NEW type
  PROVE  /\ IsFiniteSet(Numbered(type, results))
         /\ \A c \in Numbered(type, results) :
              \E r \in results :
                /\ \E n \in Nat : c.id = <<type, n>>
                /\ c.members = r.members /\ c.refs = r.refs
                /\ c.start = r.start /\ c.end = r.end
         /\ \A r \in results : \E c \in Numbered(type, results) : c.members = r.members
         /\ \A b, c \in Numbered(type, results) : b.id = c.id => b = c
<1> DEFINE number(r) == 1 + Cardinality({q \in results : LoopsBefore(q.by, r.by)})
           Out(r) == [id |-> <<type, number(r)>>, members |-> r.members, refs |-> r.refs,
                      start |-> r.start, end |-> r.end]
<1>1. Numbered(type, results) = {Out(r) : r \in results}
  BY DEF Numbered
<1>2. \A r \in results : number(r) = 1 + Rank(results, LoopOrder(results), r)
  <2>1. \A r \in results : {q \in results : LoopsBefore(q.by, r.by)}
                             = Lower(results, LoopOrder(results), r)
    BY DEF Lower, LoopOrder
  <2> QED
    BY <2>1 DEF Rank
<1>3. \A r \in results : Rank(results, LoopOrder(results), r) \in Nat
  <2>1. Cardinality(results) \in Nat
    BY FS_CardinalityType
  <2> QED
    BY <2>1, RankRises
<1> HIDE DEF number
<1>4. \A r \in results : number(r) \in Nat
  BY <1>2, <1>3
<1>5. ASSUME NEW q \in results, NEW r \in results, number(q) = number(r) PROVE q = r
  <2>1. Rank(results, LoopOrder(results), q) = Rank(results, LoopOrder(results), r)
    BY <1>2, <1>3, <1>5
  <2> QED
    BY <2>1, RankInjective
<1>6. IsFiniteSet({Out(r) : r \in results})
  <2>1. [r \in results |-> Out(r)] \in Surjection(results, {Out(r) : r \in results})
    BY DEF Surjection
  <2> QED
    BY <2>1, FS_Surjection
<1>7. ASSUME NEW q \in results, NEW r \in results, Out(q).id = Out(r).id PROVE Out(q) = Out(r)
  <2>1. number(q) = number(r)
    BY <1>7
  <2> QED
    BY <1>5, <2>1
<1>8. \A r \in results : /\ Out(r).id = <<type, number(r)>>
                         /\ Out(r).members = r.members /\ Out(r).refs = r.refs
                         /\ Out(r).start = r.start /\ Out(r).end = r.end
  OBVIOUS
<1> HIDE DEF Out
<1> QED
  BY <1>1, <1>4, <1>6, <1>7, <1>8

\* Each policy finds finitely many results, one for each place in its loops.
LEMMA AuthResults ==
  ASSUME NEW ds, Listed(ds)
  PROVE  /\ IsFiniteSet(AuthThenKeys(ds))
         /\ \A q, r \in AuthThenKeys(ds) : q.by = r.by => q = r
<1> DEFINE hits == {s \in With(ds, "ssh_success_login") :
                      FailedBefore(ds, s) # {} /\ KeysAfter(ds, s) # {}}
           Out(s) == Found(<<s>>, FailedBefore(ds, s) \cup {s} \cup KeysAfter(ds, s),
                           Min(Starts(FailedBefore(ds, s))), Max(Starts(KeysAfter(ds, s))))
<1>1. AuthThenKeys(ds) = {Out(s) : s \in hits}
  BY DEF AuthThenKeys
<1>2. IsFiniteSet(hits)
  <2>1. hits \in SUBSET ds
    BY DEF With
  <2> QED
    BY <2>1, FS_Subset DEF Listed
<1>3. \A s \in hits : Out(s).by = <<s>>
  BY DEF Found
<1> HIDE DEF hits, Out
<1>4. [s \in hits |-> Out(s)] \in Surjection(hits, {Out(s) : s \in hits})
  BY DEF Surjection
<1>5. IsFiniteSet({Out(s) : s \in hits})
  BY <1>2, <1>4, FS_Surjection
<1> QED
  BY <1>1, <1>3, <1>5

LEMMA ExecResults ==
  ASSUME NEW ds, Listed(ds)
  PROVE  /\ IsFiniteSet(KeyLoginThenExec(ds))
         /\ \A q, r \in KeyLoginThenExec(ds) : q.by = r.by => q = r
<1> DEFINE hits == {y \in With(ds, "process_exec") : LoginsBefore(ds, y) # {}}
           Out(x) == Found(<<x>>, LoginsBefore(ds, x) \cup {x},
                           Min(Starts(LoginsBefore(ds, x))), FirstTs(x))
<1>1. KeyLoginThenExec(ds) = {Out(x) : x \in hits}
  BY DEF KeyLoginThenExec
<1>2. IsFiniteSet(hits)
  <2>1. hits \in SUBSET ds
    BY DEF With
  <2> QED
    BY <2>1, FS_Subset DEF Listed
<1>3. \A x \in hits : Out(x).by = <<x>>
  BY DEF Found
<1> HIDE DEF hits, Out
<1>4. [x \in hits |-> Out(x)] \in Surjection(hits, {Out(x) : x \in hits})
  BY DEF Surjection
<1>5. IsFiniteSet({Out(x) : x \in hits})
  BY <1>2, <1>4, FS_Surjection
<1> QED
  BY <1>1, <1>3, <1>5

LEMMA ParentResults ==
  ASSUME NEW ds, Listed(ds)
  PROVE  /\ IsFiniteSet(PowershellParentChild(ds))
         /\ \A q, r \in PowershellParentChild(ds) : q.by = r.by => q = r
<1> DEFINE seen == With(ds, "powershell_process_observed")
           encoded == With(ds, "encoded_command_observed")
           hits == {h \in encoded \X seen \X seen :
                      Timed(h[1]) /\ SameProcess(h[2], h[1]) /\ IsParent(h[3], h[2])}
           Out(h) == Found(h, {h[1], h[2], h[3]}, FirstTs(h[3]), FirstTs(h[2]))
<1>1. PowershellParentChild(ds) = {Out(h) : h \in hits}
  BY DEF PowershellParentChild
<1>2. IsFiniteSet(hits)
  <2>1. seen \in SUBSET ds /\ encoded \in SUBSET ds
    BY DEF With
  <2>2. IsFiniteSet(ds \X ds)
    BY FS_Product DEF Listed
  <2>3. IsFiniteSet((ds \X ds) \X ds)
    BY <2>2, FS_Product DEF Listed
  <2> DEFINE f == [t \in (ds \X ds) \X ds |-> <<t[1][1], t[1][2], t[2]>>]
             T == {f[t] : t \in (ds \X ds) \X ds}
  <2>4. f \in Surjection((ds \X ds) \X ds, T)
    BY DEF Surjection
  <2>5. IsFiniteSet(T)
    <3> HIDE DEF f, T
    <3> QED
      BY <2>3, <2>4, FS_Surjection
  <2>6. hits \in SUBSET T
    <3>1. SUFFICES ASSUME NEW h \in hits PROVE h \in T
      OBVIOUS
    <3>2. PICK e \in ds, c \in ds, p \in ds : h = <<e, c, p>>
      BY <2>1
    <3>3. <<<<e, c>>, p>> \in (ds \X ds) \X ds /\ f[<<<<e, c>>, p>>] = h
      BY <3>2
    <3> QED
      BY <3>3
  <2> QED
    BY <2>5, <2>6, FS_Subset
<1>3. \A h \in hits : Out(h).by = h
  BY DEF Found
<1> HIDE DEF hits, Out
<1>4. [h \in hits |-> Out(h)] \in Surjection(hits, {Out(h) : h \in hits})
  BY DEF Surjection
<1>5. IsFiniteSet({Out(h) : h \in hits})
  BY <1>2, <1>4, FS_Surjection
<1> QED
  BY <1>1, <1>3, <1>5

\* A correlation of a type holds a chain of that type.
Chained(c) ==
  /\ c.id[1] = AuthChain => AuthAmong(c.members)
  /\ c.id[1] = KeyExec => ExecAmong(c.members)
  /\ c.id[1] = ParentChild => ParentAmong(c.members)

LEMMA SoundCopy ==
  ASSUME NEW ds, NEW r, Sound(ds, r), NEW c,
         c.members = r.members, c.refs = r.refs, c.start = r.start, c.end = r.end
  PROVE  Sound(ds, c)
BY DEF Sound

LEMMA PolicyFacts ==
  ASSUME NEW ds, Listed(ds)
  PROVE  /\ IsFiniteSet(FixedPolicies(ds))
         /\ \A c \in FixedPolicies(ds) :
              c.id \in (AuthChain..ParentChild) \X Nat /\ Sound(ds, c) /\ Chained(c)
         /\ \A b, c \in FixedPolicies(ds) : b.id = c.id => b = c
         /\ \A r \in AuthThenKeys(ds) \cup KeyLoginThenExec(ds) \cup PowershellParentChild(ds) :
              \E c \in FixedPolicies(ds) : c.members = r.members
<1> DEFINE A == Numbered(AuthChain, AuthThenKeys(ds))
           K == Numbered(KeyExec, KeyLoginThenExec(ds))
           P == Numbered(ParentChild, PowershellParentChild(ds))
<1>1. StrictOrder(AuthThenKeys(ds), LoopOrder(AuthThenKeys(ds)))
  BY AuthHit, AuthResults, OneLoopOrder
<1>2. StrictOrder(KeyLoginThenExec(ds), LoopOrder(KeyLoginThenExec(ds)))
  BY ExecHit, ExecResults, OneLoopOrder
<1>3. StrictOrder(PowershellParentChild(ds), LoopOrder(PowershellParentChild(ds)))
  BY ParentHit, ParentResults, ThreeLoopOrder
<1>4. FixedPolicies(ds) = A \cup K \cup P
  BY DEF FixedPolicies
<1>5. IsFiniteSet(A) /\ IsFiniteSet(K) /\ IsFiniteSet(P)
  BY <1>1, <1>2, <1>3, AuthResults, ExecResults, ParentResults, NumberedFacts
<1>6. IsFiniteSet(A \cup K \cup P)
  BY <1>5, FS_Union
<1>7. ASSUME NEW c \in A
      PROVE  /\ \E n \in Nat : c.id = <<AuthChain, n>>
             /\ Sound(ds, c) /\ AuthAmong(c.members)
  <2>1. PICK r \in AuthThenKeys(ds) :
          /\ \E n \in Nat : c.id = <<AuthChain, n>>
          /\ c.members = r.members /\ c.refs = r.refs /\ c.start = r.start /\ c.end = r.end
    BY <1>1, AuthResults, NumberedFacts
  <2> QED
    BY <2>1, AuthHit, SoundCopy
<1>8. ASSUME NEW c \in K
      PROVE  /\ \E n \in Nat : c.id = <<KeyExec, n>>
             /\ Sound(ds, c) /\ ExecAmong(c.members)
  <2>1. PICK r \in KeyLoginThenExec(ds) :
          /\ \E n \in Nat : c.id = <<KeyExec, n>>
          /\ c.members = r.members /\ c.refs = r.refs /\ c.start = r.start /\ c.end = r.end
    BY <1>2, ExecResults, NumberedFacts
  <2> QED
    BY <2>1, ExecHit, SoundCopy
<1>9. ASSUME NEW c \in P
      PROVE  /\ \E n \in Nat : c.id = <<ParentChild, n>>
             /\ Sound(ds, c) /\ ParentAmong(c.members)
  <2>1. PICK r \in PowershellParentChild(ds) :
          /\ \E n \in Nat : c.id = <<ParentChild, n>>
          /\ c.members = r.members /\ c.refs = r.refs /\ c.start = r.start /\ c.end = r.end
    BY <1>3, ParentResults, NumberedFacts
  <2> QED
    BY <2>1, ParentHit, SoundCopy
<1>10. /\ \A b, c \in A : b.id = c.id => b = c
       /\ \A b, c \in K : b.id = c.id => b = c
       /\ \A b, c \in P : b.id = c.id => b = c
       /\ \A r \in AuthThenKeys(ds) : \E c \in A : c.members = r.members
       /\ \A r \in KeyLoginThenExec(ds) : \E c \in K : c.members = r.members
       /\ \A r \in PowershellParentChild(ds) : \E c \in P : c.members = r.members
  BY <1>1, <1>2, <1>3, AuthResults, ExecResults, ParentResults, NumberedFacts
<1> HIDE DEF A, K, P
<1>11. /\ \A c \in A : c.id[1] = AuthChain
       /\ \A c \in K : c.id[1] = KeyExec
       /\ \A c \in P : c.id[1] = ParentChild
  BY <1>7, <1>8, <1>9
<1>12. \A b, c \in A \cup K \cup P : b.id = c.id => b = c
  <2>1. AuthChain # KeyExec /\ KeyExec # ParentChild /\ AuthChain # ParentChild
    BY DEF AuthChain, KeyExec, ParentChild
  <2> QED
    BY <1>10, <1>11, <2>1
<1>13. ASSUME NEW c \in A \cup K \cup P
       PROVE  c.id \in (AuthChain..ParentChild) \X Nat /\ Sound(ds, c) /\ Chained(c)
  <2>1. /\ AuthChain \in AuthChain..ParentChild /\ KeyExec \in AuthChain..ParentChild
        /\ ParentChild \in AuthChain..ParentChild
        /\ AuthChain # KeyExec /\ KeyExec # ParentChild /\ AuthChain # ParentChild
    BY DEF AuthChain, KeyExec, ParentChild
  <2>2. c.id \in (AuthChain..ParentChild) \X Nat /\ Sound(ds, c)
    <3>1. Sound(ds, c) /\ \E t \in AuthChain..ParentChild, n \in Nat : c.id = <<t, n>>
      BY <1>7, <1>8, <1>9, <2>1
    <3> QED
      BY <3>1
  <2>3. Chained(c)
    BY <1>7, <1>8, <1>9, <1>11, <2>1 DEF Chained
  <2> QED
    BY <2>2, <2>3
<1> QED
  BY <1>4, <1>6, <1>10, <1>12, <1>13

-----------------------------------------------------------------------------
(* Sorting and selecting. *)

LEMMA CorrelationsValid ==
  ASSUME NEW ds, Listed(ds)
  PROVE  ValidCorrelations(FixedPolicies(ds), ds)
<1> DEFINE cs == FixedPolicies(ds)
           ids == {c.id : c \in cs}
<1>1. /\ IsFiniteSet(cs) /\ \A b, c \in cs : b.id = c.id => b = c
      /\ \A c \in cs : Sound(ds, c)
  BY PolicyFacts
<1> HIDE DEF cs
<1>2. Cardinality(ids) = Cardinality(cs)
  <2>1. [c \in cs |-> c.id] \in Injection(cs, ids)
    BY <1>1 DEF Injection, IsInjective
  <2>2. [c \in cs |-> c.id] \in Surjection(cs, ids)
    BY DEF Surjection
  <2>3. ExistsBijection(cs, ids)
    BY <2>1, <2>2 DEF ExistsBijection, Bijection
  <2> QED
    BY <1>1, <2>3, FS_Bijection
<1>3. ASSUME NEW c \in cs
      PROVE  /\ c.members # {} /\ c.members \subseteq ds
             /\ \A d, e \in c.members : d.id = e.id => d = e
             /\ c.refs = UNION {d.refs : d \in c.members} /\ c.start <= c.end
  <2>1. Placed(ds, c.members) /\ c.refs = UNION {d.refs : d \in c.members}
    BY <1>1 DEF Sound
  <2>2. PICK d \in c.members : Min(Starts(c.members)) = FirstTs(d)
    BY <2>1, StartsSpan
  <2>3. Min(Starts(c.members)) <= Max(Starts(c.members))
    BY <2>1, <2>2, StartsSpan
  <2>4. \A x, y \in c.members : x.id = y.id => x = y
    BY <2>1 DEF Placed, Listed
  <2> QED
    BY <1>1, <2>1, <2>3, <2>4 DEF Sound, Placed
<1> QED
  BY <1>2, <1>3 DEF ValidCorrelations, cs

LEMMA CorrelationTimes ==
  ASSUME NEW ds, Listed(ds), NEW c, Sound(ds, c)
  PROVE  c.start \in Time /\ c.end \in Time /\ c.start \in Nat /\ c.end \in Nat
<1>1. Placed(ds, c.members) /\ c.start = Min(Starts(c.members)) /\ c.end = Max(Starts(c.members))
  BY DEF Sound
<1>2. PICK d \in c.members : c.start = FirstTs(d)
  BY <1>1, StartsSpan
<1>3. PICK e \in c.members : c.end = FirstTs(e)
  BY <1>1, StartsSpan
<1> QED
  BY <1>1, <1>2, <1>3, TimedInstant DEF Placed, Listed

LEMMA CorrelationsSort ==
  ASSUME NEW ds, Listed(ds)
  PROVE  Enumerates(FixedPolicies(ds), InOrder(FixedPolicies(ds), Opens))
<1> DEFINE cs == FixedPolicies(ds)
           R == {p \in cs \X cs : Opens(p[1], p[2])}
           s == InOrder(cs, Opens)
<1>1. /\ IsFiniteSet(cs) /\ \A b, c \in cs : b.id = c.id => b = c
      /\ \A c \in cs : Sound(ds, c) /\ c.id \in (AuthChain..ParentChild) \X Nat
  BY PolicyFacts
<1> HIDE DEF cs
<1>2. \A c \in cs : c.start \in Nat
  BY <1>1, CorrelationTimes
<1>3. \A c \in cs : c.id[1] \in Int /\ c.id[2] \in Nat /\ c.id = <<c.id[1], c.id[2]>>
  BY <1>1 DEF AuthChain, ParentChild
<1>4. \A b, c \in cs : <<b, c>> \in R <=>
        \/ b.start < c.start
        \/ b.start = c.start /\ b.id[1] < c.id[1]
        \/ b.start = c.start /\ b.id[1] = c.id[1] /\ b.id[2] < c.id[2]
  BY DEF Opens, IdBefore
<1>5. \A b, c \in cs : b # c => b.id[1] # c.id[1] \/ b.id[2] # c.id[2]
  BY <1>1, <1>3
<1>6. \A c \in cs : {y \in cs : Opens(y, c)} = Lower(cs, R, c)
  BY DEF Lower
<1> HIDE DEF R
<1>7. StrictOrder(cs, R)
  <2>1. \A x \in cs : <<x, x>> \notin R
    BY <1>2, <1>3, <1>4
  <2>2. \A x, y \in cs : x # y => <<x, y>> \in R \/ <<y, x>> \in R
    BY <1>2, <1>3, <1>4, <1>5
  <2>3. \A x, y, z \in cs : <<x, y>> \in R /\ <<y, z>> \in R => <<x, z>> \in R
    BY <1>2, <1>3, <1>4
  <2> QED
    BY <2>1, <2>2, <2>3 DEF StrictOrder
<1>8. ASSUME NEW i \in 1..Cardinality(cs)
      PROVE  s[i] \in cs /\ Rank(cs, R, s[i]) = i - 1
  <2>1. \E c \in cs : Cardinality({y \in cs : Opens(y, c)}) = i - 1
    <3>1. PICK c \in cs : Rank(cs, R, c) = i - 1
      BY <1>1, <1>7, RankOnto
    <3> QED
      BY <1>6, <3>1 DEF Rank
  <2>2. s[i] = CHOOSE c \in cs : Cardinality({y \in cs : Opens(y, c)}) = i - 1
    BY DEF InOrder
  <2>3. s[i] \in cs /\ Cardinality({y \in cs : Opens(y, s[i])}) = i - 1
    BY <2>1, <2>2
  <2> QED
    BY <1>6, <2>3 DEF Rank
<1>9. s \in [1..Cardinality(cs) -> cs]
  <2> DEFINE at(i) == CHOOSE c \in cs : Cardinality({y \in cs : Opens(y, c)}) = i - 1
  <2>1. s = [i \in 1..Cardinality(cs) |-> at(i)]
    BY DEF InOrder
  <2> HIDE DEF s, at
  <2> QED
    BY <1>8, <2>1
<1>10. Enumerates(cs, s)
  <2> HIDE DEF s
  <2> QED
    BY <1>1, <1>7, <1>8, <1>9, RankEnumerates
<1> QED
  BY <1>10 DEF cs

LEMMA ItemsSort ==
  ASSUME NEW ds, Listed(ds), NEW S \in SUBSET ds
  PROVE  Enumerates(S, ById(S))
<1> DEFINE R == {p \in S \X S : p[1].id < p[2].id}
           s == ById(S)
<1>1. /\ IsFiniteSet(S) /\ \A d \in S : d.id \in Nat
      /\ \A c, d \in S : c # d => c.id # d.id
  <2>1. Listed(S) /\ DistinctIds(S)
    BY ListedIds
  <2> QED
    BY <2>1, Instants DEF Listed, DistinctIds
<1>2. \A c, d \in S : <<c, d>> \in R <=> c.id < d.id
  OBVIOUS
<1>3. \A d \in S : {y \in S : y.id < d.id} = Lower(S, R, d)
  BY DEF Lower
<1> HIDE DEF R
<1>4. StrictOrder(S, R)
  <2>1. \A x \in S : <<x, x>> \notin R
    BY <1>1, <1>2
  <2>2. \A x, y \in S : x # y => <<x, y>> \in R \/ <<y, x>> \in R
    BY <1>1, <1>2
  <2>3. \A x, y, z \in S : <<x, y>> \in R /\ <<y, z>> \in R => <<x, z>> \in R
    BY <1>1, <1>2
  <2> QED
    BY <2>1, <2>2, <2>3 DEF StrictOrder
<1>5. ASSUME NEW i \in 1..Cardinality(S)
      PROVE  s[i] \in S /\ Rank(S, R, s[i]) = i - 1
  <2>1. \E d \in S : Cardinality({y \in S : y.id < d.id}) = i - 1
    <3>1. PICK d \in S : Rank(S, R, d) = i - 1
      BY <1>1, <1>4, RankOnto
    <3> QED
      BY <1>3, <3>1 DEF Rank
  <2>2. s[i] = CHOOSE d \in S : Cardinality({y \in S : y.id < d.id}) = i - 1
    BY DEF InOrder, ById
  <2>3. s[i] \in S /\ Cardinality({y \in S : y.id < s[i].id}) = i - 1
    BY <2>1, <2>2
  <2> QED
    BY <1>3, <2>3 DEF Rank
<1>6. s \in [1..Cardinality(S) -> S]
  <2> DEFINE at(i) == CHOOSE d \in S : Cardinality({y \in S : y.id < d.id}) = i - 1
  <2>1. s = [i \in 1..Cardinality(S) |-> at(i)]
    BY DEF InOrder, ById
  <2> HIDE DEF s, at
  <2> QED
    BY <1>5, <2>1
<1>7. Enumerates(S, s)
  <2> HIDE DEF s
  <2> QED
    BY <1>1, <1>4, <1>5, <1>6, RankEnumerates
<1> QED
  BY <1>7

\* A selection is the correlations, one incident each, then an observation for
\* every item of ds that no correlation holds.
Selected(ds, incs, n, m, ordered, rest) ==
  /\ n \in Nat /\ m \in Nat
  /\ ordered = InOrder(FixedPolicies(ds), Opens)
  /\ n = Cardinality(FixedPolicies(ds)) /\ Enumerates(FixedPolicies(ds), ordered)
  /\ m = Cardinality(ds \ Covered(FixedPolicies(ds)))
  /\ Enumerates(ds \ Covered(FixedPolicies(ds)), rest)
  /\ incs \in Seq(Incident) /\ DOMAIN incs = 1..(n + m)
  /\ \A i \in 1..n : incs[i] = FromCorrelation(ordered[i])
  /\ \A k \in 1..m : incs[n + k] = FromDetection(rest[k], k)

LEMMA ObservationTyped ==
  ASSUME NEW d \in Detection, NEW k \in Nat
  PROVE  FromDetection(d, k) \in Incident
<1>1. FirstTs(d) \in Timestamp /\ d.end \in Timestamp
  BY Instants DEF Detection
<1>2. <<Observed, k>> \in (Observed..ParentChild) \X Nat
  BY DEF Observed, ParentChild
<1> QED
  BY <1>1, <1>2 DEF FromDetection, Incident

LEMMA CorrelationTyped ==
  ASSUME NEW ds, Listed(ds), NEW c \in FixedPolicies(ds)
  PROVE  FromCorrelation(c) \in Incident
<1>1. Sound(ds, c) /\ c.id \in (AuthChain..ParentChild) \X Nat
  BY PolicyFacts
<1>2. c.start \in Timestamp /\ c.end \in Timestamp
  BY <1>1, CorrelationTimes DEF Timestamp
<1>3. c.members \in SUBSET Detection
  BY <1>1 DEF Sound, Placed, Listed
<1>4. c.id \in (Observed..ParentChild) \X Nat
  BY <1>1 DEF Observed, AuthChain, ParentChild
<1> QED
  BY <1>2, <1>3, <1>4 DEF FromCorrelation, Incident

\* Two sequences given pointwise, one after the other.
LEMMA Appended ==
  ASSUME NEW T, NEW n \in Nat, NEW m \in Nat,
         NEW s \in [1..n -> T], NEW t \in [1..m -> T]
  PROVE  /\ s \o t \in Seq(T) /\ DOMAIN (s \o t) = 1..(n + m)
         /\ \A i \in 1..n : (s \o t)[i] = s[i]
         /\ \A k \in 1..m : (s \o t)[n + k] = t[k]
<1>1. s \in Seq(T) /\ Len(s) = n /\ t \in Seq(T) /\ Len(t) = m
  OBVIOUS
<1>2. s \o t \in Seq(T) /\ Len(s \o t) = n + m
  BY <1>1
<1>3. \A i \in 1..n : (s \o t)[i] = s[i]
  BY <1>1
<1>4. \A k \in 1..m : (s \o t)[n + k] = t[k]
  BY <1>1
<1> QED
  BY <1>2, <1>3, <1>4

LEMMA SeqIsFunction ==
  ASSUME NEW T, NEW s \in Seq(T)
  PROVE  s = [i \in DOMAIN s |-> s[i]]
OBVIOUS

LEMMA SelectionShape ==
  ASSUME NEW ds, Listed(ds)
  PROVE  \E n, m, ordered, rest :
           Selected(ds, Select(FixedPolicies(ds), ds), n, m, ordered, rest)
<1> DEFINE cs == FixedPolicies(ds)
           left == ds \ Covered(cs)
           n == Cardinality(cs)
           m == Cardinality(left)
           ordered == InOrder(cs, Opens)
           rest == ById(left)
           s == [i \in DOMAIN ordered |-> FromCorrelation(ordered[i])]
           t == [i \in DOMAIN rest |-> FromDetection(rest[i], i)]
<1>1. IsFiniteSet(cs) /\ IsFiniteSet(left) /\ left \in SUBSET ds /\ ds \subseteq Detection
  BY PolicyFacts, FS_Subset DEF Listed
<1>2. n \in Nat /\ m \in Nat
  BY <1>1, FS_CardinalityType
<1>3. Enumerates(cs, ordered) /\ Enumerates(left, rest)
  BY <1>1, CorrelationsSort, ItemsSort
<1>4. CorrelationIncidents(cs) = s /\ ObservationIncidents(left) = t
  BY DEF CorrelationIncidents, ObservationIncidents
<1>5. Select(cs, ds) = s \o t
  BY <1>4 DEF Select
<1> HIDE DEF ordered, rest, n, m
<1>6. /\ DOMAIN ordered = 1..n /\ \A i \in 1..n : ordered[i] \in cs
      /\ DOMAIN rest = 1..m /\ \A i \in 1..m : rest[i] \in left
  BY <1>3 DEF Enumerates, n, m
<1> HIDE DEF cs
<1>7. \A i \in 1..n : FromCorrelation(ordered[i]) \in Incident
  BY <1>6, CorrelationTyped DEF cs
<1>8. \A i \in 1..m : FromDetection(rest[i], i) \in Incident
  <2>1. \A i \in 1..m : rest[i] \in Detection /\ i \in Nat
    BY <1>1, <1>2, <1>6
  <2> QED
    BY <2>1, ObservationTyped
<1>9. s \in [1..n -> Incident] /\ t \in [1..m -> Incident]
  BY <1>6, <1>7, <1>8
<1>10. /\ \A i \in 1..n : s[i] = FromCorrelation(ordered[i])
       /\ \A i \in 1..m : t[i] = FromDetection(rest[i], i)
  BY <1>6
<1> HIDE DEF s, t
<1>11. Selected(ds, s \o t, n, m, ordered, rest)
  <2>1. /\ s \o t \in Seq(Incident) /\ DOMAIN (s \o t) = 1..(n + m)
        /\ \A i \in 1..n : (s \o t)[i] = s[i]
        /\ \A k \in 1..m : (s \o t)[n + k] = t[k]
    BY <1>2, <1>9, Appended
  <2> QED
    BY <1>2, <1>3, <1>10, <2>1 DEF Selected, n, m, cs, ordered
<1> QED
  BY <1>5, <1>11 DEF cs

\* The places of the two halves, and what is where.
LEMMA SelectionPlaces ==
  ASSUME NEW ds, Listed(ds), NEW incs, NEW n, NEW m, NEW ordered, NEW rest,
         Selected(ds, incs, n, m, ordered, rest)
  PROVE  /\ \A i \in DOMAIN incs :
              \/ /\ i \in 1..n /\ ordered[i] \in FixedPolicies(ds)
                 /\ incs[i] = FromCorrelation(ordered[i])
                 /\ incs[i].id[1] \in {AuthChain, KeyExec, ParentChild}
                 /\ incs[i].id[1] # Observed
              \/ \E k \in 1..m : /\ i = n + k
                                 /\ rest[k] \in ds \ Covered(FixedPolicies(ds))
                                 /\ incs[i] = FromDetection(rest[k], k)
                                 /\ incs[i].id = <<Observed, k>>
                                 /\ incs[i].members = {rest[k]}
                                 /\ incs[i].id[1] \notin {AuthChain, KeyExec, ParentChild}
         /\ \A i \in 1..n : i \in DOMAIN incs
         /\ \A k \in 1..m : n + k \in DOMAIN incs
<1>1. n \in Nat /\ m \in Nat /\ DOMAIN incs = 1..(n + m)
  BY DEF Selected
<1>2. /\ \A i \in 1..n : ordered[i] \in FixedPolicies(ds)
      /\ \A k \in 1..m : rest[k] \in ds \ Covered(FixedPolicies(ds))
  BY DEF Selected, Enumerates
<1>3. ASSUME NEW i \in 1..n
      PROVE  /\ incs[i] = FromCorrelation(ordered[i])
             /\ incs[i].id[1] \in {AuthChain, KeyExec, ParentChild}
             /\ incs[i].id[1] # Observed
  <2>1. incs[i] = FromCorrelation(ordered[i])
    BY DEF Selected
  <2>2. ordered[i].id \in (AuthChain..ParentChild) \X Nat
    BY <1>2, PolicyFacts
  <2>3. incs[i].id = ordered[i].id
    BY <2>1 DEF FromCorrelation
  <2> QED
    BY <2>1, <2>2, <2>3 DEF AuthChain, KeyExec, ParentChild, Observed
<1>4. ASSUME NEW k \in 1..m
      PROVE  /\ incs[n + k] = FromDetection(rest[k], k)
             /\ incs[n + k].id = <<Observed, k>>
             /\ incs[n + k].members = {rest[k]}
             /\ incs[n + k].id[1] \notin {AuthChain, KeyExec, ParentChild}
  <2>1. incs[n + k] = FromDetection(rest[k], k)
    BY DEF Selected
  <2>2. incs[n + k].id = <<Observed, k>> /\ incs[n + k].members = {rest[k]}
    BY <2>1 DEF FromDetection
  <2> QED
    BY <2>1, <2>2 DEF AuthChain, KeyExec, ParentChild, Observed
<1>5. ASSUME NEW i \in DOMAIN incs, i \notin 1..n
      PROVE  \E k \in 1..m : /\ i = n + k
                             /\ rest[k] \in ds \ Covered(FixedPolicies(ds))
                             /\ incs[i] = FromDetection(rest[k], k)
                             /\ incs[i].id = <<Observed, k>>
                             /\ incs[i].members = {rest[k]}
                             /\ incs[i].id[1] \notin {AuthChain, KeyExec, ParentChild}
  <2>1. PICK k \in 1..m : i = n + k
    <3>1. i - n \in 1..m /\ i = n + (i - n)
      BY <1>1, <1>5
    <3> QED
      BY <3>1
  <2> QED
    BY <1>2, <1>4, <2>1
<1>6. (\A i \in 1..n : i \in DOMAIN incs) /\ \A k \in 1..m : n + k \in DOMAIN incs
  BY <1>1
<1> QED
  BY <1>2, <1>3, <1>5, <1>6

LEMMA SelectionInjective ==
  ASSUME NEW ds, Listed(ds), NEW incs, NEW n, NEW m, NEW ordered, NEW rest,
         Selected(ds, incs, n, m, ordered, rest),
         NEW i \in DOMAIN incs, NEW j \in DOMAIN incs, incs[i].id = incs[j].id
  PROVE  i = j
<1>1. \A x \in DOMAIN incs : x \in 1..n => /\ ordered[x] \in FixedPolicies(ds)
                                           /\ incs[x].id = ordered[x].id
                                           /\ incs[x].id[1] # Observed
  <2>1. SUFFICES ASSUME NEW x \in DOMAIN incs, x \in 1..n
                 PROVE  /\ ordered[x] \in FixedPolicies(ds) /\ incs[x].id = ordered[x].id
                        /\ incs[x].id[1] # Observed
    OBVIOUS
  <2>2. ordered[x] \in FixedPolicies(ds) /\ incs[x] = FromCorrelation(ordered[x])
    BY <2>1 DEF Selected, Enumerates
  <2>3. ordered[x].id \in (AuthChain..ParentChild) \X Nat
    BY <2>2, PolicyFacts
  <2> QED
    BY <2>2, <2>3 DEF FromCorrelation, Observed, AuthChain, ParentChild
<1>2. n \in Nat /\ m \in Nat /\ DOMAIN incs = 1..(n + m)
  BY DEF Selected
<1>3. \A x \in DOMAIN incs : x \notin 1..n =>
        \E k \in 1..m : x = n + k /\ incs[x].id = <<Observed, k>>
  BY SelectionPlaces
<1>4. CASE i \in 1..n /\ j \in 1..n
  <2>1. ordered[i] = ordered[j]
    BY <1>1, <1>4, PolicyFacts
  <2> QED
    BY <1>4, <2>1 DEF Selected, Enumerates
<1>5. CASE i \in 1..n /\ j \notin 1..n
  BY <1>1, <1>3, <1>5
<1>6. CASE i \notin 1..n /\ j \in 1..n
  BY <1>1, <1>3, <1>6
<1>7. CASE i \notin 1..n /\ j \notin 1..n
  <2>1. PICK k \in 1..m : i = n + k /\ incs[i].id = <<Observed, k>>
    BY <1>3, <1>7
  <2>2. PICK l \in 1..m : j = n + l /\ incs[j].id = <<Observed, l>>
    BY <1>3, <1>7
  <2> QED
    BY <2>1, <2>2
<1> QED
  BY <1>4, <1>5, <1>6, <1>7

\* Which items the two halves of a selection represent.
LEMMA SelectionMembers ==
  ASSUME NEW ds, Listed(ds), NEW incs, NEW n, NEW m, NEW ordered, NEW rest,
         Selected(ds, incs, n, m, ordered, rest), NEW d
  PROVE  /\ (\E i \in DOMAIN incs : incs[i].id[1] \in {Observed} /\ d \in incs[i].members)
              <=> d \in ds \ Covered(FixedPolicies(ds))
         /\ (\E i \in DOMAIN incs : /\ incs[i].id[1] \in {AuthChain, KeyExec, ParentChild}
                                    /\ d \in incs[i].members)
              <=> d \in Covered(FixedPolicies(ds))
<1> DEFINE cs == FixedPolicies(ds)
<1>1. /\ \A c \in cs : \E i \in 1..n : ordered[i] = c
      /\ \A e \in ds \ Covered(cs) : \E k \in 1..m : rest[k] = e
      /\ \A i \in 1..n : incs[i] = FromCorrelation(ordered[i])
      /\ \A k \in 1..m : incs[n + k] = FromDetection(rest[k], k)
  BY DEF Selected, Enumerates
<1>2. \A c : FromCorrelation(c).members = c.members
  BY DEF FromCorrelation
<1>3. \A e, k : FromDetection(e, k).members = {e}
  BY DEF FromDetection
<1>4. d \in Covered(cs) <=> \E c \in cs : d \in c.members
  BY DEF Covered
<1>5. ASSUME NEW i \in DOMAIN incs, incs[i].id[1] \in {Observed}, d \in incs[i].members
      PROVE  d \in ds \ Covered(cs)
  BY <1>5, SelectionPlaces
<1>6. ASSUME d \in ds \ Covered(cs)
      PROVE  \E i \in DOMAIN incs : incs[i].id[1] \in {Observed} /\ d \in incs[i].members
  <2>1. PICK k \in 1..m : rest[k] = d
    BY <1>1, <1>6
  <2>2. n + k \in DOMAIN incs /\ incs[n + k] = FromDetection(d, k)
    BY <1>1, <2>1, SelectionPlaces
  <2>3. FromDetection(d, k).id = <<Observed, k>> /\ d \in FromDetection(d, k).members
    BY DEF FromDetection
  <2> QED
    BY <2>2, <2>3
<1>7. ASSUME NEW i \in DOMAIN incs, incs[i].id[1] \in {AuthChain, KeyExec, ParentChild},
             d \in incs[i].members
      PROVE  d \in Covered(cs)
  <2>1. ordered[i] \in cs /\ incs[i] = FromCorrelation(ordered[i])
    BY <1>7, SelectionPlaces
  <2> QED
    BY <1>2, <1>4, <1>7, <2>1
<1>8. ASSUME d \in Covered(cs)
      PROVE  \E i \in DOMAIN incs : /\ incs[i].id[1] \in {AuthChain, KeyExec, ParentChild}
                                    /\ d \in incs[i].members
  <2>1. PICK c \in cs : d \in c.members
    BY <1>4, <1>8
  <2>2. PICK i \in 1..n : ordered[i] = c
    BY <1>1
  <2>3. i \in DOMAIN incs /\ incs[i].id = c.id /\ incs[i].members = c.members
    <3>1. i \in DOMAIN incs
      BY SelectionPlaces
    <3>2. incs[i] = FromCorrelation(c)
      BY <1>1, <2>2
    <3>3. incs[i].id = c.id
      BY <3>2 DEF FromCorrelation
    <3> QED
      BY <1>2, <3>1, <3>2, <3>3
  <2>4. c.id \in (AuthChain..ParentChild) \X Nat
    BY <2>1, PolicyFacts
  <2>5. c.id[1] \in {AuthChain, KeyExec, ParentChild}
    BY <2>4 DEF AuthChain, KeyExec, ParentChild
  <2> QED
    BY <2>1, <2>3, <2>5
<1> QED
  BY <1>5, <1>6, <1>7, <1>8

LEMMA CoveredListed ==
  ASSUME NEW ds, Listed(ds)
  PROVE  Covered(FixedPolicies(ds)) \subseteq ds
BY PolicyFacts DEF Covered, Sound, Placed

LEMMA SelectionAccepted ==
  ASSUME NEW ds, Listed(ds)
  PROVE  SelectionRepresents(Select(FixedPolicies(ds), ds), FixedPolicies(ds), ds)
<1> DEFINE cs == FixedPolicies(ds)
<1>1. PICK incs : incs = Select(cs, ds)
  OBVIOUS
<1>2. PICK n, m, ordered, rest : Selected(ds, incs, n, m, ordered, rest)
  BY <1>1, SelectionShape
<1> DEFINE represented(S) == UNION {incs[i].members : i \in {j \in DOMAIN incs : incs[j].id[1] \in S}}
<1>3. \A S, d : d \in represented(S) <=>
                  \E i \in DOMAIN incs : incs[i].id[1] \in S /\ d \in incs[i].members
  OBVIOUS
<1>4. \A d : d \in represented({Observed}) <=> d \in ds \ Covered(cs)
  BY <1>2, <1>3, SelectionMembers
<1>5. \A d : d \in represented({AuthChain, KeyExec, ParentChild}) <=> d \in Covered(cs)
  BY <1>2, <1>3, SelectionMembers
<1>6. IsInjective([i \in DOMAIN incs |-> incs[i].id])
  BY <1>2, SelectionInjective DEF IsInjective
<1>7. \A d : d \in UNION {incs[i].members : i \in DOMAIN incs} <=> d \in ds
  <2>1. \A i \in DOMAIN incs : incs[i].id[1] \in {Observed} \/
                               incs[i].id[1] \in {AuthChain, KeyExec, ParentChild}
    BY <1>2, SelectionPlaces
  <2>2. \A d : d \in UNION {incs[i].members : i \in DOMAIN incs} <=>
               d \in ds \ Covered(cs) \/ d \in Covered(cs)
    BY <1>2, <2>1, SelectionMembers
  <2> QED
    BY <2>2, CoveredListed
<1>8. /\ represented({Observed}) \cap Covered(cs) = {}
      /\ represented({AuthChain, KeyExec, ParentChild}) = Covered(cs)
  <2> HIDE DEF represented
  <2> QED
    BY <1>4, <1>5
<1>9. UNION {incs[i].members : i \in DOMAIN incs} = ds
  BY <1>7
<1>10. SelectionRepresents(incs, cs, ds)
  BY <1>6, <1>8, <1>9 DEF SelectionRepresents
<1> QED
  BY <1>1, <1>10

-----------------------------------------------------------------------------
(* The bundle. *)

TriagesOf(ids) == [i \in DOMAIN ids |-> [triage |-> ids[i], incident |-> ids[i]]]
InvestigationsOf(ids) == [i \in DOMAIN ids |-> [incident |-> ids[i], triage |-> ids[i]]]

LEMMA ObservationCount ==
  ASSUME NEW ds, Listed(ds), NEW incs, NEW n, NEW m, NEW ordered, NEW rest,
         Selected(ds, incs, n, m, ordered, rest)
  PROVE  Cardinality({i \in DOMAIN incs : incs[i].id[1] = Observed}) = m
<1>1. n \in Nat /\ m \in Nat /\ DOMAIN incs = 1..(n + m)
  BY DEF Selected
<1>2. {i \in DOMAIN incs : incs[i].id[1] = Observed} = (n + 1)..(n + m)
  <2>1. \A i \in DOMAIN incs : incs[i].id[1] = Observed => i \in (n + 1)..(n + m)
    <3>1. SUFFICES ASSUME NEW i \in DOMAIN incs, incs[i].id[1] = Observed
                   PROVE  i \in (n + 1)..(n + m)
      OBVIOUS
    <3>2. PICK k \in 1..m : i = n + k
      BY <3>1, SelectionPlaces
    <3> QED
      BY <1>1, <3>2
  <2>2. \A i \in (n + 1)..(n + m) : i \in DOMAIN incs /\ incs[i].id[1] = Observed
    <3>1. SUFFICES ASSUME NEW i \in (n + 1)..(n + m)
                   PROVE  i \in DOMAIN incs /\ incs[i].id[1] = Observed
      OBVIOUS
    <3>2. i - n \in 1..m /\ i = n + (i - n) /\ i \in DOMAIN incs
      BY <1>1, <3>1
    <3>3. incs[i] = FromDetection(rest[i - n], i - n)
      BY <3>2 DEF Selected
    <3> QED
      BY <3>2, <3>3 DEF FromDetection
  <2> QED
    BY <2>1, <2>2
<1>3. n + 1 \in Int /\ n + m \in Int
  BY <1>1
<1>4. Cardinality((n + 1)..(n + m)) = IF n + 1 > n + m THEN 0 ELSE (n + m) - (n + 1) + 1
  BY <1>3, FS_Interval
<1>5. Cardinality((n + 1)..(n + m)) = m
  BY <1>1, <1>4
<1> QED
  BY <1>2, <1>5

LEMMA SelectedInOrder ==
  ASSUME NEW ds, Listed(ds), NEW incs, incs = Select(FixedPolicies(ds), ds)
  PROVE  AsSelected(incs) =
           AsSelected(CorrelationIncidents(FixedPolicies(ds)))
             \o [k \in 1..Cardinality({i \in DOMAIN incs : incs[i].id[1] = Observed}) |->
                   <<Observed, k>>]
<1> DEFINE cs == FixedPolicies(ds)
           ids == (Observed..ParentChild) \X Nat
           s == CorrelationIncidents(cs)
           front == AsSelected(s)
<1>1. PICK n, m, ordered, rest : Selected(ds, incs, n, m, ordered, rest)
  BY SelectionShape
<1> DEFINE back == [k \in 1..m |-> <<Observed, k>>]
<1>2. /\ n \in Nat /\ m \in Nat /\ DOMAIN incs = 1..(n + m)
      /\ DOMAIN ordered = 1..n /\ ordered = InOrder(cs, Opens)
      /\ \A i \in 1..n : ordered[i] \in cs /\ incs[i] = FromCorrelation(ordered[i])
      /\ \A k \in 1..m : incs[n + k] = FromDetection(rest[k], k)
  BY <1>1 DEF Selected, Enumerates
<1>3. Cardinality({i \in DOMAIN incs : incs[i].id[1] = Observed}) = m
  BY <1>1, ObservationCount
<1>4. s = [i \in 1..n |-> FromCorrelation(ordered[i])]
  BY <1>2 DEF CorrelationIncidents
<1>5. front = [i \in 1..n |-> incs[i].id]
  BY <1>2, <1>4 DEF AsSelected
<1>6. \A i \in 1..n : incs[i].id \in ids
  <2>1. \A i \in 1..n : incs[i] \in Incident
    BY <1>2, CorrelationTyped
  <2> QED
    BY <2>1 DEF Incident
<1>7. \A k \in 1..m : <<Observed, k>> \in ids
  BY <1>2 DEF Observed, ParentChild
<1>8. front \in [1..n -> ids] /\ back \in [1..m -> ids]
  BY <1>5, <1>6, <1>7
<1>9. \A e, k : FromDetection(e, k).id = <<Observed, k>>
  BY DEF FromDetection
<1>10. \A k \in 1..m : incs[n + k].id = back[k]
  BY <1>2, <1>9
<1> HIDE DEF s, front, back, ids
<1>11. /\ front \o back \in Seq(ids) /\ DOMAIN (front \o back) = 1..(n + m)
       /\ \A i \in 1..n : (front \o back)[i] = front[i]
       /\ \A k \in 1..m : (front \o back)[n + k] = back[k]
  BY <1>2, <1>8, Appended
<1>12. \A i \in 1..(n + m) : incs[i].id = (front \o back)[i]
  <2>1. SUFFICES ASSUME NEW i \in 1..(n + m) PROVE incs[i].id = (front \o back)[i]
    OBVIOUS
  <2>2. CASE i \in 1..n
    BY <1>5, <1>11, <2>2
  <2>3. CASE i \notin 1..n
    <3>1. i - n \in 1..m /\ i = n + (i - n)
      BY <1>2, <2>3
    <3> QED
      BY <1>10, <1>11, <3>1
  <2> QED
    BY <2>2, <2>3
<1>13. AsSelected(incs) = [i \in 1..(n + m) |-> incs[i].id]
  BY <1>2 DEF AsSelected
<1>14. AsSelected(incs) = front \o back
  <2>1. front \o back = [i \in 1..(n + m) |-> (front \o back)[i]]
    BY <1>11, SeqIsFunction
  <2> QED
    BY <1>12, <1>13, <2>1
<1> QED
  BY <1>3, <1>14 DEF front, back, s

\* A downstream stage makes one result for each incident, in order of ids.
LEMMA DownstreamFunction ==
  ASSUME NEW incs
  PROVE  Downstream(incs) = [i \in DOMAIN Downstream(incs) |-> Downstream(incs)[i]]
<1> DEFINE S == {incs[i].id : i \in DOMAIN incs}
           at(i) == CHOOSE x \in S : Cardinality({y \in S : IdBefore(y, x)}) = i - 1
<1>1. Downstream(incs) = [i \in 1..Cardinality(S) |-> at(i)]
  BY DEF Downstream, InOrder
<1> HIDE DEF S, at
<1> QED
  BY <1>1

LEMMA InvestigationPairs ==
  ASSUME NEW ids, ids = [i \in DOMAIN ids |-> ids[i]]
  PROVE  /\ Range(ids) = {t.incident : t \in Range(TriagesOf(ids))}
         /\ \A i \in DOMAIN ids :
              (CHOOSE t \in Range(TriagesOf(ids)) : t.incident = ids[i]).triage = ids[i]
         /\ [i \in DOMAIN TriagesOf(ids) |-> TriagesOf(ids)[i].incident] = ids
         /\ [i \in DOMAIN InvestigationsOf(ids) |-> InvestigationsOf(ids)[i].incident] = ids
<1>1. /\ DOMAIN TriagesOf(ids) = DOMAIN ids
      /\ \A i \in DOMAIN ids : /\ TriagesOf(ids)[i].incident = ids[i]
                               /\ TriagesOf(ids)[i].triage = ids[i]
  BY DEF TriagesOf
<1>2. /\ DOMAIN InvestigationsOf(ids) = DOMAIN ids
      /\ \A i \in DOMAIN ids : InvestigationsOf(ids)[i].incident = ids[i]
  BY DEF InvestigationsOf
<1>3. \A t : t \in Range(TriagesOf(ids)) <=> \E i \in DOMAIN ids : t = TriagesOf(ids)[i]
  BY <1>1 DEF Range
<1>4. \A x : x \in Range(ids) <=> \E i \in DOMAIN ids : x = ids[i]
  BY DEF Range
<1> HIDE DEF TriagesOf, InvestigationsOf
<1>5. Range(ids) = {t.incident : t \in Range(TriagesOf(ids))}
  BY <1>1, <1>3, <1>4
<1>6. ASSUME NEW i \in DOMAIN ids
      PROVE  (CHOOSE t \in Range(TriagesOf(ids)) : t.incident = ids[i]).triage = ids[i]
  <2>1. \E t \in Range(TriagesOf(ids)) : t.incident = ids[i]
    BY <1>1, <1>3
  <2>2. PICK t : t = CHOOSE q \in Range(TriagesOf(ids)) : q.incident = ids[i]
    OBVIOUS
  <2>3. t \in Range(TriagesOf(ids)) /\ t.incident = ids[i]
    BY <2>1, <2>2
  <2> QED
    BY <1>1, <1>3, <2>2, <2>3
<1> QED
  BY <1>1, <1>2, <1>5, <1>6

LEMMA BundleAccepted ==
  ASSUME Listed(given), correlations = FixedPolicies(given),
         incidents = Select(correlations, given),
         triages = TriagesOf(Downstream(incidents)),
         investigations = InvestigationsOf(Downstream(incidents))
  PROVE  BundleConsistent
<1> DEFINE ids == Downstream(incidents)
<1>1. AsSelected(incidents) =
        AsSelected(CorrelationIncidents(correlations))
          \o [k \in 1..Cardinality({i \in DOMAIN incidents : incidents[i].id[1] = Observed}) |->
                <<Observed, k>>]
  <2>1. incidents = Select(FixedPolicies(given), given)
    OBVIOUS
  <2>2. AsSelected(incidents) =
          AsSelected(CorrelationIncidents(FixedPolicies(given)))
            \o [k \in 1..Cardinality({i \in DOMAIN incidents : incidents[i].id[1] = Observed}) |->
                  <<Observed, k>>]
    BY <2>1, SelectedInOrder
  <2> QED
    BY <2>2
<1>2. ids = InOrder({incidents[i].id : i \in DOMAIN incidents}, IdBefore)
  BY DEF Downstream
<1>3. /\ [i \in DOMAIN triages |-> triages[i].incident] = ids
      /\ [i \in DOMAIN investigations |-> investigations[i].incident] = ids
  BY DownstreamFunction, InvestigationPairs
<1>4. ASSUME NEW i \in DOMAIN investigations
      PROVE  \E j \in DOMAIN triages : /\ triages[j].incident = investigations[i].incident
                                       /\ triages[j].triage = investigations[i].triage
  <2> HIDE DEF ids
  <2>1. i \in DOMAIN ids /\ investigations[i] = [incident |-> ids[i], triage |-> ids[i]]
    BY DEF InvestigationsOf, ids
  <2>2. i \in DOMAIN triages /\ triages[i] = [triage |-> ids[i], incident |-> ids[i]]
    BY <2>1 DEF TriagesOf, ids
  <2> QED
    BY <2>1, <2>2
<1> HIDE DEF ids
<1> QED
  BY <1>1, <1>2, <1>3, <1>4 DEF BundleConsistent

-----------------------------------------------------------------------------
(* The invariant: every stage holds what its function makes of given. *)

Deduplicating == stage \in {"dedupe", "correlate"}

SomeUnbound == \E c \in correlations : Unbound(c.refs)

StageInv ==
  /\ stage \in {"dedupe", "correlate", "revalidate", "select", "triage",
                "investigate", "compose", "done", "failed"}
  /\ endpoints \in Handed
  /\ Deduplicating => correlations = {}
  /\ ~Deduplicating => correlations = FixedPolicies(given) /\ pass = "revalidate"
  /\ Deduplicating \/ stage \in {"revalidate", "select"} => incidents = <<>>
  /\ stage \in {"triage", "investigate", "compose", "done", "failed"} =>
       incidents = Select(correlations, given)
  /\ stage = "failed" => SomeUnbound
  /\ stage \in {"compose", "done"} => ~SomeUnbound
  /\ stage \in {"investigate", "compose", "done"} =>
       triages = TriagesOf(Downstream(incidents))
  /\ stage \in {"compose", "done"} =>
       investigations = InvestigationsOf(Downstream(incidents))

PipelineInv == DedupeInv /\ StageInv

LEMMA PipelineStart ==
  ASSUME PipelineInit
  PROVE  PipelineInv
<1>1. raw \in Worlds
  BY DEF PipelineInit
<1>2. /\ raw \subseteq Detection /\ \A r \in raw : r.refs = {r.id}
      /\ \A q, r \in raw : q.id = r.id => q = r
  BY <1>1, PipelineAssumption
<1>3. IsFiniteSet(raw)
  <2>1. [r \in raw |-> r.id] \in Injection(raw, Id)
    BY <1>2 DEF Injection, IsInjective, Detection
  <2> QED
    BY <2>1, FS_Injection, DedupeAssumption
<1>4. RawList(raw)
  BY <1>2, <1>3 DEF RawList, Listed
<1>5. DedupeInv
  BY <1>4, StartInv DEF PipelineInit
<1> QED
  BY <1>5 DEF PipelineInit, PipelineInv, StageInv, Deduplicating

LEMMA UnboundKept ==
  ASSUME UNCHANGED <<endpoints, correlations>>
  PROVE  SomeUnbound' <=> SomeUnbound
BY DEF SomeUnbound, Unbound

\* The investigation looks up the references of the incidents that correlations
\* became: those of the correlations.
LEMMA UnboundIncident ==
  ASSUME Listed(given), NEW incs, incs = Select(FixedPolicies(given), given)
  PROVE  (\E i \in DOMAIN incs : /\ incs[i].id[1] # Observed
                                  /\ Unbound(UNION {d.refs : d \in incs[i].members}))
           <=> \E c \in FixedPolicies(given) : Unbound(c.refs)
<1> DEFINE cs == FixedPolicies(given)
<1>1. PICK n, m, ordered, rest : Selected(given, incs, n, m, ordered, rest)
  BY SelectionShape
<1>2. \A c \in cs : c.refs = UNION {d.refs : d \in FromCorrelation(c).members}
  <2>1. \A c \in cs : c.refs = UNION {d.refs : d \in c.members}
    BY PolicyFacts DEF Sound
  <2>2. \A c : FromCorrelation(c).members = c.members
    BY DEF FromCorrelation
  <2> QED
    BY <2>1, <2>2
<1>3. ASSUME NEW i \in DOMAIN incs, incs[i].id[1] # Observed
      PROVE  ordered[i] \in cs /\ incs[i] = FromCorrelation(ordered[i])
  <2>1. SUFFICES ASSUME NEW k, incs[i].id = <<Observed, k>> PROVE FALSE
    BY <1>1, SelectionPlaces
  <2> QED
    BY <1>3, <2>1
<1>4. ASSUME NEW c \in cs
      PROVE  \E i \in DOMAIN incs : incs[i].id[1] # Observed /\ incs[i] = FromCorrelation(c)
  <2>1. PICK i \in 1..n : ordered[i] = c
    BY <1>1 DEF Selected, Enumerates
  <2>2. i \in DOMAIN incs /\ incs[i] = FromCorrelation(c)
    <3>1. i \in DOMAIN incs
      BY <1>1, SelectionPlaces
    <3>2. incs[i] = FromCorrelation(ordered[i])
      BY <1>1 DEF Selected
    <3> QED
      BY <2>1, <3>1, <3>2
  <2>3. c.id \in (AuthChain..ParentChild) \X Nat /\ incs[i].id = c.id
    BY <2>2, PolicyFacts DEF FromCorrelation
  <2>4. incs[i].id[1] # Observed
    BY <2>3 DEF AuthChain, ParentChild, Observed
  <2> QED
    BY <2>2, <2>4
<1> HIDE DEF cs
<1>5. ASSUME NEW i \in DOMAIN incs, incs[i].id[1] # Observed,
             Unbound(UNION {d.refs : d \in incs[i].members})
      PROVE  \E c \in cs : Unbound(c.refs)
  <2>1. ordered[i].refs = UNION {d.refs : d \in incs[i].members}
    BY <1>2, <1>3, <1>5
  <2> QED
    BY <1>3, <1>5, <2>1
<1>6. ASSUME NEW c \in cs, Unbound(c.refs)
      PROVE  \E i \in DOMAIN incs : /\ incs[i].id[1] # Observed
                                     /\ Unbound(UNION {d.refs : d \in incs[i].members})
  <2>1. PICK i \in DOMAIN incs : incs[i].id[1] # Observed /\ incs[i] = FromCorrelation(c)
    BY <1>4
  <2>2. UNION {d.refs : d \in incs[i].members} = c.refs
    BY <1>2, <2>1
  <2> QED
    BY <1>6, <2>1, <2>2
<1> QED
  BY <1>5, <1>6 DEF cs

LEMMA LoopKeeps ==
  ASSUME PipelineInv, DedupeStep
  PROVE  PipelineInv'
<1>1. /\ stage \in {"dedupe", "revalidate"} /\ UNCHANGED stages
      /\ \/ \E item \in todo : OpenGroup(item) \/ JoinGroup(item) \/ SplitGroup(item)
         \/ CloseGroup
  BY DEF DedupeStep
<1>2. DedupeNext
  BY <1>1 DEF DedupeNext
<1>3. DedupeInv'
  BY <1>2, DedupeStepKeeps DEF PipelineInv
<1>4. given' = given /\ pass' = pass
  BY <1>1 DEF OpenGroup, JoinGroup, SplitGroup, CloseGroup
<1> QED
  BY <1>1, <1>3, <1>4 DEF PipelineInv, StageInv, Deduplicating, stages

LEMMA QuietKeeps ==
  ASSUME PipelineInv, UNCHANGED vars
  PROVE  DedupeInv' /\ given' = given /\ pass' = pass
BY DedupeStepKeeps DEF PipelineInv, vars

LEMMA CorrelateKeeps ==
  ASSUME PipelineInv, Correlate
  PROVE  PipelineInv'
<1>1. /\ stage = "correlate" /\ Revalidate /\ correlations' = FixedPolicies(merged)
      /\ stage' = IF ValidCorrelations(correlations', merged) THEN "revalidate" ELSE "failed"
      /\ UNCHANGED <<endpoints, incidents, triages, investigations>>
  BY DEF Correlate
<1>2. DedupeInv'
  BY <1>1, DedupeStepKeeps DEF PipelineInv, DedupeNext
<1>3. given' = merged /\ pass' = "revalidate"
  BY <1>1 DEF Revalidate
<1>4. Listed(merged)
  BY <1>2, <1>3 DEF DedupeInv, Represented
<1>5. stage' = "revalidate" /\ correlations' = FixedPolicies(given')
  BY <1>1, <1>3, <1>4, CorrelationsValid
<1> QED
  BY <1>1, <1>2, <1>3, <1>5 DEF PipelineInv, StageInv, Deduplicating

LEMMA CheckKeeps ==
  ASSUME PipelineInv, CheckInputs
  PROVE  PipelineInv'
<1>1. /\ stage = "revalidate" /\ Judge
      /\ stage' = IF /\ verdict' = "accepted"
                     /\ ValidCorrelations(correlations, given)
                     /\ correlations = FixedPolicies(given)
                  THEN "select" ELSE "failed"
      /\ UNCHANGED <<endpoints, correlations, incidents, triages, investigations>>
  BY DEF CheckInputs
<1>2. DedupeInv' /\ given' = given /\ pass' = pass
  BY <1>1, DedupeStepKeeps DEF PipelineInv, DedupeNext, Judge
<1>3. verdict' = "accepted"
  BY <1>1, SecondPassSame DEF PipelineInv, Judge
<1>4. correlations = FixedPolicies(given) /\ Listed(given)
  BY <1>1 DEF PipelineInv, StageInv, Deduplicating, DedupeInv, Represented
<1>5. stage' = "select"
  BY <1>1, <1>3, <1>4, CorrelationsValid
<1> QED
  BY <1>1, <1>2, <1>5 DEF PipelineInv, StageInv, Deduplicating

LEMMA SelectKeeps ==
  ASSUME PipelineInv, SelectIncidents
  PROVE  PipelineInv'
<1>1. stage = "select" /\ UNCHANGED <<vars, endpoints, correlations, triages, investigations>>
  BY DEF SelectIncidents
<1>2. DedupeInv' /\ given' = given /\ pass' = pass
  BY <1>1, QuietKeeps
<1>3. correlations = FixedPolicies(given) /\ Listed(given)
  BY <1>1 DEF PipelineInv, StageInv, Deduplicating, DedupeInv, Represented
<1>4. incidents' = Select(correlations, given) /\ stage' = "triage"
  BY <1>3, SelectionAccepted DEF SelectIncidents
<1> QED
  BY <1>1, <1>2, <1>3, <1>4 DEF PipelineInv, StageInv, Deduplicating

LEMMA TriageKeeps ==
  ASSUME PipelineInv, TriageIncidents
  PROVE  PipelineInv'
<1>1. /\ stage = "triage" /\ stage' = "investigate"
      /\ UNCHANGED <<vars, endpoints, correlations, incidents, investigations>>
      /\ triages' = TriagesOf(Downstream(incidents))
  BY DEF TriageIncidents, TriagesOf
<1>2. DedupeInv' /\ given' = given /\ pass' = pass
  BY <1>1, QuietKeeps
<1> QED
  BY <1>1, <1>2 DEF PipelineInv, StageInv, Deduplicating

LEMMA InvestigateKeeps ==
  ASSUME PipelineInv, InvestigateIncidents
  PROVE  PipelineInv'
<1> DEFINE ids == Downstream(incidents)
           triageOf(id) == CHOOSE t \in Range(triages) : t.incident = id
           unbound == \E i \in DOMAIN incidents :
                        /\ incidents[i].id[1] # Observed
                        /\ Unbound(UNION {d.refs : d \in incidents[i].members})
<1>1. /\ stage = "investigate"
      /\ UNCHANGED <<vars, endpoints, correlations, incidents, triages>>
      /\ IF Range(ids) = {t.incident : t \in Range(triages)} /\ ~unbound
         THEN /\ investigations' =
                   [i \in DOMAIN ids |-> [incident |-> ids[i], triage |-> triageOf(ids[i]).triage]]
              /\ stage' = "compose"
         ELSE investigations' = investigations /\ stage' = "failed"
  BY DEF InvestigateIncidents
<1>2. DedupeInv' /\ given' = given /\ pass' = pass
  BY <1>1, QuietKeeps
<1>3. triages = TriagesOf(ids)
  BY <1>1 DEF PipelineInv, StageInv
<1>4. ids = [i \in DOMAIN ids |-> ids[i]]
  BY DownstreamFunction
<1>5. /\ Range(ids) = {t.incident : t \in Range(triages)}
      /\ \A i \in DOMAIN ids : triageOf(ids[i]).triage = ids[i]
  <2> HIDE DEF ids
  <2> QED
    BY <1>3, <1>4, InvestigationPairs
<1>6. unbound <=> SomeUnbound
  <2>1. /\ Listed(given) /\ correlations = FixedPolicies(given)
        /\ incidents = Select(FixedPolicies(given), given)
    BY <1>1 DEF PipelineInv, StageInv, Deduplicating, DedupeInv, Represented
  <2> QED
    BY <2>1, UnboundIncident DEF SomeUnbound
<1> HIDE DEF triageOf, ids, unbound
<1>7. SomeUnbound' <=> SomeUnbound
  BY <1>1, UnboundKept
<1>8. CASE unbound
  <2>1. stage' = "failed"
    BY <1>1, <1>8
  <2> QED
    BY <1>1, <1>2, <1>6, <1>7, <1>8, <2>1 DEF PipelineInv, StageInv, Deduplicating
<1>9. CASE ~unbound
  <2>1. stage' = "compose" /\ investigations' = InvestigationsOf(ids)
    BY <1>1, <1>5, <1>9 DEF InvestigationsOf
  <2> QED
    BY <1>1, <1>2, <1>6, <1>7, <1>9, <2>1 DEF PipelineInv, StageInv, Deduplicating, ids
<1> QED
  BY <1>8, <1>9

LEMMA ComposeKeeps ==
  ASSUME PipelineInv, Compose
  PROVE  PipelineInv'
<1>1. /\ stage = "compose" /\ stage' = IF BundleConsistent THEN "done" ELSE "failed"
      /\ UNCHANGED <<vars, endpoints, correlations, incidents, triages, investigations>>
  BY DEF Compose
<1>2. DedupeInv' /\ given' = given /\ pass' = pass
  BY <1>1, QuietKeeps
<1>3. BundleConsistent
  BY <1>1, BundleAccepted DEF PipelineInv, StageInv, Deduplicating, DedupeInv, Represented
<1>4. SomeUnbound' <=> SomeUnbound
  BY <1>1, UnboundKept
<1> QED
  BY <1>1, <1>2, <1>3, <1>4 DEF PipelineInv, StageInv, Deduplicating

LEMMA PipelineInvariant == PipelineSpec => []PipelineInv
<1>1. PipelineInit => PipelineInv
  BY PipelineStart
<1>2. ASSUME PipelineInv, DedupeDone PROVE PipelineInv'
  <2>1. /\ stage = "dedupe" /\ stage' = "correlate"
        /\ UNCHANGED <<vars, endpoints, correlations, incidents, triages, investigations>>
    BY <1>2 DEF DedupeDone
  <2>2. DedupeInv' /\ given' = given /\ pass' = pass
    BY <1>2, <2>1, QuietKeeps
  <2> QED
    BY <1>2, <2>1, <2>2 DEF PipelineInv, StageInv, Deduplicating
<1>3. ASSUME PipelineInv, UNCHANGED pipelineVars PROVE PipelineInv'
  <2>1. UNCHANGED vars /\ UNCHANGED stages
    BY <1>3 DEF pipelineVars
  <2>2. DedupeInv' /\ given' = given /\ pass' = pass
    BY <1>3, <2>1, QuietKeeps
  <2>3. SomeUnbound' <=> SomeUnbound
    BY <2>1, UnboundKept DEF stages
  <2> QED
    BY <1>3, <2>1, <2>2, <2>3 DEF PipelineInv, StageInv, Deduplicating, stages
<1>4. PipelineInv /\ [PipelineNext]_pipelineVars => PipelineInv'
  BY <1>2, <1>3, LoopKeeps, CorrelateKeeps, CheckKeeps, SelectKeeps, TriageKeeps,
     InvestigateKeeps, ComposeKeeps DEF PipelineNext
<1> QED
  BY <1>1, <1>4, PTL DEF PipelineSpec

-----------------------------------------------------------------------------
(* What the invariant says of a run. *)

\* No list is without its stage: correlations are those of given or none yet.
LEMMA WhatIsHeld ==
  ASSUME PipelineInv
  PROVE  /\ Listed(given)
         /\ correlations = {} \/ correlations = FixedPolicies(given)
         /\ incidents = <<>> \/ incidents = Select(FixedPolicies(given), given)
<1>1. Listed(given)
  BY DEF PipelineInv, DedupeInv, Represented
<1>2. correlations = {} \/ correlations = FixedPolicies(given)
  BY DEF PipelineInv, StageInv
<1>3. incidents = <<>> \/ incidents = Select(FixedPolicies(given), given)
  BY DEF PipelineInv, StageInv, Deduplicating
<1> QED
  BY <1>1, <1>2, <1>3

LEMMA PipelineTypeFromInv == PipelineInv => PipelineTypeOK
<1>1. SUFFICES ASSUME PipelineInv PROVE PipelineTypeOK
  OBVIOUS
<1>2. DedupeTypeOK
  BY <1>1, TypeFromInv DEF PipelineInv
<1>3. ASSUME NEW c \in correlations
      PROVE  /\ c.id \in (AuthChain..ParentChild) \X Nat
             /\ c.members \subseteq Detection /\ c.refs \subseteq Id
             /\ c.start \in Time /\ c.end \in Time
  <2>1. Listed(given) /\ c \in FixedPolicies(given)
    BY <1>1, <1>3, WhatIsHeld
  <2>2. c.id \in (AuthChain..ParentChild) \X Nat /\ Sound(given, c)
    BY <2>1, PolicyFacts
  <2>3. c.start \in Time /\ c.end \in Time
    BY <2>1, <2>2, CorrelationTimes
  <2>4. c.members \subseteq Detection /\ c.refs = UNION {d.refs : d \in c.members}
    BY <2>1, <2>2 DEF Sound, Placed, Listed
  <2>5. c.refs \subseteq Id
    BY <2>4 DEF Detection
  <2> QED
    BY <2>2, <2>3, <2>4, <2>5
<1>4. incidents \in Seq(Incident)
  <2>1. CASE incidents = <<>>
    BY <2>1
  <2>2. CASE incidents = Select(FixedPolicies(given), given)
    <3>1. Listed(given)
      BY <1>1, WhatIsHeld
    <3>2. PICK n, m, ordered, rest :
            Selected(given, Select(FixedPolicies(given), given), n, m, ordered, rest)
      BY <3>1, SelectionShape
    <3> QED
      BY <2>2, <3>2 DEF Selected
  <2> QED
    BY <1>1, <2>1, <2>2, WhatIsHeld
<1>5. stage \in {"dedupe", "correlate", "revalidate", "select", "triage",
                 "investigate", "compose", "done", "failed"}
  BY <1>1 DEF PipelineInv, StageInv
<1>6. endpoints \in Handed
  BY <1>1 DEF PipelineInv, StageInv
<1> QED
  BY <1>2, <1>3, <1>4, <1>5, <1>6 DEF PipelineTypeOK

\* Every stage hands on what the next stage's declarations say: detections,
\* numbered correlations over known references, and a sequence of incidents.
THEOREM PipelineTypeCorrect == PipelineSpec => []PipelineTypeOK
BY PipelineInvariant, PipelineTypeFromInv, PTL

\* The references of a correlation are the raw detections it stands for.
LEMMA RefsAreRaw ==
  ASSUME PipelineInv, NEW c \in correlations
  PROVE  /\ \A r \in RawOf(c) : r.id \in c.refs
         /\ \A n \in c.refs : \E r \in RawOf(c) : r.id = n
<1>1. c \in FixedPolicies(given) /\ Listed(given) /\ pass = "revalidate"
  BY DEF PipelineInv, StageInv, DedupeInv, Represented
<1>2. c.refs = UNION {d.refs : d \in c.members} /\ c.members \subseteq given
  BY <1>1, PolicyFacts DEF Sound, Placed
<1>3. {d.refs : d \in given} = {Episode(r) : r \in raw}
  BY <1>1 DEF PipelineInv, DedupeInv, RefsAreEpisodes
<1>4. ASSUME NEW n \in c.refs PROVE \E r \in RawOf(c) : r.id = n
  <2>1. PICK d \in c.members : n \in d.refs
    BY <1>2
  <2>2. PICK q \in raw : d.refs = Episode(q)
    BY <1>2, <1>3
  <2>3. PICK r \in raw : r.id = n
    BY <2>1, <2>2 DEF Episode
  <2> QED
    BY <2>1, <2>3 DEF RawOf
<1>5. \A r \in RawOf(c) : r.id \in c.refs
  BY <1>2 DEF RawOf
<1> QED
  BY <1>4, <1>5

\* No stage of the pipeline refuses what the one before it produced: the repeated
\* deduplication, the repeated correlation, the check of the selection and the
\* check of the bundle all accept, for any raw list.  The run stops for a
\* correlation whose events the caller did not hand over, and for nothing else.
THEOREM PipelineRefusesForEventsOnly == PipelineSpec => []RefusedForEventsOnly
<1> DEFINE missing(c) ==
             \E q, r \in RawOf(c) :
               /\ endpoints # NoEvents /\ EventAt[q.id] # NotInput
               /\ EventAt[r.id] = NotInput \/ EventAt[r.id] >= endpoints
<1>1. ASSUME PipelineInv, NEW c \in correlations
      PROVE  Unbound(c.refs) <=> missing(c)
  <2>1. /\ \A r \in RawOf(c) : r.id \in c.refs
        /\ \A n \in c.refs : \E r \in RawOf(c) : r.id = n
    BY <1>1, RefsAreRaw
  <2> QED
    BY <2>1 DEF Unbound
<1>2. PipelineInv => RefusedForEventsOnly
  <2>1. SUFFICES ASSUME PipelineInv PROVE RefusedForEventsOnly
    OBVIOUS
  <2>2. SomeUnbound <=> \E c \in correlations : missing(c)
    BY <1>1, <2>1 DEF SomeUnbound
  <2>3. /\ stage = "failed" => SomeUnbound
        /\ stage \in {"compose", "done"} => ~SomeUnbound
    BY <2>1 DEF PipelineInv, StageInv
  <2> QED
    BY <2>2, <2>3 DEF RefusedForEventsOnly
<1> QED
  BY <1>2, PipelineInvariant, PTL

\* The window of every correlation runs from the first to the last detection it
\* names, in each of the three ways the policies compute it.
THEOREM WindowsSpan == PipelineSpec => []WindowSpansMembers
<1>1. PipelineInv => WindowSpansMembers
  <2>1. SUFFICES ASSUME PipelineInv, NEW c \in correlations
                 PROVE  /\ c.start = Min(Starts(c.members))
                        /\ c.end = Max(Starts(c.members))
    BY DEF WindowSpansMembers
  <2>2. Listed(given) /\ c \in FixedPolicies(given)
    BY <2>1, WhatIsHeld
  <2> QED
    BY <2>2, PolicyFacts DEF Sound
<1> QED
  BY <1>1, PipelineInvariant, PTL

\* A login of given with a failure before it and a key change after it is a hit.
LEMMA HitHolds ==
  ASSUME NEW ds, Listed(ds), NEW f \in ds, NEW s \in ds, NEW k \in ds,
         Timed(f), Timed(s), Timed(k),
         f.key.artifact = "ssh_failed_login", s.key.artifact = "ssh_success_login",
         k.key.artifact = "authorized_keys_modification",
         <<f.key.host, f.key.user, f.key.src>> = <<s.key.host, s.key.user, s.key.src>>,
         k.key.host = s.key.host,
         Gap(f, s) \in 0..AuthWindow, Gap(s, k) \in 0..PersistenceWindow
  PROVE  \E r \in AuthThenKeys(ds) : {f, s, k} \subseteq r.members
<1>1. FirstTs(f) \in Nat /\ FirstTs(s) \in Nat /\ FirstTs(k) \in Nat
  BY TimedInstant DEF Listed
<1>2. Follows(f, s, AuthWindow) /\ Follows(s, k, PersistenceWindow)
  BY <1>1, PipelineAssumption DEF Follows, Gap
<1>3. f \in FailedBefore(ds, s)
  BY <1>2 DEF FailedBefore, With, SameAccount, SameHost
<1>4. k \in KeysAfter(ds, s)
  BY <1>2 DEF KeysAfter, With, SameHost
<1>5. s \in With(ds, "ssh_success_login")
  BY DEF With
<1> DEFINE r == Found(<<s>>, FailedBefore(ds, s) \cup {s} \cup KeysAfter(ds, s),
                      Min(Starts(FailedBefore(ds, s))), Max(Starts(KeysAfter(ds, s))))
<1>6. r \in AuthThenKeys(ds)
  BY <1>3, <1>4, <1>5 DEF AuthThenKeys
<1>7. {f, s, k} \subseteq r.members
  BY <1>3, <1>4 DEF Found
<1> QED
  BY <1>6, <1>7

\* A login with a process after it, on its account and in the window, is a hit.
LEMMA ExecHolds ==
  ASSUME NEW ds, Listed(ds), NEW l \in ds, NEW x \in ds, Timed(l), Timed(x),
         l.key.artifact = "ssh_key_login", x.key.artifact = "process_exec",
         <<l.key.host, l.key.user>> = <<x.key.host, x.key.user>>,
         Gap(l, x) \in 0..ExecutionWindow
  PROVE  \E r \in KeyLoginThenExec(ds) : {l, x} \subseteq r.members
<1>1. FirstTs(l) \in Nat /\ FirstTs(x) \in Nat
  BY TimedInstant DEF Listed
<1>2. Follows(l, x, ExecutionWindow)
  BY <1>1, PipelineAssumption DEF Follows, Gap
<1>3. l \in LoginsBefore(ds, x) /\ x \in With(ds, "process_exec")
  BY <1>2 DEF LoginsBefore, With, SameAccount, SameHost
<1> DEFINE r == Found(<<x>>, LoginsBefore(ds, x) \cup {x}, Min(Starts(LoginsBefore(ds, x))), FirstTs(x))
<1>4. r \in KeyLoginThenExec(ds)
  BY <1>3 DEF KeyLoginThenExec
<1>5. {l, x} \subseteq r.members
  BY <1>3 DEF Found
<1> QED
  BY <1>4, <1>5

\* So is an encoded command, the observation of its process and that of a parent.
LEMMA ParentHolds ==
  ASSUME NEW ds, Listed(ds), NEW p \in ds, NEW x \in ds, NEW e \in ds,
         Timed(p), Timed(x), Timed(e),
         p.key.artifact = "powershell_process_observed",
         x.key.artifact = "powershell_process_observed",
         e.key.artifact = "encoded_command_observed",
         x.key.proc = e.key.proc, FirstTs(x) = FirstTs(e),
         p.key.proc.event # x.key.proc.event, p.key.proc.pid = x.key.proc.ppid,
         <<x.key.host, x.key.user>> = <<e.key.host, e.key.user>>,
         <<p.key.host, p.key.user>> = <<x.key.host, x.key.user>>,
         Gap(p, e) \in 0..ParentWindow
  PROVE  \E r \in PowershellParentChild(ds) : {p, x, e} \subseteq r.members
<1>1. FirstTs(p) \in Nat /\ FirstTs(x) \in Nat
  BY TimedInstant DEF Listed
<1>2. Follows(p, x, ParentWindow)
  BY <1>1, PipelineAssumption DEF Follows, Gap
<1>3. SameProcess(x, e) /\ IsParent(p, x)
  BY <1>2 DEF SameProcess, IsParent, SameAccount, SameHost
<1> DEFINE seen == With(ds, "powershell_process_observed")
           h == <<e, x, p>>
           r == Found(h, {h[1], h[2], h[3]}, FirstTs(h[3]), FirstTs(h[2]))
<1>4. h \in With(ds, "encoded_command_observed") \X seen \X seen
  BY DEF With
<1>5. Timed(h[1]) /\ SameProcess(h[2], h[1]) /\ IsParent(h[3], h[2])
  BY <1>3
<1>6. r \in PowershellParentChild(ds)
  BY <1>4, <1>5 DEF PowershellParentChild
<1>7. {p, x, e} \subseteq r.members
  BY DEF Found
<1> QED
  BY <1>6, <1>7

\* Every chain in the deduplicated list is held by a correlation, for each of the
\* three policies, ends of the windows included.
THEOREM EveryChainFound == PipelineSpec => []ChainsFound
<1> DEFINE timed == {d \in given : Timed(d)}
           held(chain) == \E c \in correlations : chain \subseteq c.members
<1>1. ASSUME PipelineInv, stage \in {"select", "triage", "investigate", "compose", "done"}
      PROVE  /\ Listed(given)
             /\ \A chain :
                  (\E r \in AuthThenKeys(given) \cup KeyLoginThenExec(given)
                             \cup PowershellParentChild(given) : chain \subseteq r.members)
                  => held(chain)
  <2>1. Listed(given) /\ correlations = FixedPolicies(given)
    BY <1>1 DEF PipelineInv, StageInv, Deduplicating, DedupeInv, Represented
  <2> QED
    BY <2>1, PolicyFacts
<1>2. PipelineInv => ChainsFound
  <2>1. SUFFICES ASSUME PipelineInv,
                        stage \in {"select", "triage", "investigate", "compose", "done"}
                 PROVE  ChainsFound
    BY DEF ChainsFound
  <2>2. ASSUME NEW f \in With(timed, "ssh_failed_login"), NEW s \in With(timed, "ssh_success_login"),
               NEW k \in With(timed, "authorized_keys_modification"),
               <<f.key.host, f.key.user, f.key.src>> = <<s.key.host, s.key.user, s.key.src>>,
               k.key.host = s.key.host,
               Gap(f, s) \in 0..AuthWindow, Gap(s, k) \in 0..PersistenceWindow
        PROVE  held({f, s, k})
    <3>1. /\ f \in given /\ s \in given /\ k \in given /\ Timed(f) /\ Timed(s) /\ Timed(k)
          /\ f.key.artifact = "ssh_failed_login" /\ s.key.artifact = "ssh_success_login"
          /\ k.key.artifact = "authorized_keys_modification"
      BY DEF With
    <3>2. \E r \in AuthThenKeys(given) : {f, s, k} \subseteq r.members
      BY <1>1, <2>1, <2>2, <3>1, HitHolds
    <3> QED
      BY <1>1, <2>1, <3>2
  <2>3. ASSUME NEW l \in With(timed, "ssh_key_login"), NEW x \in With(timed, "process_exec"),
               <<l.key.host, l.key.user>> = <<x.key.host, x.key.user>>,
               Gap(l, x) \in 0..ExecutionWindow
        PROVE  held({l, x})
    <3>1. /\ l \in given /\ x \in given /\ Timed(l) /\ Timed(x)
          /\ l.key.artifact = "ssh_key_login" /\ x.key.artifact = "process_exec"
      BY DEF With
    <3>2. \E r \in KeyLoginThenExec(given) : {l, x} \subseteq r.members
      BY <1>1, <2>1, <2>3, <3>1, ExecHolds
    <3> QED
      BY <1>1, <2>1, <3>2
  <2>4. ASSUME NEW p \in With(timed, "powershell_process_observed"),
               NEW x \in With(timed, "powershell_process_observed"),
               NEW e \in With(timed, "encoded_command_observed"),
               x.key.proc = e.key.proc, FirstTs(x) = FirstTs(e),
               p.key.proc.event # x.key.proc.event, p.key.proc.pid = x.key.proc.ppid,
               <<x.key.host, x.key.user>> = <<e.key.host, e.key.user>>,
               <<p.key.host, p.key.user>> = <<x.key.host, x.key.user>>,
               Gap(p, e) \in 0..ParentWindow
        PROVE  held({p, x, e})
    <3>1. /\ p \in given /\ x \in given /\ e \in given /\ Timed(p) /\ Timed(x) /\ Timed(e)
          /\ p.key.artifact = "powershell_process_observed"
          /\ x.key.artifact = "powershell_process_observed"
          /\ e.key.artifact = "encoded_command_observed"
      BY DEF With
    <3>2. \E r \in PowershellParentChild(given) : {p, x, e} \subseteq r.members
      BY <1>1, <2>1, <2>4, <3>1, ParentHolds
    <3> QED
      BY <1>1, <2>1, <3>2
  <2> HIDE DEF held, timed
  <2> QED
    BY <2>2, <2>3, <2>4 DEF ChainsFound, held, timed
<1> QED
  BY <1>2, PipelineInvariant, PTL

\* Every detection a correlation names stands for a raw one with its fields, at
\* its instant.
LEMMA RawStandsFor ==
  ASSUME PipelineInv, NEW c \in correlations, NEW d \in c.members
  PROVE  \E r \in RawOf(c) : Timed(r) /\ r.key = d.key /\ FirstTs(r) = FirstTs(d)
<1>1. Listed(given) /\ c \in FixedPolicies(given)
  BY WhatIsHeld
<1>2. d \in given /\ Timed(d)
  BY <1>1, PolicyFacts DEF Sound, Placed
<1>3. PICK r \in raw : r.id \in d.refs /\ r.key = d.key /\ FirstTs(d) = FirstTs(r)
  BY <1>2 DEF PipelineInv, DedupeInv, Represented
<1> QED
  BY <1>2, <1>3 DEF RawOf, Timed

LEMMA AuthLifted ==
  ASSUME PipelineInv, NEW c \in correlations, AuthAmong(c.members)
  PROVE  AuthAmong({r \in RawOf(c) : Timed(r)})
<1> DEFINE timed == {r \in RawOf(c) : Timed(r)}
<1>1. PICK f \in c.members, s \in c.members, k \in c.members :
        /\ f.key.artifact = "ssh_failed_login" /\ s.key.artifact = "ssh_success_login"
        /\ k.key.artifact = "authorized_keys_modification"
        /\ <<f.key.host, f.key.user, f.key.src>> = <<s.key.host, s.key.user, s.key.src>>
        /\ k.key.host = s.key.host
        /\ Gap(f, s) \in 0..AuthWindow /\ Gap(s, k) \in 0..PersistenceWindow
  BY DEF AuthAmong
<1>2. PICK q \in timed : q.key = f.key /\ FirstTs(q) = FirstTs(f)
  BY RawStandsFor
<1>3. PICK r \in timed : r.key = s.key /\ FirstTs(r) = FirstTs(s)
  BY RawStandsFor
<1>4. PICK t \in timed : t.key = k.key /\ FirstTs(t) = FirstTs(k)
  BY RawStandsFor
<1>5. Gap(q, r) = Gap(f, s) /\ Gap(r, t) = Gap(s, k)
  BY <1>2, <1>3, <1>4 DEF Gap
<1> HIDE DEF timed
<1>6. AuthAmong(timed)
  BY <1>1, <1>2, <1>3, <1>4, <1>5 DEF AuthAmong
<1> QED
  BY <1>6 DEF timed

LEMMA ExecLifted ==
  ASSUME PipelineInv, NEW c \in correlations, ExecAmong(c.members)
  PROVE  ExecAmong({r \in RawOf(c) : Timed(r)})
<1> DEFINE timed == {r \in RawOf(c) : Timed(r)}
<1>1. PICK l \in c.members, x \in c.members :
        /\ l.key.artifact = "ssh_key_login" /\ x.key.artifact = "process_exec"
        /\ <<l.key.host, l.key.user>> = <<x.key.host, x.key.user>>
        /\ Gap(l, x) \in 0..ExecutionWindow
  BY DEF ExecAmong
<1>2. PICK q \in timed : q.key = l.key /\ FirstTs(q) = FirstTs(l)
  BY RawStandsFor
<1>3. PICK r \in timed : r.key = x.key /\ FirstTs(r) = FirstTs(x)
  BY RawStandsFor
<1>4. Gap(q, r) = Gap(l, x)
  BY <1>2, <1>3 DEF Gap
<1> HIDE DEF timed
<1>5. ExecAmong(timed)
  BY <1>1, <1>2, <1>3, <1>4 DEF ExecAmong
<1> QED
  BY <1>5 DEF timed

LEMMA ParentLifted ==
  ASSUME PipelineInv, NEW c \in correlations, ParentAmong(c.members)
  PROVE  ParentAmong({r \in RawOf(c) : Timed(r)})
<1> DEFINE timed == {r \in RawOf(c) : Timed(r)}
<1>1. PICK p \in c.members, x \in c.members, e \in c.members :
        /\ e.key.artifact = "encoded_command_observed"
        /\ x.key.proc = e.key.proc /\ FirstTs(x) = FirstTs(e)
        /\ p.key.proc.pid = e.key.proc.ppid
        /\ p.key.proc.event # x.key.proc.event
        /\ <<p.key.host, p.key.user>> = <<e.key.host, e.key.user>>
        /\ <<x.key.host, x.key.user>> = <<e.key.host, e.key.user>>
        /\ Gap(p, e) \in 0..ParentWindow
  BY DEF ParentAmong
<1>2. PICK q \in timed : q.key = p.key /\ FirstTs(q) = FirstTs(p)
  BY RawStandsFor
<1>3. PICK r \in timed : r.key = x.key /\ FirstTs(r) = FirstTs(x)
  BY RawStandsFor
<1>4. PICK t \in timed : t.key = e.key /\ FirstTs(t) = FirstTs(e)
  BY RawStandsFor
<1>5. Gap(q, t) = Gap(p, e) /\ FirstTs(r) = FirstTs(t)
  BY <1>1, <1>2, <1>3, <1>4 DEF Gap
<1> HIDE DEF timed
<1>6. ParentAmong(timed)
  BY <1>1, <1>2, <1>3, <1>4, <1>5 DEF ParentAmong
<1> QED
  BY <1>6 DEF timed

\* Every correlation stands for a chain of raw detections on the policy's hosts
\* and accounts and inside its windows: merging invents none.
THEOREM ChainsStandForRaw == PipelineSpec => []ChainsAreReal
<1>1. PipelineInv => ChainsAreReal
  <2>1. SUFFICES
          ASSUME PipelineInv, NEW c \in correlations
          PROVE  /\ c.id[1] = AuthChain => AuthAmong({r \in RawOf(c) : Timed(r)})
                 /\ c.id[1] = KeyExec => ExecAmong({r \in RawOf(c) : Timed(r)})
                 /\ c.id[1] # AuthChain /\ c.id[1] # KeyExec =>
                      ParentAmong({r \in RawOf(c) : Timed(r)})
    BY DEF ChainsAreReal, AuthAmong, ExecAmong, ParentAmong, AuthChain, KeyExec
  <2>2. Listed(given) /\ c \in FixedPolicies(given)
    BY <2>1, WhatIsHeld
  <2>3. Chained(c) /\ c.id \in (AuthChain..ParentChild) \X Nat
    BY <2>2, PolicyFacts
  <2>4. c.id[1] # AuthChain /\ c.id[1] # KeyExec => c.id[1] = ParentChild
    BY <2>3 DEF AuthChain, KeyExec, ParentChild
  <2> QED
    BY <2>1, <2>3, <2>4, AuthLifted, ExecLifted, ParentLifted DEF Chained
<1> QED
  BY <1>1, PipelineInvariant, PTL

\* Where an item of given is reported: in correlations, or in one observation.
LEMMA ItemReported ==
  ASSUME NEW ds, Listed(ds), NEW incs, NEW n, NEW m, NEW ordered, NEW rest,
         Selected(ds, incs, n, m, ordered, rest), NEW d \in ds
  PROVE  Cardinality({i \in DOMAIN incs : incs[i].id[1] \in {Observed} /\ d \in incs[i].members})
           = IF {i \in DOMAIN incs : /\ incs[i].id[1] \in {AuthChain, KeyExec, ParentChild}
                                     /\ d \in incs[i].members} = {}
             THEN 1 ELSE 0
<1> DEFINE C == Covered(FixedPolicies(ds))
           O == {i \in DOMAIN incs : incs[i].id[1] \in {Observed} /\ d \in incs[i].members}
           F == {i \in DOMAIN incs : /\ incs[i].id[1] \in {AuthChain, KeyExec, ParentChild}
                                     /\ d \in incs[i].members}
<1>1. /\ O # {} <=> d \in ds \ C
      /\ F # {} <=> d \in C
  BY SelectionMembers
<1>2. ASSUME NEW i \in O, NEW j \in O PROVE i = j
  <2>1. /\ i \in DOMAIN incs /\ incs[i].id[1] = Observed /\ d \in incs[i].members
        /\ j \in DOMAIN incs /\ incs[j].id[1] = Observed /\ d \in incs[j].members
    OBVIOUS
  <2>2. PICK k \in 1..m : i = n + k /\ incs[i].members = {rest[k]}
    BY <2>1, SelectionPlaces
  <2>3. PICK l \in 1..m : j = n + l /\ incs[j].members = {rest[l]}
    BY <2>1, SelectionPlaces
  <2>4. rest[k] = rest[l]
    BY <2>1, <2>2, <2>3
  <2>5. \A x, y \in 1..m : rest[x] = rest[y] => x = y
    BY DEF Selected, Enumerates
  <2> QED
    BY <2>2, <2>3, <2>4, <2>5
<1> HIDE DEF O, F, C
<1>3. CASE d \in C
  <2>1. O = {} /\ F # {}
    BY <1>1, <1>3
  <2> QED
    BY <2>1, FS_EmptySet DEF O, F
<1>4. CASE d \notin C
  <2>1. F = {} /\ \E i : O = {i}
    BY <1>1, <1>2, <1>4
  <2>2. Cardinality(O) = 1
    BY <2>1, FS_Singleton
  <2> QED
    BY <2>1, <2>2 DEF O, F
<1> QED
  BY <1>3, <1>4

\* A finished run reports every raw detection: in correlation incidents, or in
\* exactly one observation incident, and never in both.
THEOREM EveryDetectionReported == PipelineSpec => []ReportedOnce
<1>1. PipelineInv => ReportedOnce
  <2> DEFINE holders(x, S) == {i \in DOMAIN incidents :
                                 incidents[i].id[1] \in S /\ \E d \in incidents[i].members : x.id \in d.refs}
  <2>1. SUFFICES
          ASSUME PipelineInv, stage = "done", NEW r \in raw
          PROVE  Cardinality(holders(r, {Observed})) =
                   IF holders(r, {AuthChain, KeyExec, ParentChild}) = {} THEN 1 ELSE 0
    BY DEF ReportedOnce
  <2>2. Listed(given) /\ incidents = Select(FixedPolicies(given), given)
    BY <2>1 DEF PipelineInv, StageInv, Deduplicating, DedupeInv, Represented
  <2>3. PICK n, m, ordered, rest : Selected(given, incidents, n, m, ordered, rest)
    BY <2>2, SelectionShape
  <2>4. PICK g \in given : r.id \in g.refs
    BY <2>1 DEF PipelineInv, DedupeInv, Represented
  <2>5. \A d \in given : r.id \in d.refs => d = g
    BY <2>2, <2>4 DEF Listed
  <2>6. \A i \in DOMAIN incidents : \A d \in incidents[i].members : d \in given
    <3>1. SUFFICES ASSUME NEW i \in DOMAIN incidents, NEW d \in incidents[i].members
                   PROVE  d \in given
      OBVIOUS
    <3>2. \/ incidents[i].id[1] \in {Observed}
          \/ incidents[i].id[1] \in {AuthChain, KeyExec, ParentChild}
      <4>1. \/ incidents[i].id[1] \in {AuthChain, KeyExec, ParentChild}
            \/ \E k \in 1..m : incidents[i].id = <<Observed, k>>
        BY <2>2, <2>3, <3>1, SelectionPlaces
      <4> QED
        BY <4>1
    <3>3. d \in given \ Covered(FixedPolicies(given)) \/ d \in Covered(FixedPolicies(given))
      BY <2>2, <2>3, <3>1, <3>2, SelectionMembers
    <3> QED
      BY <2>2, <3>3, CoveredListed
  <2>7. \A i \in DOMAIN incidents :
          (\E d \in incidents[i].members : r.id \in d.refs) <=> g \in incidents[i].members
    BY <2>4, <2>5, <2>6
  <2>8. \A S : holders(r, S) =
                 {i \in DOMAIN incidents : incidents[i].id[1] \in S /\ g \in incidents[i].members}
    BY <2>7
  <2> HIDE DEF holders
  <2> QED
    BY <2>2, <2>3, <2>8, ItemReported
<1> QED
  BY <1>1, PipelineInvariant, PTL
=============================================================================
