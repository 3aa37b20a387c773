------------------------ MODULE AuditdAssemblyProofs ------------------------
(***************************************************************************)
(* Proofs about AuditdAssembly, for any system calls the kernel may audit  *)
(* together, any names of ssh files and any number of repeated lines.  The *)
(* lines of a group are the lines of one call, each record once, so what a *)
(* group says is what its call did.                                        *)
(***************************************************************************)
EXTENDS AuditdAssembly, FiniteSetTheorems, WellFoundedInduction, TLAPS

-----------------------------------------------------------------------------
(* The log. *)

LogOK == calls \in Worlds /\ log \in Seq(UNION {RecordsOf(call) : call \in calls})

\* The lines of one call that are kept.
LinesOf(call) == {n \in Kept : log[n].call = call}

\* A nonempty set of places has a first one.
LEMMA LeastExists ==
  ASSUME NEW S \in SUBSET Nat, S # {}
  PROVE  \E n \in S : \A m \in S : n <= m
<1>1. PICK n \in S : \A m \in S : ~ (<<m, n>> \in OpToRel(<, Nat))
  BY NatLessThanWellFounded, WFMin
<1>2. \A m \in S : ~ (m < n)
  BY <1>1 DEF OpToRel
<1> QED
  BY <1>2

LEMMA RecordParts ==
  ASSUME NEW call, NEW record \in RecordsOf(call)
  PROVE  /\ record.call = call /\ record.type \in {"SYSCALL", "PROCTITLE", "PATH", "EXECVE"}
         /\ record.type = "PATH" => record.path \in call.paths
         /\ record.type = "EXECVE" => call.name = "execve"
BY DEF RecordsOf, Record

LEMMA LineOfCall ==
  ASSUME LogOK, NEW n \in DOMAIN log
  PROVE  n \in Nat \ {0} /\ \E call \in calls : log[n] \in RecordsOf(call) /\ log[n].call = call
<1>1. log[n] \in UNION {RecordsOf(call) : call \in calls} /\ n \in Nat \ {0}
  BY DEF LogOK
<1>2. PICK call \in calls : log[n] \in RecordsOf(call)
  BY <1>1
<1> QED
  BY <1>1, <1>2, RecordParts

\* A group is the lines of one call; a call with a kept line has a group.
LEMMA GroupIsACall ==
  ASSUME LogOK, NEW group \in Groups
  PROVE  \E call \in calls : group = LinesOf(call) /\ group # {}
<1>1. PICK n \in Kept : group = {m \in Kept : GroupKey(log[m]) = GroupKey(log[n])}
  BY DEF Groups
<1>2. \A m \in Kept : m \in DOMAIN log
  BY DEF Kept
<1>3. PICK call \in calls : log[n].call = call
  BY <1>2, LineOfCall
<1>4. ASSUME NEW m \in Kept
      PROVE  GroupKey(log[m]) = GroupKey(log[n]) <=> log[m].call = call
  <2>1. PICK other \in calls : log[m].call = other
    BY <1>2, LineOfCall
  <2>2. <<other.host, other.epoch, other.serial>> = <<call.host, call.epoch, call.serial>>
          => other = call
    BY AssemblyAssumption DEF LogOK
  <2> QED
    BY <1>3, <2>1, <2>2 DEF GroupKey
<1> QED
  BY <1>1, <1>3, <1>4 DEF LinesOf

LEMMA CallIsAGroup ==
  ASSUME LogOK, NEW call \in calls, LinesOf(call) # {}
  PROVE  LinesOf(call) \in Groups
<1>1. PICK n \in Kept : log[n].call = call
  BY DEF LinesOf
<1>2. \A m \in Kept : m \in DOMAIN log
  BY DEF Kept
<1>3. ASSUME NEW m \in Kept
      PROVE  GroupKey(log[m]) = GroupKey(log[n]) <=> log[m].call = call
  <2>1. PICK other \in calls : log[m].call = other
    BY <1>2, LineOfCall
  <2>2. <<other.host, other.epoch, other.serial>> = <<call.host, call.epoch, call.serial>>
          => other = call
    BY AssemblyAssumption DEF LogOK
  <2> QED
    BY <1>1, <2>1, <2>2 DEF GroupKey
<1>4. LinesOf(call) = {m \in Kept : GroupKey(log[m]) = GroupKey(log[n])}
  BY <1>3 DEF LinesOf
<1> QED
  BY <1>4 DEF Groups

\* The first line of a set of lines is one of them.
LEMMA FirstIsOne ==
  ASSUME LogOK, NEW S \in SUBSET DOMAIN log, S # {}
  PROVE  \E n \in S : FirstLine(S) = log[n]
<1>1. S \in SUBSET Nat
  BY LineOfCall
<1>2. \E n \in S : \A m \in S : n <= m
  BY <1>1, LeastExists
<1> QED
  BY <1>2 DEF FirstLine

\* Every record that has arrived has a line that is kept.
LEMMA ArrivedIsKept ==
  ASSUME LogOK, NEW record \in Arrived
  PROVE  \E n \in Kept : log[n] = record
<1> DEFINE S == {n \in DOMAIN log : log[n] = record}
<1>1. S \in SUBSET Nat /\ S # {}
  BY LineOfCall DEF Arrived
<1>2. PICK n \in S : \A m \in S : n <= m
  BY <1>1, LeastExists
<1>3. ASSUME NEW m \in 1..(n - 1) PROVE log[m] # log[n]
  <2>1. n \in Nat /\ m \in DOMAIN log /\ m \in Nat /\ ~(n <= m)
    BY <1>1, <1>2 DEF LogOK
  <2>2. m \notin S
    BY <1>2, <2>1
  <2> QED
    BY <1>2, <2>1, <2>2
<1> QED
  BY <1>2, <1>3 DEF Kept

\* Two kept lines tell different records.
LEMMA KeptDiffer ==
  ASSUME LogOK, NEW n \in Kept, NEW m \in Kept, log[n] = log[m]
  PROVE  n = m
<1>1. n \in Nat \ {0} /\ m \in Nat \ {0}
  BY LineOfCall DEF Kept
<1>2. ~(n < m) /\ ~(m < n)
  BY <1>1 DEF Kept
<1> QED
  BY <1>1, <1>2

LEMMA RecordsFinite ==
  ASSUME LogOK, NEW call \in calls
  PROVE  IsFiniteSet(RecordsOf(call))
<1> DEFINE P == call.paths
           R == {Record(call, "PATH", path) : path \in P}
           f == [path \in P |-> Record(call, "PATH", path)]
           A == {Record(call, "SYSCALL", None), Record(call, "PROCTITLE", None),
                 Record(call, "EXECVE", None)}
<1>1. IsFiniteSet(P)
  BY AssemblyAssumption DEF LogOK
<1>2. f \in Surjection(P, R)
  BY DEF Surjection
<1> HIDE DEF f
<1>3. IsFiniteSet(R)
  BY <1>1, <1>2, FS_Surjection
<1>4. IsFiniteSet(A)
  <2>1. IsFiniteSet({Record(call, "SYSCALL", None)})
    BY FS_Singleton
  <2>2. IsFiniteSet({Record(call, "SYSCALL", None)} \cup {Record(call, "PROCTITLE", None)})
    BY <2>1, FS_AddElement
  <2>3. IsFiniteSet({Record(call, "SYSCALL", None)} \cup {Record(call, "PROCTITLE", None)}
                      \cup {Record(call, "EXECVE", None)})
    BY <2>2, FS_AddElement
  <2>4. A = {Record(call, "SYSCALL", None)} \cup {Record(call, "PROCTITLE", None)}
              \cup {Record(call, "EXECVE", None)}
    OBVIOUS
  <2> QED
    BY <2>3, <2>4
<1>5. IsFiniteSet(A \cup R)
  BY <1>3, <1>4, FS_Union
<1>6. RecordsOf(call) \subseteq A \cup R
  BY DEF RecordsOf
<1> QED
  BY <1>5, <1>6, FS_Subset

\* A call has at most one kept line for each of its records, and one for each when
\* all have arrived.
LEMMA LinesCounted ==
  ASSUME LogOK, NEW call \in calls
  PROVE  /\ IsFiniteSet(LinesOf(call)) /\ IsFiniteSet(RecordsOf(call))
         /\ Cardinality(LinesOf(call)) <= Cardinality(RecordsOf(call))
         /\ RecordsOf(call) \subseteq Arrived =>
              Cardinality(LinesOf(call)) = Cardinality(RecordsOf(call))
<1> DEFINE f == [n \in LinesOf(call) |-> log[n]]
<1>1. IsFiniteSet(RecordsOf(call))
  BY RecordsFinite
<1>2. \A n \in LinesOf(call) : n \in Kept /\ n \in DOMAIN log /\ log[n] \in RecordsOf(call)
  <2>1. SUFFICES ASSUME NEW n \in LinesOf(call)
                 PROVE  n \in Kept /\ n \in DOMAIN log /\ log[n] \in RecordsOf(call)
    OBVIOUS
  <2>2. n \in Kept /\ n \in DOMAIN log /\ log[n].call = call
    BY DEF LinesOf, Kept
  <2> QED
    BY <2>2, LineOfCall
<1>3. f \in [LinesOf(call) -> RecordsOf(call)]
  BY <1>2
<1>4. \A n, m \in LinesOf(call) : f[n] = f[m] => n = m
  BY <1>2, KeptDiffer
<1>5. f \in Injection(LinesOf(call), RecordsOf(call))
  BY <1>3, <1>4 DEF Injection, IsInjective
<1>6. RecordsOf(call) \subseteq Arrived => f \in Surjection(LinesOf(call), RecordsOf(call))
  <2>1. SUFFICES ASSUME RecordsOf(call) \subseteq Arrived, NEW record \in RecordsOf(call)
                 PROVE  \E n \in LinesOf(call) : f[n] = record
    BY <1>3 DEF Surjection
  <2>2. PICK n \in Kept : log[n] = record
    BY <2>1, ArrivedIsKept
  <2>3. n \in LinesOf(call)
    BY <2>1, <2>2, RecordParts DEF LinesOf
  <2> QED
    BY <2>2, <2>3
<1> HIDE DEF f
<1> QED
  BY <1>1, <1>5, <1>6, FS_Injection

-----------------------------------------------------------------------------
(* What a group says. *)

Identified(e, call) == e.host = call.host /\ e.epoch = call.epoch /\ e.serial = call.serial

\* An event that claims nothing its call did not do.
Sound(e, call) ==
  /\ Identified(e, call)
  /\ EndpointType(e.type) \in EndpointTypes
  /\ EndpointType(e.type) \in {"unknown", ContractType(call), Overtold(call)}
  /\ e.path \in {p.name : p \in call.paths} \cup {None}
  /\ e.records \in Nat \ {0} /\ e.records <= Cardinality(RecordsOf(call))
  /\ e.argv => call.name = "execve"

\* An event that tells what its call did.
Whole(e, call) ==
  /\ Identified(e, call)
  /\ e.records = Cardinality(RecordsOf(call))
  /\ Overtold(call) = None /\ ~Untold(call) =>
       /\ EndpointType(e.type) = ContractType(call)
       /\ EndpointType(e.type) \in {"file_write", "persistence_file_change"}
            /\ Effect(call) # "removed" => e.path = call.target
       /\ EndpointType(e.type) = "process_exec" => e.argv

\* A chosen path is one of the paths.
LEMMA ChosenIsOne ==
  ASSUME LogOK, NEW lines \in SUBSET DOMAIN log, lines # {}
  PROVE  \E n \in lines : ChoosePath(lines) = log[n].path.name
<1> DEFINE named(nametype) == {n \in lines : log[n].path.nametype = nametype}
<1>1. /\ named("CREATE") # {} => ChoosePath(lines) = FirstLine(named("CREATE")).path.name
      /\ named("CREATE") = {} /\ named("NORMAL") # {} =>
           ChoosePath(lines) = FirstLine(named("NORMAL")).path.name
      /\ named("CREATE") = {} /\ named("NORMAL") = {} =>
           ChoosePath(lines) = FirstLine(lines).path.name
  BY DEF ChoosePath
<1>2. named("CREATE") \subseteq lines /\ named("NORMAL") \subseteq lines
  OBVIOUS
<1> HIDE DEF named
<1> QED
  BY <1>1, <1>2, FirstIsOne

\* What the parser takes for a change of a file.
Changed(call) == call.success /\ call.paths # {} /\ FileAction(call.name) # None

\* It is one; and each one is taken for one unless its name is not known.
LEMMA ChangedIsAChange ==
  ASSUME NEW call, call.success \in BOOLEAN, call.name \in CallNames,
         Changes(call) => call.paths # {}
  PROVE  Changed(call) <=> Changes(call) /\ ~Untold(call)
BY DEF Changed, Changes, Effect, FileAction, Untold, CallNames, None

\* The type that records of a call which say so much lead to.
LEMMA TypeIsSound ==
  ASSUME NEW call, call.success \in BOOLEAN, call.name \in CallNames,
         Changes(call) => call.paths # {},
         NEW changed \in BOOLEAN, NEW ssh \in BOOLEAN,
         changed => Changed(call), ssh => \E p \in call.paths : p.name \in SshNames,
         NEW type, type = InferEventType(call.key, call.name, changed, ssh)
  PROVE  /\ EndpointType(type) \in EndpointTypes
         /\ EndpointType(type) \in {"unknown", ContractType(call), Overtold(call)}
         /\ type \in {"file_write", "persistence_file_change"} => changed
         /\ (changed <=> Changed(call)) /\ (ssh <=> \E p \in call.paths : p.name \in SshNames)
              /\ Overtold(call) = None /\ ~Untold(call) =>
                EndpointType(type) = ContractType(call)
<1> DEFINE named == \E p \in call.paths : p.name \in SshNames
<1>1. Changed(call) <=> Changes(call) /\ ~Untold(call)
  BY ChangedIsAChange
<1>2. /\ Effect(call) = "ran" <=> call.success /\ call.name = "execve"
      /\ Changes(call) <=> Effect(call) \in {"content", "attributes", "moved", "removed"}
      /\ Effect(call) \in {"ran", "content", "attributes", "moved", "removed", None}
  BY DEF Effect, Changes, None, CallNames
<1>3. /\ EndpointType(type) \in EndpointTypes
      /\ type \in {"file_write", "persistence_file_change"} => changed
  BY DEF InferEventType, EndpointType, EndpointTypes
<1>4. CASE call.key = "isl_execve"
  <2>1. type = IF call.name = "execve" THEN "process_exec" ELSE "audit_event"
    BY <1>4 DEF InferEventType, LabKeys
  <2>2. ContractType(call) = IF Effect(call) = "ran" THEN "process_exec" ELSE "unknown"
    BY <1>4 DEF ContractType
  <2>3. call.name = "execve" /\ ~call.success => Overtold(call) = "process_exec"
    BY <1>4 DEF Overtold, Untold, LabKeys
  <2> QED
    BY <1>2, <1>3, <2>1, <2>2, <2>3 DEF EndpointType, None
<1>5. CASE call.key = "isl_tmp_marker"
  <2>1. type = IF changed THEN "file_write" ELSE "audit_event"
    BY <1>5 DEF InferEventType, LabKeys
  <2>2. ContractType(call) = CASE Effect(call) = "content" -> "file_write"
                               [] Effect(call) = "moved" -> "file_rename"
                               [] Effect(call) = "removed" -> "file_delete"
                               [] OTHER -> "unknown"
    BY <1>5 DEF ContractType
  <2>3. ~Untold(call) /\ Effect(call) \in {"attributes", "moved", "removed"} =>
          Overtold(call) = "file_write"
    BY <1>5 DEF Overtold
  <2> QED
    BY <1>1, <1>2, <1>3, <2>1, <2>2, <2>3 DEF EndpointType, None
<1>6. CASE call.key = "isl_ssh_persistence"
  <2>1. type = IF changed /\ ssh THEN "persistence_file_change" ELSE "audit_event"
    BY <1>6 DEF InferEventType, LabKeys
  <2>2. ContractType(call) = IF Changes(call) /\ named THEN "persistence_file_change"
                             ELSE "unknown"
    BY <1>6 DEF ContractType
  <2> QED
    BY <1>1, <1>3, <2>1, <2>2 DEF EndpointType
<1>7. CASE call.key \notin LabKeys
  <2>1. type = IF changed THEN "file_write" ELSE "audit_event"
    BY <1>7 DEF InferEventType, LabKeys
  <2>2. ContractType(call) = "unknown"
    BY <1>7 DEF ContractType, LabKeys
  <2>3. Changes(call) /\ ~Untold(call) => Overtold(call) = "file_write"
    BY <1>7 DEF Overtold, LabKeys
  <2> QED
    BY <1>1, <1>3, <2>1, <2>2, <2>3 DEF EndpointType, None
<1> QED
  BY <1>4, <1>5, <1>6, <1>7 DEF LabKeys

\* What the records of a group say of the call, of a changed file and of ssh paths.
SaidBy(group) ==
  IF OfType(group, "SYSCALL") = {} THEN [key |-> None, name |-> None, success |-> FALSE]
  ELSE FirstLine(OfType(group, "SYSCALL")).call
ChangedBy(group) ==
  SaidBy(group).success /\ OfType(group, "PATH") # {} /\ FileAction(SaidBy(group).name) # None
SshBy(group) == \E n \in OfType(group, "PATH") : log[n].path.name \in SshNames
TypeBy(group) ==
  InferEventType(SaidBy(group).key, SaidBy(group).name, ChangedBy(group), SshBy(group))

LEMMA NormalizedParts ==
  ASSUME NEW group
  PROVE  LET e == NormalizeEvent(group) IN
         /\ e.host = FirstLine(group).call.host /\ e.epoch = FirstLine(group).call.epoch
         /\ e.serial = FirstLine(group).call.serial
         /\ e.key = SaidBy(group).key /\ e.type = TypeBy(group)
         /\ e.path = IF TypeBy(group) \in {"file_write", "persistence_file_change"}
                     THEN ChoosePath(OfType(group, "PATH")) ELSE None
         /\ e.argv = (OfType(group, "EXECVE") # {})
         /\ e.records = Cardinality(group)
BY DEF NormalizeEvent, TypeBy, SshBy, ChangedBy, SaidBy

\* What the kept lines of a call are.
LEMMA LinesOfType ==
  ASSUME LogOK, NEW call \in calls, NEW type, NEW n \in OfType(LinesOf(call), type)
  PROVE  /\ n \in LinesOf(call) /\ n \in DOMAIN log /\ log[n] \in RecordsOf(call)
         /\ log[n].call = call /\ log[n].type = type
         /\ type = "PATH" => log[n].path \in call.paths
         /\ type = "EXECVE" => call.name = "execve"
<1>1. n \in LinesOf(call) /\ n \in DOMAIN log /\ log[n].call = call /\ log[n].type = type
  BY DEF OfType, LinesOf, Kept
<1>2. log[n] \in RecordsOf(call)
  BY <1>1, LineOfCall
<1> QED
  BY <1>1, <1>2, RecordParts

LEMMA SaidIsTheCall ==
  ASSUME LogOK, NEW call \in calls
  PROVE  /\ OfType(LinesOf(call), "SYSCALL") # {} => SaidBy(LinesOf(call)) = call
         /\ LinesOf(call) # {} => FirstLine(LinesOf(call)).call = call
<1>1. ASSUME OfType(LinesOf(call), "SYSCALL") # {} PROVE SaidBy(LinesOf(call)) = call
  <2> DEFINE S == OfType(LinesOf(call), "SYSCALL")
  <2>1. S \in SUBSET DOMAIN log
    BY LinesOfType
  <2>2. PICK n \in S : FirstLine(S) = log[n]
    BY <1>1, <2>1, FirstIsOne
  <2>3. log[n].call = call
    BY LinesOfType
  <2> QED
    BY <1>1, <2>2, <2>3 DEF SaidBy
<1>2. ASSUME LinesOf(call) # {} PROVE FirstLine(LinesOf(call)).call = call
  <2>1. LinesOf(call) \in SUBSET DOMAIN log
    BY DEF LinesOf, Kept
  <2>2. PICK n \in LinesOf(call) : FirstLine(LinesOf(call)) = log[n]
    BY <1>2, <2>1, FirstIsOne
  <2> QED
    BY <2>2 DEF LinesOf
<1> QED
  BY <1>1, <1>2

\* The type of a group, from whatever lines there are and from all of them.
LEMMA TypeOfLines ==
  ASSUME LogOK, NEW call \in calls, NEW group, group = LinesOf(call)
  PROVE  /\ EndpointType(TypeBy(group)) \in EndpointTypes
         /\ EndpointType(TypeBy(group)) \in {"unknown", ContractType(call), Overtold(call)}
         /\ TypeBy(group) \in {"file_write", "persistence_file_change"} =>
              ChangedBy(group) /\ Changed(call)
         /\ RecordsOf(call) \subseteq Arrived /\ Overtold(call) = None /\ ~Untold(call) =>
              EndpointType(TypeBy(group)) = ContractType(call)
         /\ RecordsOf(call) \subseteq Arrived => SaidBy(group) = call
<1>1. /\ call.success \in BOOLEAN /\ call.name \in CallNames
      /\ Changes(call) => call.paths # {}
  BY AssemblyAssumption DEF LogOK
<1>2. ASSUME RecordsOf(call) \subseteq Arrived, NEW record \in RecordsOf(call)
      PROVE  \E n \in OfType(group, record.type) : log[n] = record
  <2>1. PICK n \in Kept : log[n] = record
    BY <1>2, ArrivedIsKept
  <2> QED
    BY <2>1, RecordParts DEF OfType, LinesOf
<1>3. RecordsOf(call) \subseteq Arrived => OfType(group, "SYSCALL") # {}
  <2>1. /\ Record(call, "SYSCALL", None) \in RecordsOf(call)
        /\ Record(call, "SYSCALL", None).type = "SYSCALL"
    BY DEF RecordsOf, Record
  <2> QED
    BY <1>2, <2>1
<1>4. OfType(group, "PATH") # {} => call.paths # {}
  BY LinesOfType
<1>5. SshBy(group) => \E p \in call.paths : p.name \in SshNames
  BY LinesOfType DEF SshBy
<1>6. ASSUME RecordsOf(call) \subseteq Arrived, NEW p \in call.paths
      PROVE  \E n \in OfType(group, "PATH") : log[n].path = p
  <2>1. /\ Record(call, "PATH", p) \in RecordsOf(call)
        /\ Record(call, "PATH", p).type = "PATH" /\ Record(call, "PATH", p).path = p
    BY DEF RecordsOf, Record
  <2> QED
    BY <1>2, <1>6, <2>1
<1>7. CASE OfType(group, "SYSCALL") = {}
  <2>1. SaidBy(group) = [key |-> None, name |-> None, success |-> FALSE] /\ ~ChangedBy(group)
    BY <1>7 DEF SaidBy, ChangedBy
  <2>2. TypeBy(group) = "audit_event"
    BY <2>1 DEF TypeBy, InferEventType, None
  <2> QED
    BY <1>3, <1>7, <2>2 DEF EndpointType, EndpointTypes
<1>8. CASE OfType(group, "SYSCALL") # {}
  <2>1. SaidBy(group) = call
    BY <1>8, SaidIsTheCall
  <2>2. /\ ChangedBy(group) \in BOOLEAN /\ SshBy(group) \in BOOLEAN
        /\ ChangedBy(group) => Changed(call)
    BY <1>4, <2>1 DEF ChangedBy, SshBy, Changed
  <2>3. RecordsOf(call) \subseteq Arrived =>
          /\ Changed(call) => ChangedBy(group)
          /\ (\E p \in call.paths : p.name \in SshNames) => SshBy(group)
    BY <1>6, <2>1 DEF ChangedBy, SshBy, Changed
  <2>4. TypeBy(group) = InferEventType(call.key, call.name, ChangedBy(group), SshBy(group))
    BY <2>1 DEF TypeBy
  <2> HIDE DEF TypeBy, ChangedBy, SshBy
  <2> DEFINE type == TypeBy(group)
             changed == ChangedBy(group)
             ssh == SshBy(group)
  <2>5. /\ EndpointType(type) \in EndpointTypes
        /\ EndpointType(type) \in {"unknown", ContractType(call), Overtold(call)}
        /\ type \in {"file_write", "persistence_file_change"} => changed
        /\ (changed <=> Changed(call)) /\ (ssh <=> \E p \in call.paths : p.name \in SshNames)
             /\ Overtold(call) = None /\ ~Untold(call) =>
               EndpointType(type) = ContractType(call)
    <3>1. /\ changed \in BOOLEAN /\ ssh \in BOOLEAN
          /\ changed => Changed(call)
          /\ ssh => \E p \in call.paths : p.name \in SshNames
          /\ type = InferEventType(call.key, call.name, changed, ssh)
      BY <1>5, <2>2, <2>4
    <3> HIDE DEF type, changed, ssh
    <3> QED
      BY <1>1, <3>1, TypeIsSound
  <2> QED
    BY <1>5, <2>1, <2>2, <2>3, <2>5
<1> QED
  BY <1>7, <1>8

LEMMA EventIsSound ==
  ASSUME LogOK, NEW call \in calls, LinesOf(call) # {}
  PROVE  Sound(NormalizeEvent(LinesOf(call)), call)
<1> DEFINE group == LinesOf(call)
           e == NormalizeEvent(group)
<1>1. /\ e.host = FirstLine(group).call.host /\ e.epoch = FirstLine(group).call.epoch
      /\ e.serial = FirstLine(group).call.serial /\ e.type = TypeBy(group)
      /\ e.path = IF TypeBy(group) \in {"file_write", "persistence_file_change"}
                  THEN ChoosePath(OfType(group, "PATH")) ELSE None
      /\ e.argv = (OfType(group, "EXECVE") # {})
      /\ e.records = Cardinality(group)
  BY NormalizedParts
<1>2. Identified(e, call)
  BY <1>1, SaidIsTheCall DEF Identified
<1>3. /\ EndpointType(TypeBy(group)) \in EndpointTypes
      /\ EndpointType(TypeBy(group)) \in {"unknown", ContractType(call), Overtold(call)}
      /\ TypeBy(group) \in {"file_write", "persistence_file_change"} => ChangedBy(group)
  BY TypeOfLines
<1>4. e.path \in {p.name : p \in call.paths} \cup {None}
  <2>1. CASE TypeBy(group) \in {"file_write", "persistence_file_change"}
    <3>1. OfType(group, "PATH") # {} /\ OfType(group, "PATH") \in SUBSET DOMAIN log
      BY <1>3, <2>1, LinesOfType DEF ChangedBy
    <3>2. PICK n \in OfType(group, "PATH") : ChoosePath(OfType(group, "PATH")) = log[n].path.name
      BY <3>1, ChosenIsOne
    <3>3. log[n].path \in call.paths
      BY LinesOfType
    <3> QED
      BY <1>1, <2>1, <3>2, <3>3
  <2>2. CASE TypeBy(group) \notin {"file_write", "persistence_file_change"}
    BY <1>1, <2>2
  <2> QED
    BY <2>1, <2>2
<1>5. Cardinality(group) \in Nat \ {0} /\ Cardinality(group) <= Cardinality(RecordsOf(call))
  BY LinesCounted, FS_CardinalityType, FS_EmptySet
<1>6. OfType(group, "EXECVE") # {} => call.name = "execve"
  BY LinesOfType
<1> HIDE DEF group, e
<1> QED
  BY <1>1, <1>2, <1>3, <1>4, <1>5, <1>6 DEF Sound, group, e

\* When every path record of a call has a line, the path that is chosen is the
\* target the call names.
LEMMA TargetChosen ==
  ASSUME LogOK, NEW call \in calls, Changes(call), Effect(call) # "removed",
         NEW lines \in SUBSET DOMAIN log,
         \A n \in lines : log[n].path \in call.paths,
         \A p \in call.paths : \E n \in lines : log[n].path = p
  PROVE  ChoosePath(lines) = call.target
<1> DEFINE named(nametype) == {n \in lines : log[n].path.nametype = nametype}
<1>1. /\ named("CREATE") # {} => ChoosePath(lines) = FirstLine(named("CREATE")).path.name
      /\ named("CREATE") = {} /\ named("NORMAL") # {} =>
           ChoosePath(lines) = FirstLine(named("NORMAL")).path.name
  BY DEF ChoosePath
<1>2. IF Named(call, "CREATE") # {} THEN Named(call, "CREATE") = {call.target}
                                    ELSE Named(call, "NORMAL") = {call.target}
  BY AssemblyAssumption DEF LogOK
<1>3. ASSUME NEW nametype, named(nametype) # {}
      PROVE  FirstLine(named(nametype)).path.name \in Named(call, nametype)
  <2>1. PICK n \in named(nametype) : FirstLine(named(nametype)) = log[n]
    BY <1>3, FirstIsOne
  <2> QED
    BY <2>1 DEF Named
<1>4. ASSUME NEW nametype, Named(call, nametype) # {}
      PROVE  named(nametype) # {}
  BY <1>4 DEF Named
<1>5. CASE Named(call, "CREATE") # {}
  <2>1. ChoosePath(lines) \in Named(call, "CREATE")
    BY <1>1, <1>3, <1>4, <1>5
  <2> QED
    BY <1>2, <1>5, <2>1
<1>6. CASE Named(call, "CREATE") = {}
  <2>1. named("CREATE") = {}
    BY <1>3, <1>6
  <2>2. Named(call, "NORMAL") = {call.target}
    BY <1>2, <1>6
  <2>3. named("NORMAL") # {}
    BY <1>4, <2>2
  <2>4. ChoosePath(lines) \in Named(call, "NORMAL")
    BY <1>1, <1>3, <2>1, <2>3
  <2> QED
    BY <2>2, <2>4
<1> QED
  BY <1>5, <1>6

LEMMA EventIsWhole ==
  ASSUME LogOK, NEW call \in calls, RecordsOf(call) \subseteq Arrived
  PROVE  LinesOf(call) # {} /\ Whole(NormalizeEvent(LinesOf(call)), call)
<1> DEFINE group == LinesOf(call)
           e == NormalizeEvent(group)
<1>1. ASSUME NEW record \in RecordsOf(call)
      PROVE  \E n \in OfType(group, record.type) : log[n] = record
  <2>1. PICK n \in Kept : log[n] = record
    BY ArrivedIsKept
  <2> QED
    BY <2>1, RecordParts DEF OfType, LinesOf
<1>2. group # {}
  <2>1. Record(call, "SYSCALL", None) \in RecordsOf(call)
    BY DEF RecordsOf
  <2> QED
    BY <1>1, <2>1 DEF OfType
<1>3. /\ e.host = FirstLine(group).call.host /\ e.epoch = FirstLine(group).call.epoch
      /\ e.serial = FirstLine(group).call.serial /\ e.type = TypeBy(group)
      /\ e.path = IF TypeBy(group) \in {"file_write", "persistence_file_change"}
                  THEN ChoosePath(OfType(group, "PATH")) ELSE None
      /\ e.argv = (OfType(group, "EXECVE") # {})
      /\ e.records = Cardinality(group)
  BY NormalizedParts
<1>4. Identified(e, call)
  BY <1>2, <1>3, SaidIsTheCall DEF Identified
<1>5. /\ Overtold(call) = None /\ ~Untold(call) =>
           EndpointType(TypeBy(group)) = ContractType(call)
      /\ TypeBy(group) \in {"file_write", "persistence_file_change"} => Changed(call)
  BY TypeOfLines
<1>6. ASSUME EndpointType(e.type) \in {"file_write", "persistence_file_change"},
             Effect(call) # "removed"
      PROVE  e.path = call.target
  <2>1. TypeBy(group) \in {"file_write", "persistence_file_change"}
    BY <1>3, <1>6 DEF EndpointType
  <2>2. \A n \in OfType(group, "PATH") : n \in DOMAIN log /\ log[n].path \in call.paths
    BY LinesOfType
  <2>3. ASSUME NEW p \in call.paths
        PROVE  \E n \in OfType(group, "PATH") : log[n].path = p
    <3>1. /\ Record(call, "PATH", p) \in RecordsOf(call)
          /\ Record(call, "PATH", p).type = "PATH" /\ Record(call, "PATH", p).path = p
      BY DEF RecordsOf, Record
    <3> QED
      BY <1>1, <3>1
  <2> DEFINE lines == OfType(group, "PATH")
  <2>4. /\ lines \in SUBSET DOMAIN log /\ \A n \in lines : log[n].path \in call.paths
        /\ \A p \in call.paths : \E n \in lines : log[n].path = p
    BY <2>2, <2>3
  <2> HIDE DEF lines
  <2>5. Changes(call)
    <3>1. call.success \in BOOLEAN /\ call.name \in CallNames /\ (Changes(call) => call.paths # {})
      BY AssemblyAssumption DEF LogOK
    <3> QED
      BY <1>5, <2>1, <3>1, ChangedIsAChange
  <2>6. ChoosePath(lines) = call.target
    BY <1>6, <2>4, <2>5, TargetChosen
  <2> QED
    BY <1>3, <2>1, <2>6 DEF lines
<1>7. ASSUME EndpointType(e.type) = "process_exec", EndpointType(e.type) = ContractType(call)
      PROVE  e.argv
  <2>1. call.name = "execve"
    <3>1. Effect(call) = "ran"
      BY <1>7 DEF ContractType
    <3> QED
      BY <3>1 DEF Effect, None
  <2>2. /\ Record(call, "EXECVE", None) \in RecordsOf(call)
        /\ Record(call, "EXECVE", None).type = "EXECVE"
    BY <2>1 DEF RecordsOf, Record
  <2>3. OfType(group, "EXECVE") # {}
    BY <1>1, <2>2
  <2> QED
    BY <1>3, <2>3
<1>8. Cardinality(group) = Cardinality(RecordsOf(call))
  BY LinesCounted
<1> HIDE DEF group, e
<1>9. Whole(e, call)
  BY <1>3, <1>4, <1>5, <1>6, <1>7, <1>8 DEF Whole
<1> QED
  BY <1>2, <1>9 DEF group, e

-----------------------------------------------------------------------------
(* The invariant. *)

\* What parsing leaves: every event is sound, no call has two, and a call that all
\* records told has one that tells it.
EventsOK ==
  /\ \A e \in events : \E call \in calls : Sound(e, call)
  /\ \A e, f \in events :
       <<e.host, e.epoch, e.serial>> = <<f.host, f.epoch, f.serial>> => e = f
  /\ \A call \in calls :
       RecordsOf(call) \subseteq Arrived /\ (labOnly => call.key \in LabKeys)
       => \E e \in events : Whole(e, call)

AssemblyInv ==
  /\ LogOK
  /\ labOnly \in BOOLEAN /\ repeats \in 0..MaxRepeats
  /\ phase \in {"collecting", "parsed", "converted"}
  /\ phase # "collecting" => EventsOK
  /\ endpoint = IF phase = "converted" THEN {ConvertEvent(e) : e \in events} ELSE {}

LEMMA ParsedOK ==
  ASSUME LogOK, NEW lab \in BOOLEAN, NEW parsed,
         parsed = {e \in {NormalizeEvent(group) : group \in Groups} : lab => e.key \in LabKeys}
  PROVE  /\ \A e \in parsed : \E call \in calls : Sound(e, call)
         /\ \A e, f \in parsed :
              <<e.host, e.epoch, e.serial>> = <<f.host, f.epoch, f.serial>> => e = f
         /\ \A call \in calls :
              RecordsOf(call) \subseteq Arrived /\ (lab => call.key \in LabKeys)
              => \E e \in parsed : Whole(e, call)
<1>1. ASSUME NEW e \in parsed
      PROVE  \E call \in calls : e = NormalizeEvent(LinesOf(call)) /\ Sound(e, call)
  <2>1. PICK group \in Groups : e = NormalizeEvent(group)
    OBVIOUS
  <2>2. PICK call \in calls : group = LinesOf(call) /\ group # {}
    BY GroupIsACall
  <2> QED
    BY <2>1, <2>2, EventIsSound
<1>2. ASSUME NEW e \in parsed, NEW f \in parsed,
             <<e.host, e.epoch, e.serial>> = <<f.host, f.epoch, f.serial>>
      PROVE  e = f
  <2>1. PICK c \in calls : e = NormalizeEvent(LinesOf(c)) /\ Sound(e, c)
    BY <1>1
  <2>2. PICK d \in calls : f = NormalizeEvent(LinesOf(d)) /\ Sound(f, d)
    BY <1>1
  <2>3. <<c.host, c.epoch, c.serial>> = <<d.host, d.epoch, d.serial>>
    BY <1>2, <2>1, <2>2 DEF Sound, Identified
  <2>4. c = d
    BY <2>3, AssemblyAssumption DEF LogOK
  <2> QED
    BY <2>1, <2>2, <2>4
<1>3. ASSUME NEW call \in calls, RecordsOf(call) \subseteq Arrived,
             lab => call.key \in LabKeys
      PROVE  \E e \in parsed : Whole(e, call)
  <2> DEFINE group == LinesOf(call)
             e == NormalizeEvent(group)
  <2>1. group # {} /\ Whole(e, call)
    BY <1>3, EventIsWhole
  <2>2. group \in Groups
    BY <2>1, CallIsAGroup
  <2>3. e.key = call.key
    BY <1>3, NormalizedParts, TypeOfLines
  <2>4. e \in parsed
    BY <1>3, <2>2, <2>3
  <2> QED
    BY <2>1, <2>4
<1> QED
  BY <1>1, <1>2, <1>3

LEMMA AssemblyInvariant == Spec => []AssemblyInv
<1>1. Init => AssemblyInv
  <2> SUFFICES ASSUME Init PROVE AssemblyInv
    OBVIOUS
  <2>1. LogOK /\ 0 \in 0..MaxRepeats
    BY AssemblyAssumption DEF Init, LogOK
  <2> QED
    BY <2>1 DEF Init, AssemblyInv
<1>2. ASSUME AssemblyInv, [Next]_vars PROVE AssemblyInv'
  <2>1. CASE Deliver
    <3>1. PICK call \in calls : \E record \in RecordsOf(call) :
            /\ log' = Append(log, record)
            /\ IF record \in Arrived THEN repeats < MaxRepeats /\ repeats' = repeats + 1
                                     ELSE repeats' = repeats
      BY <2>1 DEF Deliver
    <3>2. PICK record \in RecordsOf(call) :
            /\ log' = Append(log, record)
            /\ IF record \in Arrived THEN repeats < MaxRepeats /\ repeats' = repeats + 1
                                     ELSE repeats' = repeats
      BY <3>1
    <3>3. /\ phase = "collecting"
          /\ UNCHANGED <<calls, phase, labOnly, events, endpoint>>
      BY <2>1 DEF Deliver
    <3>4. LogOK'
      <4> DEFINE R == UNION {RecordsOf(c) : c \in calls}
      <4>1. log \in Seq(R) /\ record \in R
        BY <1>2, <3>2 DEF AssemblyInv, LogOK
      <4>2. Append(log, record) \in Seq(R)
        <5> HIDE DEF R
        <5> QED
          BY <4>1
      <4>3. calls' \in Worlds
        BY <1>2, <3>3 DEF AssemblyInv, LogOK
      <4> QED
        BY <3>2, <3>3, <4>2, <4>3 DEF LogOK
    <3>5. repeats' \in 0..MaxRepeats
      BY <1>2, <3>2, AssemblyAssumption DEF AssemblyInv
    <3> QED
      BY <1>2, <3>3, <3>4, <3>5 DEF AssemblyInv
  <2>2. CASE Parse
    <3>1. /\ phase = "collecting" /\ phase' = "parsed" /\ labOnly' \in BOOLEAN
          /\ events' = {e \in {NormalizeEvent(group) : group \in Groups} : labOnly' => e.key \in LabKeys}
          /\ UNCHANGED <<calls, log, repeats, endpoint>>
      BY <2>2 DEF Parse
    <3>2. LogOK /\ LogOK'
      BY <1>2, <3>1 DEF AssemblyInv, LogOK
    <3>3. Arrived' = Arrived
      BY <3>1 DEF Arrived
    <3>4. /\ \A e \in events' : \E call \in calls : Sound(e, call)
          /\ \A e, f \in events' :
               <<e.host, e.epoch, e.serial>> = <<f.host, f.epoch, f.serial>> => e = f
          /\ \A call \in calls :
               RecordsOf(call) \subseteq Arrived /\ (labOnly' => call.key \in LabKeys)
               => \E e \in events' : Whole(e, call)
      BY <3>1, <3>2, ParsedOK
    <3>5. EventsOK'
      BY <3>1, <3>3, <3>4 DEF EventsOK
    <3> QED
      BY <1>2, <3>1, <3>2, <3>5 DEF AssemblyInv
  <2>3. CASE Convert
    <3>1. /\ phase = "parsed" /\ phase' = "converted"
          /\ endpoint' = {ConvertEvent(e) : e \in events}
          /\ UNCHANGED <<calls, log, repeats, labOnly, events>>
      BY <2>3 DEF Convert
    <3>2. LogOK' /\ EventsOK'
      BY <1>2, <3>1 DEF AssemblyInv, LogOK, EventsOK, Arrived
    <3> QED
      BY <1>2, <3>1, <3>2 DEF AssemblyInv
  <2>4. CASE UNCHANGED vars
    <3>1. LogOK' /\ (EventsOK' <=> EventsOK)
      BY <1>2, <2>4 DEF vars, AssemblyInv, LogOK, EventsOK, Arrived
    <3> QED
      BY <1>2, <2>4, <3>1 DEF vars, AssemblyInv
  <2> QED
    BY <1>2, <2>1, <2>2, <2>3, <2>4 DEF Next
<1> QED
  BY <1>1, <1>2, PTL DEF Spec

\* Every endpoint event is the conversion of a sound one.
LEMMA EndpointSound ==
  ASSUME AssemblyInv, NEW e \in endpoint
  PROVE  \E f \in events : \E call \in calls : e = ConvertEvent(f) /\ Sound(f, call)
<1>1. phase = "converted" /\ endpoint = {ConvertEvent(f) : f \in events} /\ EventsOK
  BY DEF AssemblyInv
<1> QED
  BY <1>1 DEF EventsOK

LEMMA ConvertParts ==
  ASSUME NEW f
  PROVE  LET e == ConvertEvent(f) IN
         /\ e.event_id = <<"auditd", f.host, f.serial>> /\ e.host = f.host /\ e.timestamp = f.epoch
         /\ e.event_type = EndpointType(f.type) /\ e.file_path = f.path
         /\ e.raw_record_count = f.records
         /\ f.argv => e.command_line = "argv"
         /\ e.command_line = "argv" => f.argv
BY DEF ConvertEvent, None

\* The log holds records of the audited calls, and every endpoint event has one of
\* the four types the converter knows and counts at least one record.
THEOREM AssemblyTypeCorrect == Spec => []AssemblyTypeOK
<1>1. ASSUME AssemblyInv PROVE AssemblyTypeOK
  <2>1. \A e \in endpoint : e.event_type \in EndpointTypes /\ e.raw_record_count \in Nat \ {0}
    BY <1>1, EndpointSound, ConvertParts DEF Sound
  <2>2. Arrived \subseteq UNION {RecordsOf(call) : call \in calls}
    BY <1>1 DEF AssemblyInv, LogOK, Arrived
  <2> QED
    BY <1>1, <2>1, <2>2 DEF AssemblyTypeOK, AssemblyInv, LogOK
<1> QED
  BY <1>1, AssemblyInvariant, PTL

\* However many lines are missing when the log is parsed, no endpoint event claims
\* what its call did not do: whatever subset of a call's records stands in its group,
\* its type is the contracts' type of the call, none, or the one named excess of the
\* parser for such a call, and path, arguments and count are the call's or none.
THEOREM NothingIsInvented == Spec => []NothingInvented
<1>1. ASSUME AssemblyInv PROVE NothingInvented
  <2>1. SUFFICES ASSUME NEW e \in endpoint
                 PROVE  \E call \in calls :
                          /\ IsOf(e, call)
                          /\ e.event_type \in {"unknown", ContractType(call), Overtold(call)}
                          /\ e.file_path \in {p.name : p \in call.paths} \cup {None}
                          /\ e.raw_record_count <= Cardinality(RecordsOf(call))
                          /\ e.command_line = "argv" => call.name = "execve"
    BY DEF NothingInvented
  <2>2. PICK f \in events, call \in calls : e = ConvertEvent(f) /\ Sound(f, call)
    BY <1>1, EndpointSound
  <2>3. IsOf(e, call)
    BY <2>2, ConvertParts DEF IsOf, Sound, Identified
  <2>4. /\ e.event_type \in {"unknown", ContractType(call), Overtold(call)}
        /\ e.file_path \in {p.name : p \in call.paths} \cup {None}
        /\ e.raw_record_count <= Cardinality(RecordsOf(call))
        /\ e.command_line = "argv" => call.name = "execve"
    BY <2>2, ConvertParts DEF Sound
  <2> QED
    BY <2>3, <2>4
<1> QED
  BY <1>1, AssemblyInvariant, PTL

\* A call whose records have all arrived is told by exactly one endpoint event that
\* counts each record once, in whatever order its lines came and however often:
\* repeats are dropped, so its group has each record once, and only its group has its
\* number.  Unless it is a call the parser is known to tell too much or nothing of,
\* the event has the type the contracts give the call, its target and its arguments.
THEOREM WholeCallsAreTold == Spec => []WholeCallsTold
<1>1. ASSUME AssemblyInv PROVE WholeCallsTold
  <2>1. SUFFICES ASSUME phase = "converted", NEW call \in calls,
                        RecordsOf(call) \subseteq Arrived,
                        labOnly => call.key \in LabKeys
                 PROVE  /\ Cardinality({e \in endpoint : IsOf(e, call)}) = 1
                        /\ \A e \in endpoint :
                             IsOf(e, call) =>
                               /\ e.raw_record_count = Cardinality(RecordsOf(call))
                               /\ Overtold(call) = None /\ ~Untold(call) =>
                                    /\ e.event_type = ContractType(call)
                                    /\ e.event_type \in {"file_write", "persistence_file_change"}
                                         /\ Effect(call) # "removed" => e.file_path = call.target
                                    /\ e.event_type = "process_exec" => e.command_line = "argv"
    BY DEF WholeCallsTold
  <2>2. endpoint = {ConvertEvent(f) : f \in events} /\ EventsOK
    BY <1>1, <2>1 DEF AssemblyInv
  <2>3. PICK f \in events : Whole(f, call)
    BY <2>1, <2>2 DEF EventsOK
  <2> DEFINE told == ConvertEvent(f)
  <2>4. told \in endpoint /\ IsOf(told, call)
    BY <2>2, <2>3, ConvertParts DEF Whole, Identified, IsOf
  <2>5. ASSUME NEW e \in endpoint, IsOf(e, call) PROVE e = told
    <3>1. PICK g \in events : e = ConvertEvent(g)
      BY <2>2
    <3>2. g.host = call.host /\ g.epoch = call.epoch /\ g.serial = call.serial
      <4>1. e.event_id = <<"auditd", g.host, g.serial>> /\ e.host = g.host /\ e.timestamp = g.epoch
        BY <3>1, ConvertParts
      <4>2. e.event_id = <<"auditd", call.host, call.serial>>
            /\ e.host = call.host /\ e.timestamp = call.epoch
        BY <2>5 DEF IsOf
      <4> QED
        BY <4>1, <4>2
    <3>3. g = f
      BY <2>2, <2>3, <3>2 DEF EventsOK, Whole, Identified
    <3> QED
      BY <3>1, <3>3
  <2>6. Cardinality({e \in endpoint : IsOf(e, call)}) = 1
    <3>1. {e \in endpoint : IsOf(e, call)} = {told}
      BY <2>4, <2>5
    <3> QED
      BY <3>1, FS_Singleton
  <2>7. /\ told.raw_record_count = Cardinality(RecordsOf(call))
        /\ Overtold(call) = None /\ ~Untold(call) =>
             /\ told.event_type = ContractType(call)
             /\ told.event_type \in {"file_write", "persistence_file_change"}
                  /\ Effect(call) # "removed" => told.file_path = call.target
             /\ told.event_type = "process_exec" => told.command_line = "argv"
    BY <2>3, ConvertParts DEF Whole
  <2> HIDE DEF told
  <2> QED
    BY <2>5, <2>6, <2>7
<1> QED
  BY <1>1, AssemblyInvariant, PTL
=============================================================================
