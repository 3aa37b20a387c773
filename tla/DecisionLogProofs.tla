------------------------- MODULE DecisionLogProofs -------------------------
(***************************************************************************)
(* Proofs about DecisionLog for every set of invocations: the type         *)
(* invariant; that a logged decision has its result, with or without       *)
(* overlapping invocations; and that a readable log is complete as long as *)
(* no two invocations have overlapped.                                     *)
(***************************************************************************)
EXTENDS DecisionLog, TLAPS

Elements(s) == {s[n] : n \in DOMAIN s}

\* What append_decision_log adds to the list it read is its own entry.
LEMMA AppendElements ==
  ASSUME NEW s \in Seq(Runs), NEW r \in Runs
  PROVE  /\ Append(s, r) \in Seq(Runs)
         /\ Elements(Append(s, r)) = Elements(s) \cup {r}
<1>1. Append(s, r) \in Seq(Runs)
  OBVIOUS
<1>2. DOMAIN Append(s, r) = 1..(Len(s) + 1) /\ DOMAIN s = 1..Len(s) /\ Len(s) \in Nat
  OBVIOUS
<1>3. \A n \in 1..Len(s) : Append(s, r)[n] = s[n]
  OBVIOUS
<1>4. Append(s, r)[Len(s) + 1] = r
  OBVIOUS
<1>5. Elements(Append(s, r)) \subseteq Elements(s) \cup {r}
  <2> SUFFICES ASSUME NEW n \in 1..(Len(s) + 1)
               PROVE  Append(s, r)[n] \in Elements(s) \cup {r}
    BY <1>2 DEF Elements
  <2>1. CASE n \in 1..Len(s)
    BY <2>1, <1>2, <1>3 DEF Elements
  <2>2. CASE n = Len(s) + 1
    BY <2>2, <1>4
  <2>3. n \in 1..Len(s) \/ n = Len(s) + 1
    BY <1>2
  <2> QED BY <2>1, <2>2, <2>3
<1>6. Elements(s) \subseteq Elements(Append(s, r))
  <2> SUFFICES ASSUME NEW n \in 1..Len(s)
               PROVE  s[n] \in Elements(Append(s, r))
    BY <1>2 DEF Elements
  <2>1. n \in 1..(Len(s) + 1)
    BY <1>2
  <2> QED BY <2>1, <1>2, <1>3 DEF Elements
<1>7. r \in Elements(Append(s, r))
  <2>1. Len(s) + 1 \in 1..(Len(s) + 1)
    BY <1>2
  <2> QED BY <2>1, <1>2, <1>4 DEF Elements
<1> QED BY <1>1, <1>5, <1>6, <1>7

LEMMA NoElements == <<>> \in Seq(Runs) /\ Elements(<<>>) = {}
<1>1. <<>> \in Seq(Runs) /\ DOMAIN <<>> = {}
  OBVIOUS
<1> QED BY <1>1 DEF Elements

LEMMA LoggedIsElements == Logged = Elements(log.entries)
BY DEF Logged, Elements

LEMMA DumpedTexts == \A file : Dumped(file) \subseteq {"whole", "garbled"}
BY DEF Dumped

LEMMA DumpOnEmpty == \A file : file.text = "empty" => Dumped(file) = {"whole"}
BY DEF Dumped

-----------------------------------------------------------------------------
\* Variables keep their types in every behaviour.
THEOREM TypeCorrect == Spec => []TypeOK
<1>1. Init => TypeOK
  <2> SUFFICES ASSUME Init PROVE TypeOK
    OBVIOUS
  <2>1. overlapped \in BOOLEAN
    BY DEF Init
  <2>2. /\ pc \in [Runs -> {Idle, "done", "stopped"} \cup Working]
        /\ copy \in [Runs -> Seq(Runs)]
        /\ result \in [text : Texts, by : Runs \cup {Nobody}]
        /\ log \in [text : Texts, entries : Seq(Runs)]
        /\ written \subseteq Runs
    BY NoElements DEF Init, Idle, Nobody, Texts
  <2> QED BY <2>1, <2>2 DEF TypeOK
<1>2. TypeOK /\ [Next]_vars => TypeOK'
  <2> SUFFICES ASSUME TypeOK, [Next]_vars PROVE TypeOK'
    OBVIOUS
  <2> USE DEF TypeOK, Goto, Idle, Working, Texts
  <2>1. CASE UNCHANGED vars
    BY <2>1 DEF vars
  <2>2. ASSUME NEW r \in Runs, Start(r) PROVE TypeOK'
    BY <2>2 DEF Start
  <2>3. ASSUME NEW r \in Runs, ModelFails(r) PROVE TypeOK'
    BY <2>3 DEF ModelFails
  <2>4. ASSUME NEW r \in Runs, OpenResult(r) PROVE TypeOK'
    BY <2>4 DEF OpenResult
  <2>5. ASSUME NEW r \in Runs, DumpResult(r) PROVE TypeOK'
    BY <2>5, DumpedTexts DEF DumpResult
  <2>6. ASSUME NEW r \in Runs, ReadLog(r) PROVE TypeOK'
    BY <2>6 DEF ReadLog
  <2>7. ASSUME NEW r \in Runs, OpenLog(r) PROVE TypeOK'
    BY <2>7, NoElements DEF OpenLog
  <2>8. ASSUME NEW r \in Runs, DumpLog(r) PROVE TypeOK'
    <3>1. PICK text \in Dumped(log) :
            log' = [text |-> text,
                    entries |-> IF text = "whole" THEN Append(copy[r], r) ELSE <<>>]
      BY <2>8 DEF DumpLog
    <3>2. log'.entries \in Seq(Runs)
      BY <3>1, AppendElements, NoElements
    <3> QED BY <2>8, <3>1, <3>2, DumpedTexts DEF DumpLog
  <2>9. ASSUME NEW r \in Runs, Crash(r) PROVE TypeOK'
    BY <2>9 DEF Crash
  <2> QED BY <2>1, <2>2, <2>3, <2>4, <2>5, <2>6, <2>7, <2>8, <2>9 DEF Next
<1> QED BY <1>1, <1>2, PTL DEF Spec

-----------------------------------------------------------------------------
\* Whoever is past its result has written it, and so has everybody it read.
ResultsFirst ==
  /\ \A r \in Runs : pc[r] \in {"append", "open", "dump", "done"} => r \in written
  /\ \A r \in Runs : Elements(copy[r]) \subseteq written
  /\ Logged \subseteq written

LEMMA ResultsFirstStep ==
  ASSUME TypeOK, ResultsFirst, [Next]_vars
  PROVE  ResultsFirst'
<1> USE DEF TypeOK, ResultsFirst, Goto
<1>1. CASE UNCHANGED vars
  BY <1>1 DEF vars, Logged
<1>2. ASSUME NEW r \in Runs, Start(r) PROVE ResultsFirst'
  BY <1>2 DEF Start, Logged
<1>3. ASSUME NEW r \in Runs, ModelFails(r) PROVE ResultsFirst'
  BY <1>3 DEF ModelFails, Logged
<1>4. ASSUME NEW r \in Runs, OpenResult(r) PROVE ResultsFirst'
  BY <1>4 DEF OpenResult, Logged
<1>5. ASSUME NEW r \in Runs, DumpResult(r) PROVE ResultsFirst'
  BY <1>5 DEF DumpResult, Logged
<1>6. ASSUME NEW r \in Runs, ReadLog(r) PROVE ResultsFirst'
  <2>1. CASE log.text \in {"absent", "whole"}
    <3>1. pc' = [pc EXCEPT ![r] = "open"] /\ copy' = [copy EXCEPT ![r] = log.entries]
      BY <1>6, <2>1 DEF ReadLog
    <3>2. log' = log /\ written' = written /\ pc[r] = "append"
      BY <1>6 DEF ReadLog
    <3>3. Elements(log.entries) \subseteq written
      BY LoggedIsElements
    <3>4. \A o \in Runs : Elements(copy'[o]) \subseteq written'
      BY <3>1, <3>2, <3>3
    <3>5. \A o \in Runs : pc'[o] \in {"append", "open", "dump", "done"} => o \in written'
      BY <3>1, <3>2
    <3> QED BY <3>2, <3>4, <3>5 DEF Logged
  <2>2. CASE log.text \notin {"absent", "whole"}
    BY <1>6, <2>2 DEF ReadLog, Logged
  <2> QED BY <2>1, <2>2
<1>7. ASSUME NEW r \in Runs, OpenLog(r) PROVE ResultsFirst'
  <2>1. Logged' = {}
    BY <1>7, NoElements DEF OpenLog, Logged, Elements
  <2> QED BY <1>7, <2>1 DEF OpenLog
<1>8. ASSUME NEW r \in Runs, DumpLog(r) PROVE ResultsFirst'
  <2>1. PICK text \in Dumped(log) :
          log' = [text |-> text,
                  entries |-> IF text = "whole" THEN Append(copy[r], r) ELSE <<>>]
    BY <1>8 DEF DumpLog
  <2>2. r \in written /\ Elements(copy[r]) \subseteq written /\ written' = written
    BY <1>8 DEF DumpLog
  <2>3. Elements(log'.entries) \subseteq Elements(copy[r]) \cup {r}
    BY <2>1, AppendElements, NoElements
  <2>4. Logged' \subseteq written'
    BY <2>2, <2>3 DEF Logged, Elements
  <2> QED BY <1>8, <2>2, <2>4 DEF DumpLog
<1>9. ASSUME NEW r \in Runs, Crash(r) PROVE ResultsFirst'
  BY <1>9 DEF Crash, Logged
<1> QED BY <1>1, <1>2, <1>3, <1>4, <1>5, <1>6, <1>7, <1>8, <1>9 DEF Next

\* A decision in the log has a result that was written to the end, for any
\* number of invocations, overlapping or not, wherever they die.
THEOREM LoggedHasResult == Spec => []EntryHasResult
<1>1. Init => ResultsFirst
  BY NoElements DEF Init, ResultsFirst, Logged, Elements, Idle
<1>2. TypeOK /\ ResultsFirst /\ [Next]_vars => ResultsFirst'
  BY ResultsFirstStep
<1>3. ResultsFirst => EntryHasResult
  BY DEF ResultsFirst, EntryHasResult
<1> QED BY <1>1, <1>2, <1>3, TypeCorrect, PTL DEF Spec

-----------------------------------------------------------------------------
\* One invocation at a time, and the one that holds a copy of the log holds
\* every finished decision; while it dumps, the file is the empty one it made.
OneWriter ==
  /\ \A r, o \in Runs : pc[r] \in Working /\ pc[o] \in Working => r = o
  /\ log.text \in {"absent", "whole"} => Done \subseteq Elements(log.entries)
  /\ \A r \in Runs : pc[r] \in {"open", "dump"} => Done \subseteq Elements(copy[r])
  /\ \A r \in Runs : pc[r] = "dump" => log.text = "empty"

SerialInv == ~overlapped => OneWriter

\* An overlap is not forgotten.
LEMMA OnceOverlapped ==
  ASSUME TypeOK, [Next]_vars, overlapped
  PROVE  overlapped'
BY DEF TypeOK, Next, vars, Start, ModelFails, OpenResult, DumpResult, ReadLog,
       OpenLog, DumpLog, Crash

LEMMA OneWriterStep ==
  ASSUME ~overlapped', TypeOK, OneWriter, [Next]_vars
  PROVE  OneWriter'
<1> USE DEF TypeOK, OneWriter, Goto, Working, Idle, Done
<1>1. CASE UNCHANGED vars
  BY <1>1 DEF vars
<1>2. ASSUME NEW r \in Runs, Start(r) PROVE OneWriter'
  BY <1>2 DEF Start
<1>3. ASSUME NEW r \in Runs, ModelFails(r) PROVE OneWriter'
  BY <1>3 DEF ModelFails
<1>4. ASSUME NEW r \in Runs, OpenResult(r) PROVE OneWriter'
  BY <1>4 DEF OpenResult
<1>5. ASSUME NEW r \in Runs, DumpResult(r) PROVE OneWriter'
  BY <1>5 DEF DumpResult
<1>6. ASSUME NEW r \in Runs, ReadLog(r) PROVE OneWriter'
  <2>1. CASE log.text \in {"absent", "whole"}
    <3>1. pc' = [pc EXCEPT ![r] = "open"] /\ copy' = [copy EXCEPT ![r] = log.entries]
      BY <1>6, <2>1 DEF ReadLog
    <3>2. log' = log /\ pc[r] = "append"
      BY <1>6 DEF ReadLog
    <3>3. Done' = Done
      BY <3>1, <3>2
    <3>4. \A o \in Runs : pc'[o] \in {"open", "dump"} => o = r
      BY <3>1, <3>2
    <3>5. \A o \in Runs : pc'[o] \in {"open", "dump"} => Done' \subseteq Elements(copy'[o])
      BY <2>1, <3>1, <3>3, <3>4
    <3>6. \A o \in Runs : pc'[o] # "dump"
      BY <3>1, <3>2
    <3>7. \A o, q \in Runs : pc'[o] \in Working /\ pc'[q] \in Working => o = q
      BY <3>1, <3>2
    <3> QED BY <3>2, <3>3, <3>5, <3>6, <3>7
  <2>2. CASE log.text \notin {"absent", "whole"}
    BY <1>6, <2>2 DEF ReadLog
  <2> QED BY <2>1, <2>2
<1>7. ASSUME NEW r \in Runs, OpenLog(r) PROVE OneWriter'
  BY <1>7 DEF OpenLog
<1>8. ASSUME NEW r \in Runs, DumpLog(r) PROVE OneWriter'
  <2>1. log.text = "empty" /\ pc[r] = "dump"
    BY <1>8 DEF DumpLog
  <2>2. log' = [text |-> "whole", entries |-> Append(copy[r], r)]
    BY <1>8, <2>1, DumpOnEmpty DEF DumpLog
  <2>3. Elements(log'.entries) = Elements(copy[r]) \cup {r}
    BY <2>2, AppendElements
  <2>4. Done' = Done \cup {r}
    BY <1>8 DEF DumpLog
  <2>5. Done' \subseteq Elements(log'.entries)
    BY <2>1, <2>3, <2>4
  <2>6. \A o \in Runs : pc'[o] \notin {"open", "dump"}
    BY <1>8, <2>1 DEF DumpLog
  <2> QED BY <1>8, <2>5, <2>6 DEF DumpLog
<1>9. ASSUME NEW r \in Runs, Crash(r) PROVE OneWriter'
  BY <1>9 DEF Crash
<1> QED BY <1>1, <1>2, <1>3, <1>4, <1>5, <1>6, <1>7, <1>8, <1>9 DEF Next

\* Without overlap, a readable log holds the decision of every finished
\* invocation, wherever earlier ones died.
THEOREM SerialLogComplete == Spec => []ReadableLogIsComplete
<1>1. Init => SerialInv
  BY DEF Init, SerialInv, OneWriter, Done, Working, Idle
<1>2. TypeOK /\ SerialInv /\ [Next]_vars => SerialInv'
  BY OnceOverlapped, OneWriterStep DEF SerialInv
<1>3. SerialInv => ReadableLogIsComplete
  BY DEF SerialInv, OneWriter, ReadableLogIsComplete, Logged, Elements
<1> QED BY <1>1, <1>2, <1>3, TypeCorrect, PTL DEF Spec
=============================================================================
