------------------------- MODULE MaintenanceProofs -------------------------
(***************************************************************************)
(* Proofs about Maintenance, for every number of creations, users and rows *)
(* and every length of the clock.                                          *)
(***************************************************************************)
EXTENDS Maintenance, FiniteLemmas, SequenceTheorems

-----------------------------------------------------------------------------
(* BackupService                                                           *)

Running == {"started", "writing", "dumped", "broken", "measured"}

\* No creation that ran beside c was given the same file.
Alone(c) == \A d \in Creation : {c, d} \in beside => output[d] # output[c]

NamesAreGiven == \A c \in Creation : progress[c] = "new" <=> output[c] = None

\* Creations that run side by side are known to do so.
RunningHaveMet ==
  \A c, d \in Creation :
    c # d /\ progress[c] \in Running /\ progress[d] \in Running => {c, d} \in beside

\* The file of a creation that shares it with none beside it is its own: no other
\* creation writes or unlinks it, and it is whole once pg_dump has ended.
FileIsOwn(c) ==
  progress[c] \in Running \cup {"done"} /\ Alone(c) =>
    /\ \A d \in Creation : d # c /\ progress[d] \in Running => output[d] # output[c]
    /\ progress[c] = "writing" => c \in linked /\ files[output[c]] = "partial"
    /\ progress[c] \in {"dumped", "measured", "done"} => files[output[c]] = "whole"

RowsAreKept == \A c \in Creation : progress[c] = "done" => rows[output[c]] # None

\* What gave up has unlinked its file.
FilesHaveCreations ==
  \A f \in BackingUp!FileName : files[f] # "absent" =>
    \E c \in Creation :
      output[c] = f /\ progress[c] \in Running \cup {"killed", "raised", "done"}

BInv ==
  /\ BackingUp!TypeOK
  /\ NamesAreGiven
  /\ RunningHaveMet
  /\ \A c \in Creation : FileIsOwn(c)
  /\ RowsAreKept
  /\ FilesHaveCreations

LEMMA BackupInit == BackingUp!Init => BInv
<1> SUFFICES ASSUME BackingUp!Init PROVE BInv
  OBVIOUS
<1>1. BackingUp!TypeOK
  BY ClockIsBounded DEF BackingUp!Init, BackingUp!TypeOK
<1>2. NamesAreGiven /\ RunningHaveMet /\ RowsAreKept /\ \A c \in Creation : FileIsOwn(c)
  BY DEF BackingUp!Init, NamesAreGiven, RunningHaveMet, RowsAreKept, FileIsOwn, Running
<1>3. FilesHaveCreations
  BY DEF BackingUp!Init, FilesHaveCreations
<1> QED
  BY <1>1, <1>2, <1>3 DEF BInv

\* A creation that was given a name was given the name of a file.
LEMMA GivenName ==
  ASSUME BInv, NEW c \in Creation, progress[c] # "new"
  PROVE  output[c] \in BackingUp!FileName
BY DEF BInv, BackingUp!TypeOK, NamesAreGiven

LEMMA TickKeeps ==
  ASSUME BInv, BackingUp!Tick PROVE BInv'
<1>1. UNCHANGED <<files, rows, progress, output, linked, beside>>
  BY DEF BackingUp!Tick
<1>2. BackingUp!TypeOK'
  BY <1>1, ClockIsBounded DEF BInv, BackingUp!TypeOK, BackingUp!Tick
<1> QED
  BY <1>1, <1>2
  DEF BInv, NamesAreGiven, RunningHaveMet, FileIsOwn, Alone, RowsAreKept, FilesHaveCreations

LEMMA StartKeeps ==
  ASSUME BInv, NEW c \in Creation, BackingUp!Start(c) PROVE BInv'
<1> DEFINE name == BackingUp!ChosenName
<1>1. /\ progress[c] = "new" /\ output[c] = None
      /\ output' = [output EXCEPT ![c] = name]
      /\ progress' = [progress EXCEPT ![c] = "started"]
      /\ beside' = beside \cup {{c, d} : d \in BackingUp!Met(c)}
      /\ UNCHANGED <<day, second, files, rows, linked>>
  BY DEF BackingUp!Start, BInv, NamesAreGiven
<1>2. /\ progress \in [Creation -> Running \cup {"new", "done", "failed", "raised", "killed"}]
      /\ output \in [Creation -> BackingUp!FileName \cup {None}]
      /\ beside \subseteq {{a, b} : a, b \in Creation}
      /\ day \in 1..MaxDay /\ second \in 0..MaxSecond
  BY DEF BInv, BackingUp!TypeOK, Running, BackingUp!Running
<1>3. name \in BackingUp!FileName /\ name # None
  <2>1. name \in BackingUp!FileName
    BY <1>2 DEF BackingUp!ChosenName, BackingUp!PlainName, BackingUp!FileName
  <2> QED
    BY <1>1, <2>1, NoneIsNoFile
<1>4. BackingUp!Met(c) \subseteq Creation \ {c}
  BY DEF BackingUp!Met
<1>5. BackingUp!TypeOK'
  <2>1. beside' \subseteq {{a, b} : a, b \in Creation}
    BY <1>1, <1>2, <1>4
  <2>2. progress' \in [Creation -> Running \cup {"new", "done", "failed", "raised", "killed"}]
    BY <1>1, <1>2 DEF Running
  <2>3. output' \in [Creation -> BackingUp!FileName \cup {None}]
    BY <1>1, <1>2, <1>3
  <2>4. /\ day' \in 1..MaxDay /\ second' \in 0..MaxSecond
        /\ files' \in [BackingUp!FileName -> {"absent", "partial", "mixed", "whole"}]
        /\ rows' \in [BackingUp!FileName -> Creation \cup {None}]
        /\ linked' \subseteq Creation
    BY <1>1 DEF BInv, BackingUp!TypeOK
  <2> QED
    BY <2>1, <2>2, <2>3, <2>4 DEF BackingUp!TypeOK, BackingUp!Running, Running
<1>6. /\ progress'[c] = "started" /\ output'[c] = name
      /\ \A d \in Creation \ {c} : progress'[d] = progress[d] /\ output'[d] = output[d]
  BY <1>1, <1>2
<1> HIDE DEF name
<1>7. NamesAreGiven' /\ RowsAreKept'
  BY <1>1, <1>3, <1>6 DEF BInv, NamesAreGiven, RowsAreKept
<1>8. \A d \in Creation \ {c} : progress[d] \in Running => {c, d} \in beside'
  BY <1>1 DEF BackingUp!Met, BackingUp!Running, Running
<1>9. RunningHaveMet'
  <2> SUFFICES ASSUME NEW a \in Creation, NEW b \in Creation, a # b,
                      progress'[a] \in Running, progress'[b] \in Running
               PROVE  {a, b} \in beside'
    BY DEF RunningHaveMet
  <2>1. CASE a = c
    BY <1>6, <1>8, <2>1
  <2>2. CASE b = c
    <3>1. {b, a} \in beside' /\ {b, a} = {a, b}
      BY <1>6, <1>8, <2>2
    <3> QED BY <3>1
  <2>3. CASE a # c /\ b # c
    BY <1>1, <1>6, <2>3 DEF BInv, RunningHaveMet
  <2> QED
    BY <2>1, <2>2, <2>3
<1>10. ASSUME NEW d \in Creation, progress'[d] \in Running \cup {"done"}, Alone(d)'
       PROVE  /\ \A e \in Creation : e # d /\ progress'[e] \in Running => output'[e] # output'[d]
              /\ progress'[d] = "writing" => d \in linked' /\ files'[output'[d]] = "partial"
              /\ progress'[d] \in {"dumped", "measured", "done"} => files'[output'[d]] = "whole"
  <2>1. CASE d = c
    <3>1. \A e \in Creation : e # c /\ progress'[e] \in Running => output'[e] # output'[c]
      BY <1>9, <1>6, <1>10, <2>1 DEF RunningHaveMet, Alone, Running
    <3> QED
      BY <1>6, <2>1, <3>1
  <2>2. CASE d # c
    <3>1. Alone(d)
      <4> SUFFICES ASSUME NEW e \in Creation, {d, e} \in beside PROVE output[e] # output[d]
        BY DEF Alone
      <4>1. CASE e = c
        <5>1. progress[d] # "new"
          BY <1>6, <1>10, <2>2 DEF Running
        <5> QED
          BY <1>1, <4>1, <5>1, GivenName, NoneIsNoFile
      <4>2. CASE e # c
        <5>1. output'[e] # output'[d]
          BY <1>1, <1>10 DEF Alone
        <5> QED
          BY <1>6, <2>2, <4>2, <5>1
      <4> QED
        BY <4>1, <4>2
    <3>2. FileIsOwn(d) /\ progress[d] \in Running \cup {"done"}
      BY <1>6, <1>10, <2>2 DEF BInv
    <3>3. output'[c] # output'[d]
      <4>1. ASSUME output[d] = name PROVE FALSE
        <5>1. {d, c} \notin beside'
          BY <1>6, <1>10, <2>2, <4>1 DEF Alone
        <5>2. d \notin BackingUp!Met(c)
          <6>1. {d, c} = {c, d}
            OBVIOUS
          <6> QED
            BY <1>1, <5>1, <6>1
        <5>3. /\ progress[d] = "done"
              /\ output[d] # [day |-> day, at |-> {second}]
          BY <1>3, <2>2, <3>2, <4>1, <5>2 DEF BackingUp!Met, BackingUp!Running, Running
        <5>4. output[d] = BackingUp!PlainName /\ files[BackingUp!PlainName] = "absent"
          BY <4>1, <5>3 DEF name, BackingUp!ChosenName
        <5> QED
          BY <3>1, <3>2, <5>3, <5>4 DEF FileIsOwn
      <4> QED
        BY <1>6, <2>2, <4>1
    <3> QED
      BY <1>1, <1>6, <2>2, <3>1, <3>2, <3>3 DEF FileIsOwn
  <2> QED
    BY <2>1, <2>2
<1>11. FilesHaveCreations'
  <2> SUFFICES ASSUME NEW f \in BackingUp!FileName, files[f] # "absent"
               PROVE  \E d \in Creation :
                        /\ output'[d] = f
                        /\ progress'[d] \in Running \cup {"killed", "raised", "done"}
    BY <1>1 DEF FilesHaveCreations
  <2>1. PICK d \in Creation :
          output[d] = f /\ progress[d] \in Running \cup {"killed", "raised", "done"}
    BY DEF BInv, FilesHaveCreations
  <2>2. d # c
    BY <1>1, <2>1 DEF Running
  <2> QED
    BY <1>6, <2>1, <2>2
<1> QED
  BY <1>5, <1>7, <1>9, <1>10, <1>11 DEF BInv, FileIsOwn


\* What the other steps of a creation have in common.
Advances(c, next) ==
  /\ progress[c] \in Running /\ next \in Running \cup {"done", "failed", "raised"}
  /\ progress' = [progress EXCEPT ![c] = next]
  /\ UNCHANGED <<day, second, output, beside>>

LEMMA AdvancesKeeps ==
  ASSUME BInv, NEW c \in Creation, NEW next, Advances(c, next)
  PROVE  /\ NamesAreGiven' /\ RunningHaveMet'
         /\ \A d \in Creation : Alone(d)' <=> Alone(d)
         /\ progress' \in [Creation -> Running \cup {"new", "done", "failed", "raised", "killed"}]
         /\ progress'[c] = next /\ \A d \in Creation \ {c} : progress'[d] = progress[d]
         /\ output[c] \in BackingUp!FileName
<1>1. progress \in [Creation -> Running \cup {"new", "done", "failed", "raised", "killed"}]
  BY DEF BInv, BackingUp!TypeOK, Running, BackingUp!Running
<1>2. progress'[c] = next /\ \A d \in Creation \ {c} : progress'[d] = progress[d]
  BY <1>1 DEF Advances
<1>3. NamesAreGiven' /\ RunningHaveMet'
  BY <1>2 DEF BInv, NamesAreGiven, RunningHaveMet, Advances, Running
<1>4. output[c] \in BackingUp!FileName
  BY GivenName DEF Advances, Running
<1> QED
  BY <1>1, <1>2, <1>3, <1>4 DEF Advances, Alone

\* A creation that runs has its file to itself, or is not alone.
LEMMA OthersHaveOtherFiles ==
  ASSUME BInv, NEW c \in Creation, progress[c] \in Running,
         NEW d \in Creation \ {c}, progress[d] \in Running \cup {"done"}, Alone(d)
  PROVE  output[c] # output[d] /\ FileIsOwn(d)
BY DEF BInv, FileIsOwn


\* The step writes no file but that of c, which is as it should be afterwards, if
\* c has it alone.
LEMMA StepKeeps ==
  ASSUME BInv, NEW c \in Creation, NEW next, Advances(c, next),
         files' \in [BackingUp!FileName -> {"absent", "partial", "mixed", "whole"}],
         \A f \in BackingUp!FileName \ {output[c]} : files'[f] = files[f],
         linked' \subseteq Creation, \A d \in linked : output[d] # output[c] => d \in linked',
         rows' \in [BackingUp!FileName -> Creation \cup {None}],
         \A f \in BackingUp!FileName : rows[f] # None => rows'[f] # None,
         Alone(c) =>
           /\ next = "writing" => c \in linked' /\ files'[output[c]] = "partial"
           /\ next \in {"dumped", "measured", "done"} => files'[output[c]] = "whole",
         next = "done" => rows'[output[c]] # None,
         next = "failed" => files'[output[c]] = "absent"
  PROVE  BInv'
<1>1. /\ NamesAreGiven' /\ RunningHaveMet'
      /\ \A d \in Creation : Alone(d)' <=> Alone(d)
      /\ progress' \in [Creation -> Running \cup {"new", "done", "failed", "raised", "killed"}]
      /\ progress'[c] = next /\ \A d \in Creation \ {c} : progress'[d] = progress[d]
      /\ output[c] \in BackingUp!FileName
  BY AdvancesKeeps
<1>2. /\ progress[c] \in Running /\ next \in Running \cup {"done", "failed", "raised"}
      /\ UNCHANGED <<day, second, output, beside>>
  BY DEF Advances
<1>3. BackingUp!TypeOK'
  BY <1>1, <1>2 DEF BInv, BackingUp!TypeOK, Running, BackingUp!Running
<1>4. ASSUME NEW d \in Creation PROVE FileIsOwn(d)'
  <2>1. CASE d = c
    <3>1. Alone(c) => \A e \in Creation : e # c /\ progress[e] \in Running => output[e] # output[c]
      BY <1>2 DEF BInv, FileIsOwn
    <3> QED
      BY <1>1, <1>2, <2>1, <3>1 DEF FileIsOwn
  <2>2. CASE d # c
    <3> SUFFICES ASSUME progress[d] \in Running \cup {"done"}, Alone(d) PROVE FileIsOwn(d)'
      BY <1>1, <2>2 DEF FileIsOwn
    <3>1. output[c] # output[d] /\ FileIsOwn(d) /\ output[d] \in BackingUp!FileName
      BY <1>2, <2>2, OthersHaveOtherFiles, GivenName DEF Running
    <3> QED
      BY <1>1, <1>2, <2>2, <3>1 DEF FileIsOwn
  <2> QED
    BY <2>1, <2>2
<1>5. RowsAreKept'
  BY <1>1, <1>2, GivenName DEF BInv, RowsAreKept
<1>6. FilesHaveCreations'
  <2> SUFFICES ASSUME NEW f \in BackingUp!FileName, files'[f] # "absent"
               PROVE  \E d \in Creation :
                        /\ output[d] = f
                        /\ progress'[d] \in Running \cup {"killed", "raised", "done"}
    BY <1>2 DEF FilesHaveCreations
  <2>1. CASE f = output[c]
    BY <1>1, <1>2, <2>1
  <2>2. CASE f # output[c]
    BY <1>1, <2>2 DEF BInv, FilesHaveCreations
  <2> QED
    BY <2>1, <2>2
<1> QED
  BY <1>1, <1>3, <1>4, <1>5, <1>6 DEF BInv

LEMMA DumpOpensKeeps ==
  ASSUME BInv, NEW c \in Creation, BackingUp!DumpOpens(c) PROVE BInv'
<1> DEFINE content ==
      IF {d \in linked : progress[d] = "writing" /\ output[d] = output[c]} = {}
      THEN "partial" ELSE "mixed"
<1>1. /\ Advances(c, "writing")
      /\ files' = [files EXCEPT ![output[c]] = content]
      /\ linked' = linked \cup {c}
      /\ UNCHANGED rows
  BY DEF BackingUp!DumpOpens, Advances, Running
<1>2. /\ progress[c] = "started" /\ output[c] \in BackingUp!FileName
      /\ linked \subseteq Creation
      /\ files \in [BackingUp!FileName -> {"absent", "partial", "mixed", "whole"}]
      /\ rows \in [BackingUp!FileName -> Creation \cup {None}]
  BY <1>1, AdvancesKeeps DEF BackingUp!DumpOpens, BInv, BackingUp!TypeOK
<1>3. ASSUME Alone(c) PROVE content = "partial"
  <2>1. \A d \in Creation : d # c /\ progress[d] \in Running => output[d] # output[c]
    BY <1>2, <1>3 DEF BInv, FileIsOwn, Running
  <2> QED
    BY <1>2, <2>1 DEF Running
<1>4. content \in {"partial", "mixed"}
  OBVIOUS
<1> HIDE DEF content
<1>5. /\ files'[output[c]] = content
      /\ \A f \in BackingUp!FileName \ {output[c]} : files'[f] = files[f]
      /\ files' \in [BackingUp!FileName -> {"absent", "partial", "mixed", "whole"}]
  BY <1>1, <1>2, <1>4
<1> QED
  BY <1>1, <1>2, <1>3, <1>5, StepKeeps

LEMMA DumpSucceedsKeeps ==
  ASSUME BInv, NEW c \in Creation, BackingUp!DumpSucceeds(c) PROVE BInv'
<1>1. /\ Advances(c, "dumped")
      /\ files' = IF c \in linked /\ files[output[c]] = "partial"
                  THEN [files EXCEPT ![output[c]] = "whole"] ELSE files
      /\ linked' = linked \ {c}
      /\ UNCHANGED rows
  BY DEF BackingUp!DumpSucceeds, Advances, Running
<1>2. /\ progress[c] = "writing" /\ output[c] \in BackingUp!FileName
      /\ linked \subseteq Creation
      /\ files \in [BackingUp!FileName -> {"absent", "partial", "mixed", "whole"}]
      /\ rows \in [BackingUp!FileName -> Creation \cup {None}]
  BY <1>1, AdvancesKeeps DEF BackingUp!DumpSucceeds, BInv, BackingUp!TypeOK
<1>3. Alone(c) => c \in linked /\ files[output[c]] = "partial"
  BY <1>2 DEF BInv, FileIsOwn, Running
<1>4. /\ \A f \in BackingUp!FileName \ {output[c]} : files'[f] = files[f]
      /\ files' \in [BackingUp!FileName -> {"absent", "partial", "mixed", "whole"}]
      /\ Alone(c) => files'[output[c]] = "whole"
  BY <1>1, <1>2, <1>3
<1> QED
  BY <1>1, <1>2, <1>4, StepKeeps

LEMMA GiveUpKeeps ==
  ASSUME BInv, NEW c \in Creation, BackingUp!GiveUp(c) PROVE BInv'
<1>1. /\ Advances(c, "failed")
      /\ files' = [files EXCEPT ![output[c]] = "absent"]
      /\ linked' = {d \in linked : output[d] # output[c]}
      /\ UNCHANGED rows
  BY DEF BackingUp!GiveUp, BackingUp!Unlinked, Advances, Running
<1>2. /\ output[c] \in BackingUp!FileName /\ linked \subseteq Creation
      /\ files \in [BackingUp!FileName -> {"absent", "partial", "mixed", "whole"}]
      /\ rows \in [BackingUp!FileName -> Creation \cup {None}]
  BY <1>1, AdvancesKeeps DEF BInv, BackingUp!TypeOK
<1>3. /\ files'[output[c]] = "absent"
      /\ \A f \in BackingUp!FileName \ {output[c]} : files'[f] = files[f]
      /\ files' \in [BackingUp!FileName -> {"absent", "partial", "mixed", "whole"}]
  BY <1>1, <1>2
<1> QED
  BY <1>1, <1>2, <1>3, StepKeeps

\* pg_dump fails, the file is measured, or the row is inserted or not.
LEMMA FilesStayKeeps ==
  ASSUME BInv, NEW c \in Creation,
         BackingUp!DumpFails(c) \/ BackingUp!Measure(c) \/ BackingUp!Record(c)
  PROVE  BInv'
<1>1. /\ linked \subseteq Creation
      /\ files \in [BackingUp!FileName -> {"absent", "partial", "mixed", "whole"}]
      /\ rows \in [BackingUp!FileName -> Creation \cup {None}]
  BY DEF BInv, BackingUp!TypeOK
<1>2. CASE BackingUp!DumpFails(c)
  <2>1. Advances(c, "broken") /\ linked' = linked \ {c} /\ UNCHANGED <<files, rows>>
    BY <1>2 DEF BackingUp!DumpFails, Advances, Running
  <2> QED
    BY <1>1, <2>1, StepKeeps
<1>3. CASE BackingUp!Measure(c)
  <2>1. PICK next \in {"raised", "measured"} :
          /\ Advances(c, next) /\ UNCHANGED <<files, rows, linked>>
    BY <1>3 DEF BackingUp!Measure, Advances, Running
  <2>2. Alone(c) => files[output[c]] = "whole"
    BY <1>3 DEF BackingUp!Measure, BInv, FileIsOwn, Running
  <2> QED
    BY <1>1, <2>1, <2>2, StepKeeps
<1>4. CASE BackingUp!Record(c)
  <2>1. /\ progress[c] = "measured" /\ UNCHANGED <<files, linked>>
        /\ \/ Advances(c, "done") /\ rows' = [rows EXCEPT ![output[c]] = c]
           \/ Advances(c, "raised") /\ UNCHANGED rows
    BY <1>4 DEF BackingUp!Record, Advances, Running
  <2>2. Alone(c) => files[output[c]] = "whole"
    BY <2>1 DEF BInv, FileIsOwn, Running
  <2>3. CASE Advances(c, "done") /\ rows' = [rows EXCEPT ![output[c]] = c]
    <3>1. output[c] \in BackingUp!FileName /\ c # None
      BY <2>3, AdvancesKeeps, ClockIsBounded
    <3>2. /\ rows' \in [BackingUp!FileName -> Creation \cup {None}]
          /\ rows'[output[c]] # None
          /\ \A f \in BackingUp!FileName : rows[f] # None => rows'[f] # None
      BY <1>1, <2>3, <3>1
    <3> QED
      BY <1>1, <2>1, <2>2, <2>3, <3>2, StepKeeps
  <2>4. CASE Advances(c, "raised") /\ UNCHANGED rows
    BY <1>1, <2>1, <2>4, StepKeeps
  <2> QED
    BY <2>1, <2>3, <2>4
<1> QED
  BY <1>2, <1>3, <1>4

LEMMA RestartKeeps ==
  ASSUME BInv, BackingUp!Restart PROVE BInv'
<1>1. /\ progress \in [Creation -> Running \cup {"new", "done", "failed", "raised", "killed"}]
      /\ progress' = [c \in Creation |-> IF progress[c] \in Running THEN "killed" ELSE progress[c]]
      /\ linked' = {} /\ UNCHANGED <<day, second, files, rows, output, beside>>
  BY DEF BInv, BackingUp!TypeOK, BackingUp!Restart, Running, BackingUp!Running
<1>2. ASSUME NEW c \in Creation
      PROVE  progress'[c] = IF progress[c] \in Running THEN "killed" ELSE progress[c]
  BY <1>1
<1>3. BackingUp!TypeOK'
  <2>1. progress' \in [Creation -> Running \cup {"new", "done", "failed", "raised", "killed"}]
    BY <1>1
  <2> QED
    BY <1>1, <2>1 DEF BInv, BackingUp!TypeOK, Running, BackingUp!Running
<1>4. NamesAreGiven' /\ RunningHaveMet' /\ RowsAreKept' /\ FilesHaveCreations'
  BY <1>1, <1>2
  DEF BInv, NamesAreGiven, RunningHaveMet, RowsAreKept, FilesHaveCreations, Running
<1>5. \A c \in Creation : FileIsOwn(c)'
  BY <1>1, <1>2 DEF BInv, FileIsOwn, Alone, Running
<1> QED
  BY <1>3, <1>4, <1>5 DEF BInv

LEMMA BackupNext ==
  ASSUME BInv, BackingUp!Next \/ UNCHANGED backupVars PROVE BInv'
<1>1. CASE UNCHANGED backupVars
  <2>1. UNCHANGED <<day, second, files, rows, progress, output, linked, beside>>
    BY <1>1 DEF backupVars
  <2>2. BackingUp!TypeOK'
    BY <2>1 DEF BInv, BackingUp!TypeOK
  <2>3. NamesAreGiven' /\ RunningHaveMet' /\ RowsAreKept' /\ FilesHaveCreations'
    BY <2>1 DEF BInv, NamesAreGiven, RunningHaveMet, RowsAreKept, FilesHaveCreations
  <2>4. \A c \in Creation : FileIsOwn(c)'
    BY <2>1 DEF BInv, FileIsOwn, Alone
  <2> QED
    BY <2>2, <2>3, <2>4 DEF BInv
<1> QED
  BY <1>1, TickKeeps, StartKeeps, DumpOpensKeeps, DumpSucceedsKeeps, GiveUpKeeps,
     FilesStayKeeps, RestartKeeps
  DEF BackingUp!Next

-----------------------------------------------------------------------------
(* NotificationService                                                     *)

Rows == DOMAIN queue

SentRows == {k \in Rows : queue[k].sent}

\* The message that Telegram took and that is not marked yet.
Unmarked == IF stage = "marking" THEN 1 ELSE 0

SentIsReceived == \A k \in Rows : queue[k].sent => received[k] > 0

UnmarkedIsReceived ==
  stage = "marking" =>
    /\ work # {}
    /\ ~queue[Notifying!Oldest].sent
    /\ received[Notifying!Oldest] > 0

\* Every message Telegram took was marked, is about to be, or has lost its mark.
MessagesAreCounted ==
  SumFunctionOnSet(received, Rows) = lost + Cardinality(SentRows) + Unmarked

NInv ==
  /\ Notifying!TypeOK
  /\ SentIsReceived
  /\ UnmarkedIsReceived
  /\ MessagesAreCounted

\* The operators of an instance are those of the library.
LEMMA SameSum ==
  ASSUME NEW f, NEW S
  PROVE  Notifying!SumFunctionOnSet(f, S) = SumFunctionOnSet(f, S)
BY DEF Notifying!SumFunctionOnSet, SumFunctionOnSet, Notifying!FoldFunctionOnSet,
       FoldFunctionOnSet, Notifying!MapThenFoldSet, MapThenFoldSet

LEMMA SameCardinality ==
  ASSUME NEW S
  PROVE  Notifying!Cardinality(S) = Cardinality(S)
BY DEF Notifying!Cardinality, Cardinality

LEMMA RowsAreFinite ==
  ASSUME Notifying!TypeOK
  PROVE  /\ Len(queue) \in Nat /\ Rows = 1..Len(queue) /\ IsFiniteSet(Rows)
         /\ DOMAIN received = Rows
         /\ \A k \in Rows : received[k] \in Nat
         /\ \A k \in Rows : queue[k] \in [user : User, sent : BOOLEAN]
         /\ IsFiniteSet(SentRows) /\ Cardinality(SentRows) \in Nat
<1>1. /\ Len(queue) \in Nat /\ queue \in [1..Len(queue) -> [user : User, sent : BOOLEAN]]
      /\ received \in [1..Len(queue) -> Nat]
      /\ DOMAIN queue = 1..Len(queue) /\ DOMAIN received = 1..Len(queue)
  BY LenProperties DEF Notifying!TypeOK
<1>2. IsFiniteSet(1..Len(queue))
  BY <1>1, FS_Interval
<1>3. SentRows \in SUBSET (1..Len(queue))
  BY <1>1 DEF SentRows, Rows
<1>4. IsFiniteSet(SentRows) /\ Cardinality(SentRows) \in Nat
  BY <1>2, <1>3, FS_Subset, FS_CardinalityType
<1> QED
  BY <1>1, <1>2, <1>4 DEF Rows

LEMMA OldestIsWork ==
  ASSUME Notifying!TypeOK, work # {}
  PROVE  Notifying!Oldest \in work /\ Notifying!Oldest \in Rows
<1>1. work \in SUBSET Rows
  BY DEF Notifying!TypeOK, Rows
<1>2. IsFiniteSet(work) /\ \A x \in work : x \in Int
  BY <1>1, RowsAreFinite, FS_Subset
<1>3. Min(work) \in work
  BY <1>2, MinOfFinite
<1>4. Notifying!Oldest = Min(work)
  BY DEF Notifying!Oldest, Notifying!Min, Min
<1> QED
  BY <1>1, <1>3, <1>4

LEMMA NotificationInit == Notifying!Init => NInv
<1> SUFFICES ASSUME Notifying!Init PROVE NInv
  OBVIOUS
<1>1. queue = <<>> /\ received = <<>> /\ stage = "idle" /\ work = {} /\ lost = 0
  BY DEF Notifying!Init
<1>2. Notifying!TypeOK
  BY <1>1, QueueIsBounded DEF Notifying!TypeOK
<1>3. Rows = {} /\ SentRows = {}
  BY <1>1, <1>2, RowsAreFinite DEF SentRows
<1>4. MessagesAreCounted
  BY <1>1, <1>3, SumOfNothing, FS_EmptySet DEF MessagesAreCounted, Unmarked
<1> QED
  BY <1>1, <1>2, <1>3, <1>4 DEF NInv, SentIsReceived, UnmarkedIsReceived

LEMMA InsertKeeps ==
  ASSUME NInv, NEW u \in User, Notifying!Insert(u) PROVE NInv'
<1> DEFINE row == [user |-> u, sent |-> FALSE]
           new == Len(queue) + 1
<1>1. /\ queue' = Append(queue, row) /\ received' = Append(received, 0)
      /\ stage' = stage /\ work' = work /\ lost' = lost
  BY DEF Notifying!Insert
<1>2. /\ Notifying!TypeOK
      /\ queue \in Seq([user : User, sent : BOOLEAN]) /\ received \in Seq(Nat)
      /\ Len(received) = Len(queue)
  BY DEF NInv, Notifying!TypeOK
<1>3. /\ row \in [user : User, sent : BOOLEAN] /\ row.sent = FALSE
      /\ Len(queue) \in Nat
  BY <1>2, LenProperties
<1> HIDE DEF row
<1>4. /\ queue' \in Seq([user : User, sent : BOOLEAN]) /\ Len(queue') = new
      /\ \A k \in 1..Len(queue) : queue'[k] = queue[k]
      /\ queue'[new] = row
  BY <1>1, <1>2, <1>3, AppendProperties
<1>5. /\ received' \in Seq(Nat) /\ Len(received') = new
      /\ \A k \in 1..Len(queue) : received'[k] = received[k]
      /\ received'[new] = 0
  BY <1>1, <1>2, AppendProperties
<1>6. Rows = 1..Len(queue) /\ IsFiniteSet(Rows) /\ \A k \in Rows : received[k] \in Nat
  BY <1>2, RowsAreFinite
<1>7. DOMAIN queue' = 1..new
  BY <1>4, LenProperties
<1>8. Rows' = Rows \cup {new} /\ new \notin Rows
  BY <1>3, <1>6, <1>7 DEF Rows
<1>9. Notifying!TypeOK'
  BY <1>1, <1>2, <1>4, <1>5, <1>6, <1>8 DEF Notifying!TypeOK, Rows
<1>10. SentRows' = SentRows
  BY <1>3, <1>4, <1>6, <1>8 DEF SentRows
<1>11. SentIsReceived'
  BY <1>3, <1>4, <1>5, <1>6, <1>8 DEF NInv, SentIsReceived
<1>12. UnmarkedIsReceived'
  <2> SUFFICES ASSUME stage = "marking" PROVE UnmarkedIsReceived'
    BY <1>1 DEF UnmarkedIsReceived
  <2>1. /\ work # {} /\ ~queue[Notifying!Oldest].sent
        /\ received[Notifying!Oldest] > 0
    BY DEF NInv, UnmarkedIsReceived
  <2>2. Notifying!Oldest \in 1..Len(queue)
    BY <1>2, <1>6, <2>1, OldestIsWork
  <2>3. Notifying!Oldest' = Notifying!Oldest
    BY <1>1 DEF Notifying!Oldest, Notifying!Min
  <2> QED
    BY <1>1, <1>4, <1>5, <2>1, <2>2, <2>3 DEF UnmarkedIsReceived
<1>13. MessagesAreCounted'
  <2>1. SumFunctionOnSet(received', Rows) = SumFunctionOnSet(received, Rows)
    BY <1>5, <1>6, SumOfEquals
  <2>2. /\ \A k \in Rows \cup {new} : received'[k] \in Int
        /\ new \notin Rows
    BY <1>5, <1>6, <1>8
  <2>3. SumFunctionOnSet(received', Rows \cup {new})
          = received'[new] + SumFunctionOnSet(received', Rows)
    BY <1>6, <2>2, SumWith
  <2>4. SumFunctionOnSet(received, Rows) \in Int
    BY <1>6, SumType
  <2> QED
    BY <1>1, <1>5, <1>8, <1>10, <2>1, <2>3, <2>4 DEF NInv, MessagesAreCounted, Unmarked
<1> QED
  BY <1>9, <1>11, <1>12, <1>13 DEF NInv

\* A step that touches neither the rows nor the messages, and leaves nothing to
\* mark.
LEMMA RunKeeps ==
  ASSUME NInv, queue' = queue, received' = received,
         stage' \in {"idle", "sending"}, work' \subseteq DOMAIN queue,
         lost' \in 0..MaxLost, lost' = lost + Unmarked
  PROVE  NInv'
<1>1. Rows' = Rows /\ SentRows' = SentRows
  BY DEF Rows, SentRows
<1>2. Notifying!TypeOK /\ Notifying!TypeOK'
  BY DEF NInv, Notifying!TypeOK
<1>3. SentIsReceived' /\ UnmarkedIsReceived'
  BY <1>1 DEF NInv, SentIsReceived, UnmarkedIsReceived
<1>4. lost \in Nat /\ Cardinality(SentRows) \in Nat
  BY <1>2, RowsAreFinite, QueueIsBounded DEF Notifying!TypeOK
<1>5. Unmarked' = 0 /\ Unmarked \in Nat
  BY DEF Unmarked
<1>6. MessagesAreCounted'
  BY <1>1, <1>4, <1>5 DEF NInv, MessagesAreCounted
<1> QED
  BY <1>2, <1>3, <1>6 DEF NInv

LEMMA SendsKeeps ==
  ASSUME NInv, Notifying!Sends PROVE NInv'
<1> DEFINE k == Notifying!Oldest
<1>1. /\ stage = "sending" /\ work # {} /\ ~queue[k].sent
      /\ received' = [received EXCEPT ![k] = @ + 1]
      /\ stage' = "marking" /\ queue' = queue /\ work' = work /\ lost' = lost
  BY DEF Notifying!Sends
<1>2. /\ Notifying!TypeOK /\ received \in Seq(Nat) /\ Len(received) = Len(queue)
      /\ lost \in Int
  BY DEF NInv, Notifying!TypeOK
<1>3. /\ k \in Rows /\ Rows = 1..Len(queue) /\ IsFiniteSet(Rows)
      /\ \A j \in Rows : received[j] \in Nat
      /\ Cardinality(SentRows) \in Nat
  BY <1>1, <1>2, OldestIsWork, RowsAreFinite
<1>4. k' = k
  BY <1>1 DEF Notifying!Oldest, Notifying!Min
<1> HIDE DEF k
<1>5. received[k] + 1 \in Nat
  BY <1>3
<1>6. /\ received' \in Seq(Nat) /\ Len(received') = Len(received)
      /\ \A j \in Rows : received'[j] = IF j = k THEN received[k] + 1 ELSE received[j]
  BY <1>1, <1>2, <1>3, <1>5, ExceptSeq
<1>7. Rows' = Rows /\ SentRows' = SentRows
  BY <1>1 DEF Rows, SentRows
<1>8. Notifying!TypeOK'
  BY <1>1, <1>2, <1>6 DEF Notifying!TypeOK
<1>9. SentIsReceived'
  BY <1>1, <1>3, <1>6, <1>7 DEF NInv, SentIsReceived
<1>10. UnmarkedIsReceived'
  BY <1>1, <1>3, <1>4, <1>6 DEF UnmarkedIsReceived, k
<1>11. SumFunctionOnSet(received', Rows) = SumFunctionOnSet(received, Rows) + 1
  <2>1. IsFiniteSet(Rows) /\ k \in Rows
    BY <1>3
  <2>2. \A j \in Rows : received[j] \in Int
    BY <1>3
  <2>3. received'[k] \in Int /\ received'[k] - received[k] = 1
    BY <1>3, <1>6
  <2>4. \A j \in Rows \ {k} : received'[j] = received[j]
    BY <1>6
  <2>5. SumFunctionOnSet(received', Rows)
          = SumFunctionOnSet(received, Rows) + (received'[k] - received[k])
    BY <2>1, <2>2, <2>3, <2>4, SumChanged
  <2> QED
    BY <2>3, <2>5
<1>12. MessagesAreCounted'
  BY <1>1, <1>2, <1>3, <1>7, <1>11 DEF NInv, MessagesAreCounted, Unmarked
<1> QED
  BY <1>8, <1>9, <1>10, <1>12 DEF NInv

LEMMA MarksKeeps ==
  ASSUME NInv, Notifying!Marks PROVE NInv'
<1> DEFINE k == Notifying!Oldest
           row == [queue[k] EXCEPT !.sent = TRUE]
<1>1. /\ stage = "marking" /\ stage' = "sending"
      /\ queue' = [queue EXCEPT ![k] = row]
      /\ work' = work \ {k} /\ received' = received /\ lost' = lost
  BY DEF Notifying!Marks, Notifying!Marked
<1>2. /\ Notifying!TypeOK
      /\ queue \in Seq([user : User, sent : BOOLEAN])
      /\ work \subseteq DOMAIN queue /\ lost \in Int
  BY DEF NInv, Notifying!TypeOK
<1>3. work # {} /\ ~queue[k].sent /\ received[k] > 0
  BY <1>1 DEF NInv, UnmarkedIsReceived
<1>4. /\ k \in Rows /\ Rows = 1..Len(queue)
      /\ \A j \in Rows : queue[j] \in [user : User, sent : BOOLEAN]
      /\ IsFiniteSet(SentRows) /\ Cardinality(SentRows) \in Nat
  BY <1>2, <1>3, OldestIsWork, RowsAreFinite
<1>5. row \in [user : User, sent : BOOLEAN] /\ row.sent
  BY <1>4
<1> HIDE DEF k, row
<1>6. /\ queue' \in Seq([user : User, sent : BOOLEAN]) /\ Len(queue') = Len(queue)
      /\ \A j \in Rows : queue'[j] = IF j = k THEN row ELSE queue[j]
  BY <1>1, <1>2, <1>4, <1>5, ExceptSeq
<1>7. DOMAIN queue' = 1..Len(queue)
  BY <1>6, LenProperties
<1>8. Rows' = Rows
  BY <1>4, <1>7 DEF Rows
<1>9. Notifying!TypeOK'
  BY <1>1, <1>2, <1>6, <1>8 DEF Notifying!TypeOK, Rows
<1>10. SentIsReceived' /\ UnmarkedIsReceived'
  BY <1>1, <1>3, <1>4, <1>6, <1>8 DEF NInv, SentIsReceived, UnmarkedIsReceived
<1>11. SentRows' = SentRows \cup {k} /\ k \notin SentRows
  BY <1>3, <1>4, <1>5, <1>6, <1>8 DEF SentRows
<1>12. Cardinality(SentRows') = Cardinality(SentRows) + 1
  BY <1>4, <1>11, FS_AddElement
<1>13. MessagesAreCounted'
  BY <1>1, <1>2, <1>4, <1>8, <1>12 DEF NInv, MessagesAreCounted, Unmarked
<1> QED
  BY <1>9, <1>10, <1>13 DEF NInv

LEMMA NotificationNext ==
  ASSUME NInv, Notifying!Next \/ UNCHANGED notificationVars PROVE NInv'
<1>1. /\ Notifying!TypeOK /\ work \subseteq DOMAIN queue /\ lost \in 0..MaxLost
      /\ stage \in {"idle", "sending", "marking"} /\ MaxLost \in Nat
  BY QueueIsBounded DEF NInv, Notifying!TypeOK
<1>2. CASE UNCHANGED notificationVars
  <2>1. UNCHANGED <<queue, received, stage, work, lost>>
    BY <1>2 DEF notificationVars
  <2>2. Notifying!Oldest' = Notifying!Oldest
    BY <2>1 DEF Notifying!Oldest, Notifying!Min
  <2>3. Notifying!TypeOK'
    BY <1>1, <2>1 DEF Notifying!TypeOK
  <2>4. SentIsReceived' /\ UnmarkedIsReceived'
    BY <2>1, <2>2 DEF NInv, SentIsReceived, UnmarkedIsReceived, Rows
  <2>5. MessagesAreCounted'
    BY <2>1 DEF NInv, MessagesAreCounted, Rows, SentRows, Unmarked
  <2> QED
    BY <2>3, <2>4, <2>5 DEF NInv
<1>3. CASE Notifying!ReadPending
  <2>1. Unmarked = 0
    BY <1>3 DEF Notifying!ReadPending, Unmarked
  <2> QED
    BY <1>1, <1>3, <2>1, RunKeeps
    DEF Notifying!ReadPending, Notifying!FirstOf, Notifying!Pending
<1>4. CASE Notifying!IsRefused
  <2>1. Unmarked = 0
    BY <1>4 DEF Notifying!IsRefused, Unmarked
  <2> QED
    BY <1>1, <1>4, <2>1, RunKeeps DEF Notifying!IsRefused, Notifying!LeftPending
<1>5. CASE Notifying!BreaksOff
  <2>1. lost' = lost + Unmarked /\ lost' \in 0..MaxLost
    BY <1>1, <1>5 DEF Notifying!BreaksOff, Unmarked
  <2> QED
    BY <1>1, <1>5, <2>1, RunKeeps DEF Notifying!BreaksOff
<1>6. CASE Notifying!Ends
  <2>1. Unmarked = 0
    BY <1>6 DEF Notifying!Ends, Unmarked
  <2> QED
    BY <1>1, <1>6, <2>1, RunKeeps DEF Notifying!Ends
<1> QED
  BY <1>2, <1>3, <1>4, <1>5, <1>6, InsertKeeps, SendsKeeps, MarksKeeps DEF Notifying!Next

LEMMA CountBoundsRepetitions ==
  ASSUME NInv PROVE RepeatedOnlyAfterLoss
<1> DEFINE got == {k \in Rows : received[k] > 0}
           marking == IF stage = "marking" THEN {Notifying!Oldest} ELSE {}
<1>1. Notifying!TypeOK /\ lost \in Int
  BY DEF NInv, Notifying!TypeOK
<1>2. /\ IsFiniteSet(Rows) /\ IsFiniteSet(SentRows) /\ Cardinality(SentRows) \in Nat
  BY <1>1, RowsAreFinite
<1>3. SentRows \cup marking \subseteq got
  BY <1>1, OldestIsWork DEF NInv, SentIsReceived, UnmarkedIsReceived, SentRows
<1>4. Cardinality(SentRows \cup marking) = Cardinality(SentRows) + Unmarked
  <2>1. CASE stage = "marking"
    <3>1. Notifying!Oldest \notin SentRows
      BY <2>1 DEF NInv, UnmarkedIsReceived, SentRows
    <3> QED
      BY <1>2, <2>1, <3>1, FS_AddElement DEF Unmarked
  <2>2. CASE stage # "marking"
    BY <1>2, <2>2 DEF Unmarked
  <2> QED
    BY <2>1, <2>2
<1>5. IsFiniteSet(got)
  BY <1>2, FS_Subset
<1>6. /\ Cardinality(SentRows \cup marking) <= Cardinality(got)
      /\ Cardinality(got) \in Nat
  BY <1>3, <1>5, FS_Subset, FS_CardinalityType
<1>7. SumFunctionOnSet(received, Rows) <= lost + Cardinality(got)
  BY <1>1, <1>2, <1>4, <1>6 DEF NInv, MessagesAreCounted, Unmarked
<1> QED
  BY <1>7, SameSum, SameCardinality DEF RepeatedOnlyAfterLoss, Notifying!RepeatedOnlyAfterLoss, Rows

-----------------------------------------------------------------------------
(* Theorems                                                                *)

Inv == NInv /\ BInv

\* Both services keep their invariants, whatever the jobs, the administrators,
\* Telegram, pg_dump and restarts of the process do (deliver_pending, create).
THEOREM InvariantHolds == Spec => []Inv
<1>1. Init => Inv
  BY NotificationInit, BackupInit DEF Init, Inv
<1>2. Inv /\ [Next]_vars => Inv'
  <2> SUFFICES ASSUME Inv, [Next]_vars PROVE Inv'
    OBVIOUS
  <2>1. /\ Notifying!Next \/ UNCHANGED notificationVars
        /\ BackingUp!Next \/ UNCHANGED backupVars
    BY DEF Next, vars
  <2> QED
    BY <2>1, NotificationNext, BackupNext DEF Inv
<1> QED
  BY <1>1, <1>2, PTL DEF Spec

\* The queue, the run of deliver_pending, the directory of backups and the
\* creations of backups have their types.
THEOREM TypeCorrect == Spec => []TypeOK
<1>1. Inv => TypeOK
  BY DEF Inv, NInv, BInv, TypeOK
<1> QED
  BY <1>1, InvariantHolds, PTL

\* Telegram delivers a notification again only when a mark was lost, at most once
\* for each loss, however often runs break off and start again (deliver_pending).
THEOREM RepetitionsHaveLosses == Spec => []RepeatedOnlyAfterLoss
<1>1. Inv => RepeatedOnlyAfterLoss
  BY CountBoundsRepetitions DEF Inv
<1> QED
  BY <1>1, InvariantHolds, PTL

\* A backup with a row is whole unless a creation that ran beside it was given
\* the same file, for any number of creations (create).
THEOREM BackupsAreWhole == Spec => []RecordedBackupIsWhole
<1>1. Inv => RecordedBackupIsWhole
  BY DEF Inv, BInv, FileIsOwn, Alone, RecordedBackupIsWhole,
         BackingUp!RecordedBackupIsWhole
<1> QED
  BY <1>1, InvariantHolds, PTL

\* A file without a row belongs to a creation that still runs, was killed or
\* whose stat or insert raised: what a failed pg_dump left is gone (create).
THEOREM FilesAreExplained == Spec => []UnrecordedFileIsExplained
<1>1. Inv => UnrecordedFileIsExplained
  BY DEF Inv, BInv, FilesHaveCreations, RowsAreKept, UnrecordedFileIsExplained,
         BackingUp!UnrecordedFileIsExplained, BackingUp!Running, Running
<1> QED
  BY <1>1, InvariantHolds, PTL
=============================================================================
