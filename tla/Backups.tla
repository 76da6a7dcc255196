------------------------------- MODULE Backups -------------------------------
(***************************************************************************)
(* BackupService (app/application/services/maintenance.py): the files      *)
(* pg_dump writes into the directory backups and the rows of the table     *)
(* backups.  A creation is started by the daily job "backup" or by an      *)
(* administrator; nothing keeps two of them apart.                         *)
(*                                                                         *)
(* The name of the file is chosen without an await, so that step is        *)
(* atomic; pg_dump opens the file later, in a process of its own.          *)
(***************************************************************************)
EXTENDS Naturals, FiniteSets

CONSTANTS
  Creation,    \* bound: the calls of BackupService.create
  None,        \* no creation
  MaxDay,      \* bound of the clock
  MaxSecond    \* bound: the seconds of a day

VARIABLES
  day, second, \* the clock
  files,       \* the directory
  rows,        \* backups: which creation recorded the file of that name
  stage,       \* how far a creation is
  output,      \* the file it was given
  linked,      \* the creations whose open file is still in the directory
  beside       \* history: the pairs of creations that ran at the same time, or
               \* were given a name in the same second

vars == <<day, second, files, rows, stage, output, linked, beside>>

\* backup_YYYY_MM_DD, with the time of day (a set, empty without
\* it) when that exists already.
FileName == [day : 1..MaxDay, at : {{}} \cup {{s} : s \in 0..MaxSecond}]

Running == {"started", "writing", "dumped", "broken", "measured"}

TypeOK ==
  /\ day \in 1..MaxDay /\ second \in 0..MaxSecond
  /\ files \in [FileName -> {"absent", "partial", "mixed", "whole"}]
  /\ rows \in [FileName -> Creation \cup {None}]
  /\ stage \in [Creation -> Running \cup {"new", "done", "failed", "raised", "killed"}]
  /\ output \in [Creation -> FileName \cup {None}]
  /\ linked \subseteq Creation
  /\ beside \subseteq {{c, d} : c, d \in Creation}

Init ==
  /\ day = 1 /\ second = 0
  /\ files = [f \in FileName |-> "absent"]
  /\ rows = [f \in FileName |-> None]
  /\ stage = [c \in Creation |-> "new"]
  /\ output = [c \in Creation |-> None]
  /\ linked = {}
  /\ beside = {}

Tick ==
  /\ \/ second < MaxSecond /\ second' = second + 1 /\ day' = day
     \/ day < MaxDay /\ second' = 0 /\ day' = day + 1
  /\ UNCHANGED <<files, rows, stage, output, linked, beside>>

-----------------------------------------------------------------------------
(* create                                                                  *)

PlainName == [day |-> day, at |-> {}]

\* Mutant: an existing file of the day is not looked for.
AlwaysPlain == PlainName

ChosenName ==
  IF files[PlainName] = "absent" THEN PlainName ELSE [day |-> day, at |-> {second}]

\* Whoever runs now, or was given a name in this very second.
Met(c) ==
  {d \in Creation \ {c} :
     stage[d] \in Running \/ (output[d] # None /\ output[d] = [day |-> day, at |-> {second}])}

\* create up to the start of pg_dump.
Start(c) ==
  /\ stage[c] = "new"
  /\ output' = [output EXCEPT ![c] = ChosenName]
  /\ stage' = [stage EXCEPT ![c] = "started"]
  /\ beside' = beside \cup {{c, d} : d \in Met(c)}
  /\ UNCHANGED <<day, second, files, rows, linked>>

\* pg_dump truncates the file, or creates it, and writes.
DumpOpens(c) ==
  LET others == {d \in linked : stage[d] = "writing" /\ output[d] = output[c]} IN
  /\ stage[c] = "started"
  /\ files' = [files EXCEPT ![output[c]] = IF others = {} THEN "partial" ELSE "mixed"]
  /\ stage' = [stage EXCEPT ![c] = "writing"]
  /\ linked' = linked \cup {c}
  /\ UNCHANGED <<day, second, rows, output, beside>>

\* pg_dump ends with the return code 0: nothing else wrote into its file, or
\* something did.
DumpSucceeds(c) ==
  /\ stage[c] = "writing"
  /\ files' = IF c \in linked /\ files[output[c]] = "partial"
              THEN [files EXCEPT ![output[c]] = "whole"] ELSE files
  /\ stage' = [stage EXCEPT ![c] = "dumped"]
  /\ linked' = linked \ {c}
  /\ UNCHANGED <<day, second, rows, output, beside>>

\* pg_dump ends with another return code, before or after it opened the file.
DumpFails(c) ==
  /\ stage[c] \in {"started", "writing"}
  /\ stage' = [stage EXCEPT ![c] = "broken"]
  /\ linked' = linked \ {c}
  /\ UNCHANGED <<day, second, files, rows, output, beside>>

\* Mutant: what a failed pg_dump left is kept.
LeftBehind(f) == files

Unlinked(f) == [files EXCEPT ![f] = "absent"]

\* The file is unlinked, whoever else writes to it, and RuntimeError raised.
GiveUp(c) ==
  /\ stage[c] = "broken"
  /\ files' = Unlinked(output[c])
  /\ linked' = {d \in linked : output[d] # output[c]}
  /\ stage' = [stage EXCEPT ![c] = "failed"]
  /\ UNCHANGED <<day, second, rows, output, beside>>

\* output.stat(), which raises for a file that was unlinked meanwhile.
Measure(c) ==
  /\ stage[c] = "dumped"
  /\ stage' = [stage EXCEPT ![c] = IF files[output[c]] = "absent" THEN "raised" ELSE "measured"]
  /\ UNCHANGED <<day, second, files, rows, output, linked, beside>>

\* The row is inserted; file_name is unique, and the database may fail.
Record(c) ==
  /\ stage[c] = "measured"
  /\ \/ /\ rows[output[c]] = None
        /\ rows' = [rows EXCEPT ![output[c]] = c]
        /\ stage' = [stage EXCEPT ![c] = "done"]
     \/ /\ stage' = [stage EXCEPT ![c] = "raised"]
        /\ UNCHANGED rows
  /\ UNCHANGED <<day, second, files, output, linked, beside>>

\* The process stops, and pg_dump with it.
Restart ==
  /\ \E c \in Creation : stage[c] \in Running
  /\ stage' = [c \in Creation |-> IF stage[c] \in Running THEN "killed" ELSE stage[c]]
  /\ linked' = {}
  /\ UNCHANGED <<day, second, files, rows, output, beside>>

Next ==
  \/ Tick
  \/ \E c \in Creation :
       \/ Start(c) \/ DumpOpens(c) \/ DumpSucceeds(c) \/ DumpFails(c)
       \/ GiveUp(c) \/ Measure(c) \/ Record(c)
  \/ Restart

Spec == Init /\ [][Next]_vars

-----------------------------------------------------------------------------
(* Properties *)

\* A backup that has a row can be restored, whatever other creations did before
\* or after it, failed ones included, and whenever the process was restarted;
\* it is lost or damaged only by a creation that ran at the same time.
RecordedBackupIsWhole ==
  \A c \in Creation :
    stage[c] = "done" /\ files[output[c]] # "whole"
      => \E d \in Creation : {c, d} \in beside /\ output[d] = output[c]

\* A file that no row names was left by a failing insert, by a restart, or
\* belongs to a creation that still runs: a failed pg_dump leaves none.
UnrecordedFileIsExplained ==
  \A f \in FileName : files[f] # "absent" /\ rows[f] = None =>
    \E c \in Creation :
      /\ output[c] = f
      /\ stage[c] \in Running \cup {"killed", "raised"}

=============================================================================
