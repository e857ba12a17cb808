----------------------------- MODULE SnapshotFile -----------------------------
(***************************************************************************)
(* save_snapshot_atomic and CrawlQueueManager::load: the snapshot file of   *)
(* the crawler, its backup and its temporary file, under kills of the       *)
(* process and losses of power at any moment and under failing writes.      *)
(*                                                                         *)
(* Data: a snapshot is the number of its save, 1, 2, ...  The file system   *)
(* is external: after a loss of power data that was not synced may be       *)
(* missing, and the last rename may be undone.                              *)
(***************************************************************************)
EXTENDS Integers

CONSTANT MaxSnapshots   \* bound: snapshots taken

ASSUME MaxSnapshotsAssumption == MaxSnapshots \in Nat

VARIABLES
  phase,      \* where save_snapshot_atomic stands
  taken,      \* snapshots taken so far; the one being saved is the last
  main,       \* content of the snapshot file
  bak,        \* content of its backup
  tmp,        \* content of the temporary file
  unsynced,   \* the files whose data may not be on the disk yet
  stable,     \* content of the snapshot file whose rename is on the disk
  confirmed,  \* history: the last save that returned Ok
  powerLost   \* history: the power was lost

files == <<main, bak, tmp, unsynced, stable>>
fileVars == <<phase, taken, files, confirmed, powerLost>>

-------------------------------------------------------------------------------
Absent == 0
Torn == -1
Contents == {Torn, Absent} \cup 1..MaxSnapshots

Phases == {"idle", "copy", "copying", "write", "writing", "sync", "rename"}

FileInit ==
  /\ phase = "idle" /\ taken = 0
  /\ main = Absent /\ bak = Absent /\ tmp = Absent
  /\ unsynced = {} /\ stable = Absent
  /\ confirmed = Absent /\ powerLost = FALSE

Take ==
  /\ phase = "idle"
  /\ taken < MaxSnapshots
  /\ taken' = taken + 1
  /\ phase' = IF main = Absent THEN "write" ELSE "copy"
  /\ UNCHANGED <<files, confirmed, powerLost>>

CopyBegins ==
  /\ phase = "copy"
  /\ phase' = "copying"
  /\ bak' = Torn
  /\ unsynced' = unsynced \cup {"bak"}
  /\ UNCHANGED <<taken, main, tmp, stable, confirmed, powerLost>>

\* Best effort: the save goes on when the copy fails half-way.
CopyEnds ==
  /\ phase = "copying"
  /\ phase' = "write"
  /\ bak' \in {main, Torn}
  /\ UNCHANGED <<taken, main, tmp, unsynced, stable, confirmed, powerLost>>

\* Mutant: the snapshot is written over the target.
WriteBeginsInPlace ==
  /\ phase = "write"
  /\ phase' = "writing"
  /\ tmp' = Torn /\ main' = Torn
  /\ unsynced' = unsynced \cup {"tmp", "main"}
  /\ UNCHANGED <<taken, bak, stable, confirmed, powerLost>>

\* File::create truncates what an earlier save left in the temporary file.
WriteBegins ==
  /\ phase = "write"
  /\ phase' = "writing"
  /\ tmp' = Torn
  /\ unsynced' = unsynced \cup {"tmp"}
  /\ UNCHANGED <<taken, main, bak, stable, confirmed, powerLost>>

\* Mutant: there is no sync between the write and the rename.
WriteEndsUnsynced ==
  /\ phase = "writing"
  /\ phase' = "rename"
  /\ tmp' = taken
  /\ UNCHANGED <<taken, main, bak, unsynced, stable, confirmed, powerLost>>

WriteEnds ==
  /\ phase = "writing"
  /\ phase' = "sync"
  /\ tmp' = taken
  /\ UNCHANGED <<taken, main, bak, unsynced, stable, confirmed, powerLost>>

SyncData ==
  /\ phase = "sync"
  /\ phase' = "rename"
  /\ unsynced' = unsynced \ {"tmp"}
  /\ UNCHANGED <<taken, main, bak, tmp, stable, confirmed, powerLost>>

Rename ==
  /\ phase = "rename"
  /\ phase' = "idle"
  /\ main' = tmp /\ tmp' = Absent
  /\ unsynced' = IF "tmp" \in unsynced THEN (unsynced \ {"tmp"}) \cup {"main"}
                 ELSE unsynced \ {"main"}
  /\ confirmed' = taken
  /\ UNCHANGED <<taken, bak, stable, powerLost>>

\* The first call that fails ends the save; the files stay as they are.
SaveFails ==
  /\ phase \in {"write", "writing", "sync", "rename"}
  /\ phase' = "idle"
  /\ UNCHANGED <<taken, files, confirmed, powerLost>>

\* External: the file system has written the directory.
Settle ==
  /\ stable' = main
  /\ UNCHANGED <<phase, taken, main, bak, tmp, unsynced, confirmed, powerLost>>

\* External: the process is killed; the kernel keeps what was written.
Kill ==
  /\ phase' = "idle"
  /\ UNCHANGED <<taken, files, confirmed, powerLost>>

\* External: the machine stops.
PowerLoss ==
  /\ phase' = "idle"
  /\ \E lost \in SUBSET unsynced :
       /\ main' \in IF "main" \in lost THEN {Torn} ELSE {main, stable}
       /\ bak' = IF "bak" \in lost THEN Torn ELSE bak
       /\ tmp' = IF "tmp" \in lost THEN Torn ELSE tmp
  /\ unsynced' = {}
  /\ stable' = main'
  /\ powerLost' = TRUE
  /\ UNCHANGED <<taken, confirmed>>

FileNext ==
  \/ Take \/ CopyBegins \/ CopyEnds \/ WriteBegins \/ WriteEnds \/ SyncData
  \/ Rename \/ SaveFails
  \/ Settle \/ Kill \/ PowerLoss

FileSpec == FileInit /\ [][FileNext]_fileVars

\* What a start reads: the file, else its backup, else nothing.
Loaded ==
  IF main > 0 THEN main
  ELSE IF bak > 0 THEN bak
  ELSE Absent

-------------------------------------------------------------------------------
(* Properties.                                                             *)

\* Types, and that a backup is made of an existing file only.
FilesTyped ==
  /\ phase \in Phases /\ taken \in 0..MaxSnapshots
  /\ {main, bak, tmp, stable} \subseteq Contents
  /\ unsynced \subseteq {"main", "bak", "tmp"}
  /\ confirmed \in 0..MaxSnapshots /\ powerLost \in BOOLEAN
  /\ phase \in {"copy", "copying"} => main # Absent

\* The comment of save_snapshot_atomic: whenever the process is killed, and even
\* if the machine stops, the target is the complete old or the complete new file.
PrimaryNeverTorn == main # Torn

\* However a process dies, and wherever in a save, the next one starts from the
\* last save that returned Ok; only a loss of power may bring back an older one.
LatestSurvivesKill == ~powerLost => Loaded = confirmed

\* A snapshot that is on the disk for good is never replaced by an older one or
\* by nothing, whatever stops afterwards.
DurableSurvives == [][Loaded' >= stable]_fileVars
===============================================================================
