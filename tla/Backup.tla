------------------------------- MODULE Backup -------------------------------
(***************************************************************************)
(* Backup and restore of the data directory (backup.py, web/server.py).    *)
(* A backup runs in a thread beside the writers of the live server:        *)
(* databases are snapshotted, every other file is copied as it stands, and *)
(* a writer truncates its file before it fills it.  A restore runs from    *)
(* the command line while the server is down, and may be cut short.        *)
(***************************************************************************)
EXTENDS Integers, FiniteSets

CONSTANTS
    Jsons, Dbs,             \* the files of the data directory, by kind
    MaxWrites, MaxBackups, MaxRestores, MaxCrashes  \* bounds

VARIABLES
    up,         \* the server is running
    data,       \* file -> version, None or Torn: the data directory
    kept,       \* the archives in data_dir/backups
    filling,    \* the files a writer has truncated and is filling
    staging,    \* the backups under way: the files left and what each has
    aside,      \* the directories moved aside, with their archives
    restoring,  \* the restore under way: its archive, the files left
    writes, backups, restores, crashes,
    \* history
    latest,     \* file -> the version last written, None once a crash cut it
    truth       \* the archive a finished restore put back, until a write

vars == <<up, data, kept, filling, staging, aside, restoring,
          writes, backups, restores, crashes, latest, truth>>

DataFiles == Jsons \cup Dbs
None == 0
Torn == -1
NoRestore == [at |-> "none"]
NoArchive == [id |-> 0]
Bare == [f \in DataFiles |-> None]

Init == /\ up = TRUE /\ data = Bare /\ kept = {} /\ filling = {}
        /\ staging = {} /\ aside = {} /\ restoring = NoRestore
        /\ writes = 0 /\ backups = 0 /\ restores = 0 /\ crashes = 0
        /\ latest = Bare /\ truth = NoArchive

(* A database commits whole; a JSON file is truncated, then filled.        *)
Commit(f) ==
    /\ up /\ writes < MaxWrites /\ f \in Dbs
    /\ writes' = writes + 1
    /\ data' = [data EXCEPT ![f] = writes']
    /\ latest' = [latest EXCEPT ![f] = writes']
    /\ truth' = NoArchive
    /\ UNCHANGED <<up, kept, filling, staging, aside, restoring, backups, restores, crashes>>

Truncate(f) ==
    /\ up /\ writes < MaxWrites /\ f \in Jsons \ filling
    /\ writes' = writes + 1
    /\ data' = [data EXCEPT ![f] = Torn]
    /\ filling' = filling \cup {f}
    /\ latest' = [latest EXCEPT ![f] = writes']
    /\ truth' = NoArchive
    /\ UNCHANGED <<up, kept, staging, aside, restoring, backups, restores, crashes>>

Fill(f) ==
    /\ f \in filling
    /\ data' = [data EXCEPT ![f] = latest[f]]
    /\ filling' = filling \ {f}
    /\ UNCHANGED <<up, kept, staging, aside, restoring, writes, backups, restores, crashes,
                   latest, truth>>

(* create_backup takes a name that no archive has, which another backup of  *)
(* the same second may have taken too, lists the directory, the backups    *)
(* left out ...                                                            *)
StartBackup ==
    /\ up /\ backups < MaxBackups
    /\ backups' = backups + 1
    /\ \E id \in {backups'} \cup {b.id : b \in staging} :
        /\ \A a \in kept : a.id # id
        /\ staging' = staging \cup {[no |-> backups', id |-> id, since |-> data,
                            left |-> {f \in DataFiles : data[f] # None}, got |-> Bare]}
    /\ UNCHANGED <<up, data, kept, filling, aside, restoring, writes, restores, crashes,
                   latest, truth>>

(* ... adds file after file to an archive in a temporary directory ...     *)
Copy(b, f) ==
    /\ f \in b.left
    /\ staging' = (staging \ {b}) \cup
                  {[b EXCEPT !.left = @ \ {f}, !.got = [@ EXCEPT ![f] = data[f]]]}
    /\ UNCHANGED <<up, data, kept, filling, aside, restoring, writes, backups, restores,
                   crashes, latest, truth>>

(* ... and moves it into place once it is complete, over the one that has  *)
(* its name by then, if any.  Mutant: it is written in place.              *)
MutantComplete(b) == TRUE
Complete(b) == b.left = {}
Publish(b) ==
    /\ Complete(b)
    /\ kept' = {a \in kept : a.id # b.id} \cup
               {[id |-> b.id, since |-> b.since, got |-> b.got]}
    /\ staging' = staging \ {b}
    /\ UNCHANGED <<up, data, filling, aside, restoring, writes, backups, restores, crashes,
                   latest, truth>>

(* The server stops between writes, or dies in one; backups go with it.    *)
Stop ==
    /\ up /\ filling = {} /\ staging = {}
    /\ up' = FALSE
    /\ UNCHANGED <<data, kept, filling, staging, aside, restoring, writes, backups, restores,
                   crashes, latest, truth>>

Crash ==
    /\ crashes < MaxCrashes /\ up
    /\ crashes' = crashes + 1
    /\ up' = FALSE /\ filling' = {} /\ staging' = {}
    /\ latest' = [f \in DataFiles |-> IF f \in filling THEN None ELSE latest[f]]
    /\ UNCHANGED <<data, kept, aside, restoring, writes, backups, restores, truth>>

Serve ==
    /\ ~up /\ restoring = NoRestore
    /\ up' = TRUE
    /\ UNCHANGED <<data, kept, filling, staging, aside, restoring, writes, backups, restores,
                   crashes, latest, truth>>

(* The archives that can be named: those of the data directory, and those  *)
(* moved aside with an earlier one.                                        *)
Archives == kept \cup UNION {d.kept : d \in aside}

(* restore_backup moves what is there aside, archives included, under a    *)
(* fresh name.                                                             *)
MovedAside == aside \cup {[id |-> restores', files |-> data, kept |-> kept]}

(* It starts over a directory with anything in it only when forced, and an *)
(* archive to restore lies in one.                                         *)
StartRestore(a) ==
    /\ ~up /\ restoring = NoRestore /\ restores < MaxRestores /\ a \in Archives
    /\ restores' = restores + 1
    /\ IF data = Bare /\ kept = {} THEN UNCHANGED aside ELSE aside' = MovedAside
    /\ data' = Bare /\ kept' = {}
    /\ restoring' = [at |-> "extracting", from |-> a,
                     left |-> {f \in DataFiles : a.got[f] # None}]
    /\ truth' = NoArchive
    /\ UNCHANGED <<up, filling, staging, writes, backups, crashes, latest>>

Extract(f) ==
    /\ restoring # NoRestore /\ f \in restoring.left
    /\ data' = [data EXCEPT ![f] = restoring.from.got[f]]
    /\ restoring' = [restoring EXCEPT !.left = @ \ {f}]
    /\ UNCHANGED <<up, kept, filling, staging, aside, writes, backups, restores, crashes,
                   latest, truth>>

EndRestore ==
    /\ restoring # NoRestore /\ restoring.left = {}
    /\ restoring' = NoRestore
    /\ truth' = restoring.from
    /\ UNCHANGED <<up, data, kept, filling, staging, aside, writes, backups, restores, crashes,
                   latest>>

(* The command is killed: what it extracted stays.                         *)
CutRestore ==
    /\ crashes < MaxCrashes /\ restoring # NoRestore
    /\ crashes' = crashes + 1
    /\ restoring' = NoRestore
    /\ UNCHANGED <<up, data, kept, filling, staging, aside, writes, backups, restores, latest,
                   truth>>

Next ==
    \/ \E f \in DataFiles : \/ Commit(f) \/ Truncate(f) \/ Fill(f)
                        \/ Extract(f) \/ \E b \in staging : Copy(b, f)
    \/ StartBackup \/ (\E b \in staging : Publish(b)) \/ Stop \/ Crash \/ Serve
    \/ \E a \in Archives : StartRestore(a)
    \/ EndRestore \/ CutRestore

(* Whatever is restored, forced and cut short, the last version written of *)
(* every file is in the data directory or in one moved aside.              *)
NothingDeleted == \A f \in DataFiles \ filling :
    latest[f] = None \/ latest[f] = data[f] \/ \E d \in aside : d.files[f] = latest[f]

(* An archive has every file there was when it was begun, each no older    *)
(* than it was then, and its databases whole, whatever the server was      *)
(* doing meanwhile.                                                        *)
ArchivesComplete == \A a \in Archives : \A f \in DataFiles :
    /\ a.since[f] # None => a.got[f] # None
    /\ a.got[f] # Torn => a.got[f] >= a.since[f]
    /\ f \in Dbs => a.got[f] # Torn

(* A finished restore puts the archive back, and nothing of what was there *)
(* before.                                                                 *)
RestoredIsArchived == truth # NoArchive => data = truth.got

BackupSound == NothingDeleted /\ ArchivesComplete /\ RestoredIsArchived

(* backup.py:7 "archiving a live server can never capture a torn write":   *)
(* so it is for databases; a JSON file may be caught empty.                *)
NoneTorn == \A a \in Archives : \A f \in DataFiles : a.got[f] = Torn => a.since[f] = Torn

(* backup.py:102 "same-second backups: bump a suffix, never overwrite":    *)
(* two that start before either is in place take one name.                 *)
NeverOverwritten == [][Archives \subseteq Archives']_vars
=============================================================================
