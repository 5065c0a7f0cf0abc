------------------------------- MODULE Backups -------------------------------
(* Backups of a server's volume: backup, list_backups, restore_backup and     *)
(* delete_backup of the dispatcher (daemon/src/agent/dispatcher.rs) with the  *)
(* archives of skyperf-core/src/backup.rs.  An archive is named after the     *)
(* second its backup began in, is written file by file while the game server  *)
(* runs, and is unpacked entry by entry over what the volume holds.           *)
(*                                                                            *)
(* The volume is flat: directories add nothing to what is checked here.  Any  *)
(* call can fail, and the daemon can die at any point.  A command that fails  *)
(* before its first effect (a missing argument, a name backup_path rejects, a *)
(* volume or an archive that is not there) changes nothing and is no step.    *)
EXTENDS Naturals, Sequences, Functions

CONSTANTS
    Files, Versions,
    NoFile, Cut,        \* a file that is not there; one that is written in part
    MaxSecond,          \* bound on the clock
    PerSecond,          \* backups that begin in one second
    Tasks

ASSUME BackupsAssumption == MaxSecond \in Nat \ {0} /\ PerSecond \in Nat

Seconds == 1..MaxSecond

VARIABLES
    volume,     \* what each file holds
    archives,   \* the archive of each second: its state and its entries
    clock,
    begun,      \* backups begun in this second
    done,       \* archives a BackupDone event was emitted for, not deleted since
    task        \* each task: where it is, the archive it works on, the files or
                \* archives it has still to go through, the archive it reads,
                \* its listing; and as history, the volume and done when it
                \* began, and whether nobody else has changed the volume since

backupVars == <<volume, archives, clock, begun, done, task>>

Empty == [f \in {} |-> NoFile]
NoArchive == [state |-> "absent", entries |-> Empty, mtime |-> 0]
Idle == [at |-> "idle", secs |-> 0, todo |-> {}, source |-> NoArchive, listed |-> <<>>,
         before |-> Empty, acked |-> {}, quiet |-> FALSE]

Present == {f \in Files : volume[f] # NoFile}
Existing == {s \in Seconds : archives[s].state # "absent"}
Writers(s) == {t \in Tasks : task[t].at = "backup.append" /\ task[t].secs = s}

BackupsTypeOK ==
    /\ volume \in [Files -> Versions \cup {NoFile, Cut}]
    /\ DOMAIN archives = Seconds
    /\ \A s \in Seconds :
        /\ archives[s].state \in {"absent", "open", "whole", "mixed"}
        /\ DOMAIN archives[s].entries \subseteq Files
    /\ clock \in Nat /\ begun \in 0..PerSecond
    /\ done \subseteq Seconds
    /\ \A t \in Tasks : DOMAIN task[t] = DOMAIN Idle

BackupsInit ==
    /\ volume \in [Files -> Versions]
    /\ archives = [s \in Seconds |-> NoArchive]
    /\ clock = 1 /\ begun = 0 /\ done = {}
    /\ task = [t \in Tasks |-> Idle]

\* The volume becomes vol, which disturbs the tasks that did not do it.
Disturbed(vol, t) ==
    IF vol = volume THEN task[t] ELSE [task[t] EXCEPT !.quiet = FALSE, !.before = Empty]

Become(t, vol, new) ==
    /\ volume' = vol
    /\ task' = [u \in Tasks |-> IF u = t THEN new ELSE Disturbed(vol, u)]

Stays == UNCHANGED <<clock, begun>>

-----------------------------------------------------------------------------
\* Action::Backup

\* Mutant: the event is emitted, and the name acked, when the archive is opened.
BackupCreatesAcking(t) ==
    /\ task[t] = Idle
    /\ begun < PerSecond
    /\ begun' = begun + 1
    /\ archives' = [archives EXCEPT ![clock] =
                      [NoArchive EXCEPT !.state = IF Writers(clock) = {} THEN "open" ELSE "mixed",
                                        !.mtime = clock]]
    /\ done' = done \cup {clock}
    /\ Become(t, volume, [Idle EXCEPT !.at = "backup.append", !.secs = clock, !.todo = Present,
                                      !.before = volume, !.quiet = TRUE])
    /\ UNCHANGED clock

\* Takes the name from the clock and creates the archive, or truncates the one
\* of the same second; if that is still being written, the two get mixed.
BackupCreates(t) ==
    /\ task[t] = Idle
    /\ begun < PerSecond
    /\ begun' = begun + 1
    /\ archives' = [archives EXCEPT ![clock] =
                      [NoArchive EXCEPT !.state = IF Writers(clock) = {} THEN "open" ELSE "mixed",
                                        !.mtime = clock]]
    /\ Become(t, volume, [Idle EXCEPT !.at = "backup.append", !.secs = clock, !.todo = Present,
                                      !.before = volume, !.quiet = TRUE])
    /\ UNCHANGED <<clock, done>>

\* append_dir_all puts the next file into the archive, unless that is deleted.
Appended(archive, f) ==
    IF archive.state = "absent" THEN archive
    ELSE [archive EXCEPT !.entries = [g \in DOMAIN @ \cup {f} |-> IF g = f THEN volume[f] ELSE @[g]],
                         !.mtime = clock]

\* The file may have gone since the directory was read, which Fails stands for;
\* an archive that was deleted meanwhile is written to all the same.
BackupAppends(t) ==
    /\ task[t].at = "backup.append"
    /\ \E f \in task[t].todo :
        /\ volume[f] # NoFile
        /\ archives' = [archives EXCEPT ![task[t].secs] = Appended(@, f)]
        /\ Become(t, volume, [task[t] EXCEPT !.todo = @ \ {f}])
    /\ UNCHANGED done /\ Stays

\* Mutant: finishes without having gone through the directory.
BackupFinishesEarly(t) ==
    LET s == task[t].secs IN
    /\ task[t].at = "backup.append"
    /\ archives[s].state # "absent"
    /\ archives' = [archives EXCEPT ![s].state = IF @ = "mixed" THEN @ ELSE "whole",
                                    ![s].mtime = clock]
    /\ done' = done \cup {s}
    /\ Become(t, volume, [task[t] EXCEPT !.at = "ok"])
    /\ Stays

\* The archive is finished and synced, its size read by name, the event sent.
BackupFinishes(t) ==
    LET s == task[t].secs IN
    /\ task[t].at = "backup.append" /\ task[t].todo = {}
    /\ archives[s].state # "absent"
    /\ archives' = [archives EXCEPT ![s].state = IF @ = "mixed" THEN @ ELSE "whole",
                                    ![s].mtime = clock]
    /\ done' = done \cup {s}
    /\ Become(t, volume, [task[t] EXCEPT !.at = "ok"])
    /\ Stays

-----------------------------------------------------------------------------
\* Action::RestoreBackup

RestoreOpens(t, s) ==
    /\ task[t] = Idle
    /\ archives[s].state # "absent"
    /\ Become(t, volume, [Idle EXCEPT !.at = "restore.entry", !.secs = s, !.source = archives[s],
                                      !.todo = DOMAIN archives[s].entries,
                                      !.before = volume, !.quiet = TRUE])
    /\ UNCHANGED <<archives, done>> /\ Stays

\* An archive that is still being written is read on as it grows.
RestoreReadsOn(t) ==
    LET from == task[t].source
        grown == archives[task[t].secs] IN
    /\ task[t].at = "restore.entry"
    /\ from.state = "open" /\ grown.state \in {"open", "whole"} /\ grown # from
    /\ DOMAIN from.entries \subseteq DOMAIN grown.entries
    /\ Become(t, volume, [task[t] EXCEPT !.source = grown,
                              !.todo = @ \cup (DOMAIN grown.entries \ DOMAIN from.entries)])
    /\ UNCHANGED <<archives, done>> /\ Stays

\* Mutant: the archive's index is written to the file instead of the entry.
RestoreUnpacksIndex(t) ==
    /\ task[t].at = "restore.entry"
    /\ \E f \in task[t].todo :
        Become(t, [volume EXCEPT ![f] = task[t].source.entries],
               [task[t] EXCEPT !.todo = @ \ {f}])
    /\ UNCHANGED <<archives, done>> /\ Stays

\* An entry is unpacked over the file, or fails with the file written in part.
RestoreUnpacks(t) ==
    /\ task[t].at = "restore.entry"
    /\ \E f \in task[t].todo :
        \/ Become(t, [volume EXCEPT ![f] = task[t].source.entries[f]],
                  [task[t] EXCEPT !.todo = @ \ {f}])
        \/ Become(t, [volume EXCEPT ![f] = Cut], Idle)
    /\ UNCHANGED <<archives, done>> /\ Stays

\* Mutant: the end of the file is taken for the end of the archive.
RestoreEndsAtEof(t) ==
    /\ task[t].at = "restore.entry" /\ task[t].todo = {}
    /\ Become(t, volume, [task[t] EXCEPT !.at = "ok"])
    /\ UNCHANGED <<archives, done>> /\ Stays

\* Only a whole archive ends in an end: any other is an error once its entries
\* are used up, which Fails stands for.
RestoreEnds(t) ==
    /\ task[t].at = "restore.entry" /\ task[t].todo = {}
    /\ task[t].source.state = "whole"
    /\ Become(t, volume, [task[t] EXCEPT !.at = "ok"])
    /\ UNCHANGED <<archives, done>> /\ Stays

-----------------------------------------------------------------------------
\* Action::DeleteBackup and Action::ListBackups

Delete(t, s) ==
    /\ task[t] = Idle
    /\ archives[s].state # "absent"
    /\ archives' = [archives EXCEPT ![s] = NoArchive]
    /\ done' = done \ {s}
    /\ Become(t, volume, Idle)
    /\ Stays

ListOpens(t) ==
    /\ task[t] = Idle
    /\ Become(t, volume, [Idle EXCEPT !.at = "list.stat", !.todo = Existing, !.acked = done])
    /\ UNCHANGED <<archives, done>> /\ Stays

\* An archive that has gone since the directory was read fails the listing.
ListStats(t) ==
    /\ task[t].at = "list.stat"
    /\ \E s \in task[t].todo :
        /\ archives[s].state # "absent"
        /\ Become(t, volume, [task[t] EXCEPT !.todo = @ \ {s},
                                     !.listed = Append(@, <<s, archives[s].mtime>>)])
    /\ UNCHANGED <<archives, done>> /\ Stays

\* The stable sort: archives of one time stay in the directory's order, which
\* is any.
NewestFirst(list) ==
    {sorted \in {[i \in DOMAIN list |-> list[p[i]]] : p \in Bijection(DOMAIN list, DOMAIN list)} :
        \A i, j \in DOMAIN list : i < j => sorted[i][2] >= sorted[j][2]}

\* Mutant: the directory is not read to its end.
ListEndsEarly(t) ==
    /\ task[t].at = "list.stat"
    /\ \E sorted \in NewestFirst(task[t].listed) :
        Become(t, volume, [task[t] EXCEPT !.at = "ok", !.listed = sorted])
    /\ UNCHANGED <<archives, done>> /\ Stays

ListEnds(t) ==
    /\ task[t].at = "list.stat" /\ task[t].todo = {}
    /\ \E sorted \in NewestFirst(task[t].listed) :
        Become(t, volume, [task[t] EXCEPT !.at = "ok", !.listed = sorted])
    /\ UNCHANGED <<archives, done>> /\ Stays

-----------------------------------------------------------------------------

\* A call fails, for a reason the code checks for or any other.
Fails(t) ==
    /\ task[t].at \notin {"idle", "ok"}
    /\ Become(t, volume, Idle)
    /\ UNCHANGED <<archives, done>> /\ Stays

Return(t) ==
    /\ task[t].at = "ok"
    /\ Become(t, volume, Idle)
    /\ UNCHANGED <<archives, done>> /\ Stays

\* The game server saves or removes a file.
ServerWrites(f, v) ==
    /\ volume' = [volume EXCEPT ![f] = v]
    /\ task' = [t \in Tasks |-> Disturbed(volume', t)]
    /\ UNCHANGED <<archives, done>> /\ Stays

Tick ==
    /\ clock < MaxSecond
    /\ clock' = clock + 1 /\ begun' = 0
    /\ UNCHANGED <<volume, archives, done, task>>

\* The daemon dies and is restarted.
Crash ==
    /\ task' = [t \in Tasks |-> Idle]
    /\ UNCHANGED <<volume, archives, done>> /\ Stays

BackupsStep(t) ==
    \/ BackupCreates(t) \/ BackupAppends(t) \/ BackupFinishes(t)
    \/ \E s \in Seconds : RestoreOpens(t, s) \/ Delete(t, s)
    \/ RestoreReadsOn(t) \/ RestoreUnpacks(t) \/ RestoreEnds(t)
    \/ ListOpens(t) \/ ListStats(t) \/ ListEnds(t)
    \/ Fails(t) \/ Return(t)

BackupsNext ==
    \/ \E t \in Tasks : BackupsStep(t)
    \/ \E f \in Files, v \in Versions \cup {NoFile} : ServerWrites(f, v)
    \/ Tick
    \/ Crash

BackupsSpec == BackupsInit /\ [][BackupsNext]_backupVars

-----------------------------------------------------------------------------
\* Properties

\* An archive the panel was told is done stays a whole archive until it is
\* deleted: no later backup, failed backup, restore or crash spoils it.
DoneIsWhole == \A s \in done : archives[s].state = "whole"

\* A backup that is acked holds exactly the files there were, if nobody else
\* changed the volume while it was made.
BackupIsExact ==
    \A t \in Tasks :
        LET c == task[t] IN
        (c.at = "ok" /\ c.quiet /\ c.secs \in done /\ c.source = NoArchive) =>
            LET kept == {f \in Files : c.before[f] # NoFile}
            IN  archives[c.secs].entries = [f \in kept |-> c.before[f]]

\* A restore that nobody disturbs changes only files of its archive; when it is
\* acked, the archive was whole, each of its files is as it was backed up and
\* every other file is as it was.
RestoreIsExact ==
    \A t \in Tasks :
        LET c == task[t] IN
        (c.quiet /\ c.source # NoArchive) =>
            /\ \A f \in Files \ DOMAIN c.source.entries : volume[f] = c.before[f]
            /\ c.at = "ok" =>
                /\ c.source.state = "whole"
                /\ \A f \in DOMAIN c.source.entries : volume[f] = c.source.entries[f]

\* A listing that succeeds names every archive that was done when it began and
\* is still there, however archives come and go meanwhile, the most recently
\* written first.
AckedIsListed ==
    \A t \in Tasks :
        LET c == task[t]
            names == {c.listed[i][1] : i \in DOMAIN c.listed}
        IN c.at = "ok" =>
            /\ c.acked \cap done \subseteq names
            /\ \A i, j \in DOMAIN c.listed : i < j => c.listed[i][2] >= c.listed[j][2]
=============================================================================
