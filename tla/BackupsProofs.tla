---------------------------- MODULE BackupsProofs ----------------------------
(* What backups promise, for any volume, any number of tasks and any length   *)
(* of time, when at most one backup begins in a second: an archive that was   *)
(* acked stays whole, a backup and a restore are exact and a listing names    *)
(* every archive that was done.                                               *)
(*                                                                            *)
(* The promises are about tasks that answer; the inductive invariant is about *)
(* how far every task is.  A writer has an archive of its own that is not     *)
(* done and holds the files it has gone through (Writer, OneWriter); what a   *)
(* restore has read stays a part of its archive, however that grows           *)
(* (Restorer); what a listing has not named yet it has still to go through    *)
(* (Lister).  Nothing carries the name of a second in which no backup has     *)
(* begun.                                                                     *)
EXTENDS Backups, SequenceTheorems, TLAPS

Contents == Versions \cup {NoFile, Cut}
Entries == UNION {[D -> Contents] : D \in SUBSET Files}

ArchiveFields == {"state", "entries", "mtime"}

IsArchive(a) ==
    /\ DOMAIN a = ArchiveFields /\ a = [f \in ArchiveFields |-> a[f]]
    /\ a.state \in {"absent", "open", "whole"} /\ a.entries \in Entries /\ a.mtime \in Nat

TaskFields == {"at", "secs", "todo", "source", "listed", "before", "acked", "quiet"}

IsTask(c) ==
    /\ DOMAIN c = TaskFields /\ c = [f \in TaskFields |-> c[f]]
    /\ c.secs \in Nat /\ IsArchive(c.source) /\ c.listed \in Seq(Seconds \X Nat)
    /\ c.acked \subseteq Seconds

Typed ==
    /\ volume \in [Files -> Contents]
    /\ archives = [s \in Seconds |-> archives[s]]
    /\ \A s \in Seconds : IsArchive(archives[s])
    /\ clock \in Seconds /\ begun \in {0, 1}
    /\ done \subseteq Seconds
    /\ task = [t \in Tasks |-> task[t]]
    /\ \A t \in Tasks : IsTask(task[t])

\* A second in which a backup may have begun.
Begun(s) == s \in Seconds /\ s <= clock /\ (s = clock => begun = 1)

Writing(t) == task[t].at = "backup.append"
Kept(t) == {f \in Files : task[t].before[f] # NoFile}
NamesOf(list) == {list[i][1] : i \in DOMAIN list}
Names(t) == NamesOf(task[t].listed)
NothingListed(t) == task[t].acked = {} /\ task[t].listed = <<>>

Extends(grown, from) ==
    /\ DOMAIN from \subseteq DOMAIN grown
    /\ \A f \in DOMAIN from : grown[f] = from[f]

\* A backup under way.
Writer(t) ==
    LET c == task[t]
        archive == archives[task[t].secs]
    IN  /\ Writing(t) /\ c.source = NoArchive /\ NothingListed(t)
        /\ Begun(c.secs) /\ c.secs \notin done
        /\ archive.state \in {"open", "absent"}
        /\ c.todo \subseteq Files
        /\ c.quiet => c.before = volume /\ c.todo \subseteq Kept(t)
        /\ archive.state = "open" =>
            /\ c.todo \cap DOMAIN archive.entries = {}
            /\ c.quiet => archive.entries = [f \in Kept(t) \ c.todo |-> c.before[f]]

\* A backup that was acked.
BackedUp(t) ==
    LET c == task[t]
        archive == archives[task[t].secs]
    IN  /\ c.at = "ok" /\ c.source = NoArchive /\ NothingListed(t)
        /\ Begun(c.secs)
        /\ archive.state \in {"whole", "absent"}
        /\ c.quiet /\ archive.state = "whole" =>
            archive.entries = [f \in Kept(t) |-> c.before[f]]

\* A restore under way, or acked.
Restorer(t) ==
    LET c == task[t]
        from == task[t].source
    IN  /\ c.at \in {"restore.entry", "ok"} /\ NothingListed(t)
        /\ Begun(c.secs)
        /\ from.state \in {"open", "whole"}
        /\ archives[c.secs].state # "absent" => Extends(archives[c.secs].entries, from.entries)
        /\ c.todo \subseteq DOMAIN from.entries
        /\ c.quiet =>
            /\ \A f \in Files \ DOMAIN from.entries : volume[f] = c.before[f]
            /\ \A f \in DOMAIN from.entries \ c.todo : volume[f] = from.entries[f]
        /\ c.at = "ok" => from.state = "whole" /\ c.todo = {}

\* A listing under way, or answered.
Lister(t) ==
    LET c == task[t]
    IN  /\ c.at \in {"list.stat", "ok"} /\ c.source = NoArchive /\ c.secs = 0
        /\ c.todo \subseteq Seconds
        /\ \A s \in c.acked : Begun(s) /\ archives[s].state \in {"whole", "absent"}
        /\ c.acked \cap done \subseteq Names(t) \cup c.todo
        /\ c.at = "ok" =>
            /\ c.todo = {}
            /\ \A i, j \in DOMAIN c.listed : i < j => c.listed[i][2] >= c.listed[j][2]

TaskInv(t) == task[t] = Idle \/ Writer(t) \/ BackedUp(t) \/ Restorer(t) \/ Lister(t)

OneWriter ==
    \A t, u \in Tasks : (Writing(t) /\ Writing(u) /\ task[t].secs = task[u].secs) => t = u

ArchiveInv == \A s \in Seconds : archives[s].state # "absent" => Begun(s)

DoneInv == \A s \in done : archives[s].state = "whole"

BackupsInv ==
    /\ Typed
    /\ ArchiveInv
    /\ DoneInv
    /\ OneWriter
    /\ \A t \in Tasks : TaskInv(t)

USE BackupsAssumption

\* Most leaves are set and first-order reasoning; the others name SMT.
USE ZenonT(60)

-----------------------------------------------------------------------------
\* What a task is left with when another one, or the game server, goes on

\* A task that does nothing: it may learn that the volume was changed.
Same(t) ==
    /\ task'[t].at = task[t].at /\ task'[t].secs = task[t].secs
    /\ task'[t].todo = task[t].todo /\ task'[t].source = task[t].source
    /\ task'[t].listed = task[t].listed /\ task'[t].acked = task[t].acked
    /\ task'[t].quiet => task[t].quiet /\ task'[t].before = task[t].before /\ volume' = volume
    /\ task[t] = Idle => task'[t] = Idle

Untouched(s) == archives'[s] = archives[s] /\ (s \in done' => s \in done)
Removed(s) == archives'[s] = NoArchive /\ s \notin done'
Grows(s) ==
    /\ archives[s].state = "open" /\ archives'[s].state # "absent"
    /\ Extends(archives'[s].entries, archives[s].entries)

\* All that happens to archives that have a name: one of them may grow.
World(own) ==
    \A s : Begun(s) => Begun(s)' /\ (Untouched(s) \/ Removed(s) \/ (s = own /\ Grows(s)))

\* An archive that is not being written is left as it is or deleted.
LEMMA Settled ==
    ASSUME NEW own, World(own), NEW s, Begun(s), archives[s].state \in {"whole", "absent"}
    PROVE  /\ Begun(s)'
           /\ archives'[s].state \in {"whole", "absent"}
           /\ archives'[s].state = "whole" => archives'[s] = archives[s]
           /\ s \in done' => s \in done
<1>1. Begun(s)' /\ (Untouched(s) \/ Removed(s) \/ (s = own /\ Grows(s)))
  BY DEF World
<1>2. NoArchive.state = "absent" BY SMT DEF NoArchive
<1> QED BY SMT, <1>1, <1>2 DEF Untouched, Removed, Grows

\* A backup under way is not disturbed by others: nobody else writes its archive.
LEMMA WriterStays ==
    ASSUME Typed, NEW own, World(own), NEW t \in Tasks, Same(t), Writer(t), own # task[t].secs
    PROVE  Writer(t)'
<1>0. PICK s : s = task[t].secs OBVIOUS
<1>1. Begun(s)' /\ (Untouched(s) \/ Removed(s)) BY <1>0 DEF World, Writer
<1>2. NoArchive.state = "absent" BY SMT DEF NoArchive
<1>3. task'[t].secs = s BY <1>0 DEF Same
<1>4. /\ archives'[s].state \in {"open", "absent"} /\ s \notin done'
      /\ archives'[s].state = "open" => archives'[s] = archives[s]
  BY SMT, <1>0, <1>1, <1>2 DEF Untouched, Removed, Writer
<1>5. /\ Writing(t)' /\ NothingListed(t)' /\ task'[t].source = NoArchive /\ task'[t].todo \subseteq Files
  BY DEF Same, Writer, Writing, NothingListed
<1>6. task'[t].quiet => /\ task[t].quiet /\ Kept(t)' = Kept(t) /\ task'[t].before = task[t].before
                        /\ volume' = volume /\ task'[t].todo = task[t].todo
  BY DEF Same, Kept
<1>7. task'[t].quiet => task'[t].before = volume' /\ task'[t].todo \subseteq Kept(t)'
  BY <1>6 DEF Writer
<1>8. archives'[s].state = "open" =>
        /\ task'[t].todo \cap DOMAIN archives'[s].entries = {}
        /\ task'[t].quiet => archives'[s].entries = [f \in Kept(t)' \ task'[t].todo |-> task'[t].before[f]]
  <2> SUFFICES ASSUME archives'[s].state = "open"
               PROVE  /\ task'[t].todo \cap DOMAIN archives'[s].entries = {}
                      /\ task'[t].quiet => archives'[s].entries =
                            [f \in Kept(t)' \ task'[t].todo |-> task'[t].before[f]]
    OBVIOUS
  <2>1. archives'[s] = archives[s] /\ archives[s].state = "open" BY <1>4
  <2>2. /\ task[t].todo \cap DOMAIN archives[s].entries = {}
        /\ task[t].quiet => archives[s].entries = [f \in Kept(t) \ task[t].todo |-> task[t].before[f]]
    BY <1>0, <2>1 DEF Writer
  <2>3. task'[t].todo = task[t].todo BY DEF Same
  <2> QED BY <1>6, <2>1, <2>2, <2>3
<1> QED BY <1>1, <1>3, <1>4, <1>5, <1>7, <1>8 DEF Writer

\* A backup that was acked is not spoilt.
LEMMA BackedUpStays ==
    ASSUME Typed, NEW own, World(own), NEW t \in Tasks, Same(t), BackedUp(t)
    PROVE  BackedUp(t)'
<1>0. PICK s : s = task[t].secs OBVIOUS
<1>1. /\ Begun(s)' /\ archives'[s].state \in {"whole", "absent"}
      /\ archives'[s].state = "whole" => archives'[s] = archives[s]
  BY <1>0, Settled DEF BackedUp
<1>2. /\ task'[t].at = "ok" /\ task'[t].secs = s /\ NothingListed(t)' /\ task'[t].source = NoArchive
  BY <1>0 DEF Same, BackedUp, NothingListed
<1>3. task'[t].quiet => task[t].quiet /\ Kept(t)' = Kept(t) /\ task'[t].before = task[t].before
  BY DEF Same, Kept
<1>4. task[t].quiet /\ archives[s].state = "whole" =>
        archives[s].entries = [f \in Kept(t) |-> task[t].before[f]]
  BY <1>0 DEF BackedUp
<1>5. task'[t].quiet /\ archives'[s].state = "whole" =>
        archives'[s].entries = [f \in Kept(t)' |-> task'[t].before[f]]
  BY <1>1, <1>3, <1>4
<1> QED BY <1>1, <1>2, <1>5 DEF BackedUp

\* What a restore has read stays a part of its archive.
LEMMA RestorerStays ==
    ASSUME Typed, NEW own, World(own), NEW t \in Tasks, Same(t), Restorer(t)
    PROVE  Restorer(t)'
<1>0. PICK s, from : s = task[t].secs /\ from = task[t].source OBVIOUS
<1>1. Begun(s)' /\ (Untouched(s) \/ Removed(s) \/ Grows(s)) BY <1>0 DEF World, Restorer
<1>2. NoArchive.state = "absent" BY SMT DEF NoArchive
<1>3. archives[s].state # "absent" => Extends(archives[s].entries, from.entries)
  BY <1>0 DEF Restorer
<1>4. archives'[s].state # "absent" => Extends(archives'[s].entries, from.entries)
  <2>1. CASE Untouched(s) BY <1>3, <2>1 DEF Untouched, Extends
  <2>2. CASE Removed(s) BY <1>2, <2>2 DEF Removed
  <2>3. CASE Grows(s)
    <3>1. Extends(archives'[s].entries, archives[s].entries) /\ archives[s].state # "absent"
      BY <2>3 DEF Grows
    <3> QED BY <1>3, <3>1 DEF Extends
  <2> QED BY <1>1, <2>1, <2>2, <2>3
<1>5. /\ task'[t].at = task[t].at /\ task'[t].secs = s /\ task'[t].source = from
      /\ task'[t].todo = task[t].todo /\ NothingListed(t)'
  BY <1>0 DEF Same, Restorer, NothingListed
<1>6. task'[t].quiet => task[t].quiet /\ task'[t].before = task[t].before /\ volume' = volume
  BY DEF Same
<1>7. task[t].quiet =>
            /\ \A f \in Files \ DOMAIN from.entries : volume[f] = task[t].before[f]
            /\ \A f \in DOMAIN from.entries \ task[t].todo : volume[f] = from.entries[f]
  BY <1>0 DEF Restorer
<1>8. /\ task[t].at \in {"restore.entry", "ok"} /\ from.state \in {"open", "whole"}
      /\ task[t].todo \subseteq DOMAIN from.entries
      /\ task[t].at = "ok" => from.state = "whole" /\ task[t].todo = {}
  BY <1>0 DEF Restorer
<1>9. task'[t].quiet =>
            /\ \A f \in Files \ DOMAIN from.entries : volume'[f] = task'[t].before[f]
            /\ \A f \in DOMAIN from.entries \ task[t].todo : volume'[f] = from.entries[f]
  BY <1>6, <1>7
<1> QED BY <1>1, <1>4, <1>5, <1>8, <1>9 DEF Restorer

\* What was done when a listing began, and still is, it has named or will.
LEMMA ListerStays ==
    ASSUME Typed, NEW own, World(own), NEW t \in Tasks, Same(t), Lister(t)
    PROVE  Lister(t)'
<1>1. \A s \in task[t].acked : /\ Begun(s)' /\ archives'[s].state \in {"whole", "absent"}
                               /\ s \in done' => s \in done
  BY Settled DEF Lister
<1>2. /\ task'[t].at = task[t].at /\ task'[t].secs = task[t].secs /\ task'[t].source = task[t].source
      /\ task'[t].todo = task[t].todo /\ task'[t].acked = task[t].acked
      /\ task'[t].listed = task[t].listed /\ Names(t)' = Names(t)
  BY DEF Same, Names
<1>3. task'[t].acked \cap done' \subseteq Names(t)' \cup task'[t].todo
  BY <1>1, <1>2 DEF Lister
<1> QED BY <1>1, <1>2, <1>3 DEF Lister

\* So whatever a task is doing, the steps of others leave it to go on.
LEMMA TaskStays ==
    ASSUME Typed, NEW own, World(own), NEW t \in Tasks, Same(t), TaskInv(t),
           Writing(t) => own # task[t].secs
    PROVE  TaskInv(t)'
<1>1. CASE task[t] = Idle BY <1>1 DEF Same, TaskInv
<1>2. CASE Writer(t) BY <1>2, WriterStays DEF TaskInv, Writer
<1>3. CASE BackedUp(t) BY <1>3, BackedUpStays DEF TaskInv
<1>4. CASE Restorer(t) BY <1>4, RestorerStays DEF TaskInv
<1>5. CASE Lister(t) BY <1>5, ListerStays DEF TaskInv
<1> QED BY <1>1, <1>2, <1>3, <1>4, <1>5 DEF TaskInv

-----------------------------------------------------------------------------
\* What every step leaves

\* The values the model starts from are well formed.
LEMMA EmptyTyped == Empty \in Entries /\ Empty = [f \in {} |-> NoFile] /\ DOMAIN Empty = {}
<1>1. {} \in SUBSET Files OBVIOUS
<1>2. Empty \in [{} -> Contents] BY DEF Empty
<1>3. Empty \in Entries BY <1>1, <1>2 DEF Entries
<1>4. DOMAIN Empty = {} BY DEF Empty
<1> QED BY <1>3, <1>4 DEF Empty

\* No archive, and a task at rest, are well formed.
LEMMA NoArchiveTyped ==
    /\ IsArchive(NoArchive)
    /\ NoArchive.state = "absent" /\ NoArchive.entries = Empty
<1>1. 0 \in Nat BY SMT
<1> QED BY <1>1, EmptyTyped DEF NoArchive, IsArchive, ArchiveFields

\* A task at rest has nothing to show.
LEMMA IdleTyped ==
    /\ IsTask(Idle)
    /\ Idle.at = "idle" /\ Idle.secs = 0 /\ Idle.source = NoArchive /\ Idle.acked = {}
    /\ Idle.listed = <<>> /\ Idle.before = Empty /\ Idle.quiet = FALSE
<1>1. <<>> \in Seq(Seconds \X Nat) /\ 0 \in Nat BY SMT
<1> QED BY <1>1, NoArchiveTyped DEF Idle, IsTask, TaskFields

\* A task at rest is not disturbed.
LEMMA IdleIsIdle == [Idle EXCEPT !.quiet = FALSE, !.before = Empty] = Idle
BY IdleTyped DEF IsTask, TaskFields

\* A task that writes is a writer.
LEMMA WritersWrite ==
    ASSUME NEW t \in Tasks, TaskInv(t), Writing(t)
    PROVE  Writer(t)
BY IdleTyped DEF TaskInv, Writing, BackedUp, Restorer, Lister

\* A task that is disturbed is otherwise the same.
LEMMA DisturbedSame ==
    ASSUME NEW u \in Tasks, NEW vol, IsTask(task[u]), volume' = vol, task'[u] = Disturbed(vol, u)
    PROVE  Same(u)
<1>1. CASE vol = volume BY <1>1 DEF Disturbed, Same
<1>2. CASE vol # volume
  <2>1. task'[u] = [task[u] EXCEPT !.quiet = FALSE, !.before = Empty]
    BY <1>2 DEF Disturbed
  <2>2. /\ task'[u].at = task[u].at /\ task'[u].secs = task[u].secs
        /\ task'[u].todo = task[u].todo /\ task'[u].source = task[u].source
        /\ task'[u].listed = task[u].listed /\ task'[u].acked = task[u].acked
        /\ task'[u].quiet = FALSE
    BY <2>1 DEF IsTask, TaskFields
  <2>3. task[u] = Idle => task'[u] = Idle
    BY <2>1, IdleIsIdle
  <2> QED BY <2>2, <2>3 DEF Same
<1> QED BY <1>1, <1>2

\* When a task goes on, the others do nothing.
LEMMA OthersSame ==
    ASSUME BackupsInv, NEW t \in Tasks, NEW vol, NEW new, IsTask(new), Become(t, vol, new)
    PROVE  /\ task' = [u \in Tasks |-> task'[u]] /\ \A u \in Tasks : IsTask(task'[u])
           /\ volume' = vol
           /\ task'[t] = new
           /\ \A u \in Tasks \ {t} : Same(u)
<1>1. /\ volume' = vol /\ task'[t] = new
      /\ task' = [u \in Tasks |-> IF u = t THEN new ELSE Disturbed(vol, u)]
  BY SMT DEF Become
<1>2. \A u \in Tasks : IsTask(task[u]) BY DEF BackupsInv, Typed
<1>3. ASSUME NEW u \in Tasks PROVE IsTask(Disturbed(vol, u))
  BY <1>2 DEF Disturbed, IsTask, TaskFields
<1>4. ASSUME NEW u \in Tasks \ {t} PROVE Same(u)
  <2>1. task'[u] = Disturbed(vol, u) /\ IsTask(task[u]) BY <1>1, <1>2
  <2> QED BY <1>1, <2>1, DisturbedSame
<1> QED BY SMT, <1>1, <1>3, <1>4

\* The other tasks keep the invariant.
LEMMA OthersKeep ==
    ASSUME BackupsInv, NEW t \in Tasks, NEW own, World(own),
           \A u \in Tasks \ {t} : Same(u),
           \A u \in Tasks \ {t} : Writing(u) => own # task[u].secs,
           TaskInv(t)'
    PROVE  \A u \in Tasks : TaskInv(u)'
BY TaskStays DEF BackupsInv

\* A step that touches no archive leaves every other task to its own.
LEMMA ReadStep ==
    ASSUME BackupsInv, NEW t \in Tasks, NEW vol \in [Files -> Contents], NEW new, IsTask(new),
           Become(t, vol, new), new.at # "backup.append",
           UNCHANGED <<archives, clock, begun, done>>,
           TaskInv(t)'
    PROVE  BackupsInv'
<1>1. /\ task' = [u \in Tasks |-> task'[u]] /\ \A u \in Tasks : IsTask(task'[u])
      /\ volume' = vol /\ task'[t] = new
      /\ \A u \in Tasks \ {t} : Same(u)
  BY OthersSame
<1>2. World(0) BY DEF World, Untouched, Begun
<1>3. \A u \in Tasks : Writing(u) => task[u].secs \in Seconds
  BY WritersWrite DEF BackupsInv, Writer, Begun
<1>4. \A u \in Tasks : Writing(u) => 0 # task[u].secs
  BY SMT, <1>3 DEF Seconds
<1>5. \A u \in Tasks : TaskInv(u)' BY <1>1, <1>2, <1>4, OthersKeep
<1>6. \A u \in Tasks : Writing(u)' => Writing(u) /\ task'[u].secs = task[u].secs
  BY <1>1 DEF Same, Writing
<1>7. OneWriter' BY <1>6 DEF BackupsInv, OneWriter
<1>8. Typed' BY <1>1 DEF BackupsInv, Typed
<1>9. ArchiveInv' /\ DoneInv' BY DEF BackupsInv, ArchiveInv, DoneInv, Begun
<1> QED BY <1>5, <1>7, <1>8, <1>9 DEF BackupsInv

\* So does one after which the task is at rest.
LEMMA RestStep ==
    ASSUME BackupsInv, NEW t \in Tasks, NEW vol \in [Files -> Contents], Become(t, vol, Idle),
           UNCHANGED <<archives, clock, begun, done>>
    PROVE  BackupsInv'
<1>1. IsTask(Idle) /\ Idle.at # "backup.append" BY IdleTyped
<1>2. task'[t] = Idle BY DEF Become
<1> QED BY <1>1, <1>2, ReadStep DEF TaskInv

-----------------------------------------------------------------------------
\* Backups and deletes

ArchivesTyped == archives = [s \in Seconds |-> archives[s]] /\ \A s \in Seconds : IsArchive(archives[s])

\* A step that changes archives, of which no other task writes own.
LEMMA WriteStep ==
    ASSUME BackupsInv, NEW t \in Tasks, NEW new, IsTask(new), Become(t, volume, new),
           NEW own, World(own),
           \A u \in Tasks \ {t} : Writing(u) => own # task[u].secs,
           new.at = "backup.append" => new.secs = own,
           ArchivesTyped', ArchiveInv', DoneInv', done' \subseteq Seconds,
           clock' \in Seconds, begun' \in {0, 1},
           TaskInv(t)'
    PROVE  BackupsInv'
<1>1. volume \in [Files -> Contents] BY DEF BackupsInv, Typed
<1>2. /\ task' = [u \in Tasks |-> task'[u]] /\ \A u \in Tasks : IsTask(task'[u])
      /\ volume' = volume /\ task'[t] = new
      /\ \A u \in Tasks \ {t} : Same(u)
  BY <1>1, OthersSame
<1>3. \A u \in Tasks : TaskInv(u)' BY <1>2, OthersKeep
<1>4. \A u \in Tasks \ {t} : Writing(u)' => Writing(u) /\ task'[u].secs = task[u].secs
  BY <1>2 DEF Same, Writing
<1>5. OneWriter' BY <1>2, <1>4 DEF BackupsInv, OneWriter, Writing
<1>6. Typed' BY <1>1, <1>2 DEF Typed, ArchivesTyped
<1> QED BY <1>3, <1>5, <1>6 DEF BackupsInv

\* A backup that begins is the first of its second.
LEMMA CreateStep ==
    ASSUME BackupsInv, PerSecond = 1, NEW t \in Tasks, BackupCreates(t)
    PROVE  BackupsInv'
<1> DEFINE new == [Idle EXCEPT !.at = "backup.append", !.secs = clock, !.todo = Present,
                               !.before = volume, !.quiet = TRUE]
           opened == [NoArchive EXCEPT !.state = "open", !.mtime = clock]
<1>1. begun = 0 /\ begun' = 1 /\ clock' = clock /\ clock \in Seconds /\ clock \in Nat /\ done' = done
  BY SMT DEF BackupsInv, Typed, BackupCreates, Seconds
<1>2. /\ IsTask(new) /\ new.at = "backup.append" /\ new.secs = clock /\ new.todo = Present
      /\ new.before = volume /\ new.source = NoArchive /\ new.acked = {} /\ new.listed = <<>>
  BY <1>1, IdleTyped DEF IsTask, TaskFields
<1>3. Become(t, volume, new) BY DEF BackupCreates
<1>4. /\ IsArchive(opened) /\ opened.state = "open" /\ opened.entries = Empty
  BY <1>1, NoArchiveTyped DEF IsArchive, ArchiveFields
<1>5. \A s : Begun(s) => s \in Seconds /\ s # clock BY SMT, <1>1 DEF Begun
<1>6. \A u \in Tasks : Writing(u) => task[u].secs # clock
  BY <1>5, WritersWrite DEF BackupsInv, Writer
<1>7. Writers(clock) = {} BY <1>6 DEF Writers, Writing
<1>8. archives' = [archives EXCEPT ![clock] = opened]
  BY <1>7 DEF BackupCreates
<1> HIDE DEF new, opened
<1>9. /\ archives' = [s \in Seconds |-> archives'[s]]
      /\ archives'[clock] = opened /\ \A s \in Seconds : s # clock => archives'[s] = archives[s]
  BY SMT, <1>1, <1>8 DEF BackupsInv, Typed
<1>10. ArchivesTyped' BY <1>4, <1>9 DEF BackupsInv, Typed, ArchivesTyped
<1>11. \A s : Begun(s) => Begun(s)' BY SMT, <1>1 DEF Begun
<1>12. Begun(clock)' BY SMT, <1>1 DEF Begun, Seconds
<1>13. ArchiveInv' BY <1>1, <1>9, <1>11, <1>12 DEF BackupsInv, ArchiveInv
<1>14. \A s \in done : Begun(s) BY SMT DEF BackupsInv, DoneInv, ArchiveInv, Typed
<1>15. DoneInv' BY <1>1, <1>5, <1>9, <1>14 DEF BackupsInv, Typed, DoneInv
<1>16. World(clock)
  <2> SUFFICES ASSUME NEW r, Begun(r) PROVE Begun(r)' /\ Untouched(r)
    BY DEF World
  <2> QED BY <1>1, <1>5, <1>9, <1>11 DEF Untouched
<1>17. task'[t] = new /\ volume' = volume
  BY <1>3 DEF Become
<1>18. Writer(t)'
  <2>1. Kept(t)' = Present BY <1>2, <1>17 DEF Kept, Present
  <2>2. Present \ Present = {} /\ Empty = [f \in {} |-> volume[f]] /\ Present \subseteq Files
    BY SMT DEF Empty, Present
  <2>3. archives'[clock].entries = [f \in Kept(t)' \ task'[t].todo |-> task'[t].before[f]]
    BY <1>2, <1>4, <1>9, <1>17, <2>1, <2>2
  <2>4. task'[t].todo \cap DOMAIN archives'[clock].entries = {}
    BY <1>4, <1>9, EmptyTyped
  <2>5. clock \notin done' BY <1>1, <1>5, <1>14
  <2>6. Writing(t)' /\ NothingListed(t)' BY <1>2, <1>17 DEF Writing, NothingListed
  <2> QED BY <1>1, <1>2, <1>4, <1>9, <1>12, <1>17, <2>1, <2>2, <2>3, <2>4, <2>5, <2>6 DEF Writer
<1>19. done' \subseteq Seconds /\ clock' \in Seconds /\ begun' \in {0, 1}
  BY <1>1 DEF BackupsInv, Typed
<1>20. TaskInv(t)' BY <1>18 DEF TaskInv
<1> QED BY <1>2, <1>3, <1>6, <1>10, <1>13, <1>15, <1>16, <1>19, <1>20, WriteStep

\* An entry is added for a file that had none.
LEMMA AppendStep ==
    ASSUME BackupsInv, NEW t \in Tasks, BackupAppends(t)
    PROVE  BackupsInv'
<1>0. Writer(t) BY WritersWrite DEF BackupAppends, Writing, BackupsInv
<1>1. PICK f \in task[t].todo :
        /\ archives' = [archives EXCEPT ![task[t].secs] = Appended(@, f)]
        /\ Become(t, volume, [task[t] EXCEPT !.todo = @ \ {f}])
  BY DEF BackupAppends
<1>2. PICK s \in Seconds : s = task[t].secs BY <1>0 DEF Writer, Begun
<1>3. /\ Begun(s) /\ s \notin done /\ archives[s].state \in {"open", "absent"} /\ f \in Files
  BY <1>0, <1>1, <1>2 DEF Writer
<1> DEFINE new == [task[t] EXCEPT !.todo = @ \ {f}]
<1>4. /\ IsTask(new) /\ new.todo = task[t].todo \ {f}
      /\ new.at = task[t].at /\ new.secs = s /\ new.source = task[t].source
      /\ new.before = task[t].before /\ new.quiet = task[t].quiet
      /\ new.listed = task[t].listed /\ new.acked = task[t].acked
  BY <1>2 DEF BackupsInv, Typed, IsTask, TaskFields
<1>5. Become(t, volume, new) BY <1>1
<1> HIDE DEF new
<1>6. task'[t] = new /\ volume' = volume
  BY <1>5 DEF Become
<1>7. UNCHANGED <<clock, begun, done>> BY DEF BackupAppends, Stays
<1>8. PICK more : more = Appended(archives[s], f) OBVIOUS
<1>9. /\ archives' = [r \in Seconds |-> archives'[r]] /\ archives'[s] = more
      /\ \A r \in Seconds : r # s => archives'[r] = archives[r]
  BY SMT, <1>1, <1>2, <1>8 DEF BackupsInv, Typed
<1>10. archives[s].state = "absent" => more = archives[s] BY <1>8 DEF Appended
<1>11. ASSUME archives[s].state # "absent"
       PROVE  /\ IsArchive(more) /\ more.state = archives[s].state
              /\ more.entries = [g \in DOMAIN archives[s].entries \cup {f} |->
                                    IF g = f THEN volume[f] ELSE archives[s].entries[g]]
  <2>1. more.entries = [g \in DOMAIN archives[s].entries \cup {f} |->
                            IF g = f THEN volume[f] ELSE archives[s].entries[g]]
    BY <1>8, <1>11 DEF Appended, BackupsInv, Typed, IsArchive, ArchiveFields
  <2>2. more.state = archives[s].state
    BY <1>8, <1>11 DEF Appended, BackupsInv, Typed, IsArchive, ArchiveFields
  <2>3. DOMAIN more = ArchiveFields /\ more = [g \in ArchiveFields |-> more[g]]
    BY <1>8, <1>11 DEF Appended, BackupsInv, Typed, IsArchive, ArchiveFields
  <2>4. more.mtime = clock /\ clock \in Nat
    <3>1. more.mtime = clock
      BY <1>8, <1>11 DEF Appended, BackupsInv, Typed, IsArchive, ArchiveFields
    <3>2. clock \in Nat BY SMT DEF BackupsInv, Typed, Seconds
    <3> QED BY <3>1, <3>2
  <2>5. archives[s].entries \in Entries /\ volume[f] \in Contents
    BY <1>3 DEF BackupsInv, Typed, IsArchive
  <2>6. more.entries \in Entries BY SMT, <1>3, <2>1, <2>5 DEF Entries
  <2>7. more.state \in {"absent", "open", "whole"} BY <2>2 DEF BackupsInv, Typed, IsArchive
  <2> QED BY <2>1, <2>2, <2>3, <2>4, <2>6, <2>7 DEF IsArchive
<1>12. archives[s].state # "absent" => f \notin DOMAIN archives[s].entries
  BY <1>0, <1>1, <1>2 DEF Writer
<1>13. archives[s].state = "open" => Grows(s)
  <2> SUFFICES ASSUME archives[s].state = "open" PROVE Grows(s) OBVIOUS
  <2>1. Extends(more.entries, archives[s].entries) BY SMT, <1>11, <1>12 DEF Extends
  <2> QED BY <1>9, <1>11, <2>1 DEF Grows
<1>14. \A r : Begun(r) => Begun(r)' /\ r \in Seconds BY <1>7 DEF Begun
<1>15. World(s)
  <2> SUFFICES ASSUME NEW r, Begun(r)
               PROVE  Begun(r)' /\ (Untouched(r) \/ Removed(r) \/ (r = s /\ Grows(r)))
    BY DEF World
  <2>1. CASE r = s BY <1>3, <1>7, <1>9, <1>10, <1>13, <1>14, <2>1 DEF Untouched
  <2>2. CASE r # s BY <1>7, <1>9, <1>14, <2>2 DEF Untouched
  <2> QED BY <2>1, <2>2
<1>16. /\ ArchivesTyped'
       /\ \A r \in Seconds : archives'[r].state = archives[r].state
  <2>1. \A r \in Seconds : IsArchive(archives'[r]) /\ archives'[r].state = archives[r].state
    BY <1>9, <1>10, <1>11 DEF BackupsInv, Typed
  <2> QED BY <1>9, <2>1 DEF ArchivesTyped
<1>17. ArchiveInv' BY <1>14, <1>16 DEF BackupsInv, ArchiveInv
<1>18. DoneInv' BY <1>7, <1>16 DEF BackupsInv, Typed, DoneInv
<1>19. Writer(t)'
  <2>1. Kept(t)' = Kept(t) BY <1>4, <1>6 DEF Kept
  <2>2. archives'[s].state = archives[s].state BY <1>16
  <2>3. Writing(t)' /\ NothingListed(t)' /\ task'[t].source = NoArchive
    BY <1>0, <1>4, <1>6 DEF Writing, NothingListed, Writer
  <2>4. task'[t].todo \subseteq Files
        /\ (task'[t].quiet => task'[t].before = volume' /\ task'[t].todo \subseteq Kept(t)')
    BY <1>0, <1>4, <1>6, <2>1 DEF Writer
  <2>5. ASSUME archives[s].state = "open"
        PROVE  task'[t].todo \cap DOMAIN archives'[s].entries = {}
    <3>1. task[t].todo \cap DOMAIN archives[s].entries = {}
      BY <1>0, <1>2, <2>5 DEF Writer
    <3>2. DOMAIN archives'[s].entries = DOMAIN archives[s].entries \cup {f}
      BY SMT, <1>9, <1>11, <2>5
    <3> QED BY <1>4, <1>6, <3>1, <3>2
  <2>6. ASSUME archives[s].state = "open", task'[t].quiet
        PROVE  archives'[s].entries = [g \in Kept(t)' \ task'[t].todo |-> task'[t].before[g]]
    <3>1. /\ archives[s].entries = [g \in Kept(t) \ task[t].todo |-> task[t].before[g]]
          /\ task[t].before = volume /\ f \in Kept(t)
      BY <1>0, <1>1, <1>2, <1>4, <1>6, <2>6 DEF Writer
    <3>2. Kept(t) \ (task[t].todo \ {f}) = (Kept(t) \ task[t].todo) \cup {f} BY <3>1
    <3>3. archives'[s].entries = [g \in Kept(t) \ (task[t].todo \ {f}) |-> task[t].before[g]]
      <4>1. archives'[s].entries = [g \in (Kept(t) \ task[t].todo) \cup {f} |->
                                        IF g = f THEN volume[f] ELSE archives[s].entries[g]]
        BY SMT, <1>9, <1>11, <2>6, <3>1
      <4>2. \A g \in Kept(t) \ task[t].todo : archives[s].entries[g] = task[t].before[g]
        BY SMT, <3>1
      <4>3. \A g \in (Kept(t) \ task[t].todo) \cup {f} :
                (IF g = f THEN volume[f] ELSE archives[s].entries[g]) = task[t].before[g]
        BY <3>1, <4>2
      <4> QED BY <3>2, <4>1, <4>3
    <3> QED BY <1>4, <1>6, <2>1, <3>3
  <2>7. task'[t].secs = s /\ Begun(s)' /\ s \notin done' BY <1>3, <1>4, <1>6, <1>7, <1>14
  <2> QED BY <1>3, <2>2, <2>3, <2>4, <2>5, <2>6, <2>7 DEF Writer
<1>20. TaskInv(t)' BY <1>19 DEF TaskInv
<1>21. \A u \in Tasks \ {t} : Writing(u) => s # task[u].secs
  BY <1>0, <1>2 DEF BackupsInv, OneWriter, Writer
<1>22. done' \subseteq Seconds /\ clock' \in Seconds /\ begun' \in {0, 1}
  BY <1>7 DEF BackupsInv, Typed
<1> QED BY <1>4, <1>5, <1>15, <1>16, <1>17, <1>18, <1>20, <1>21, <1>22, WriteStep

\* A backup that finishes leaves a whole archive nobody else writes to.
LEMMA FinishStep ==
    ASSUME BackupsInv, NEW t \in Tasks, BackupFinishes(t)
    PROVE  BackupsInv'
<1>0. Writer(t) BY WritersWrite DEF BackupFinishes, Writing, BackupsInv
<1>1. PICK s \in Seconds : s = task[t].secs BY <1>0 DEF Writer, Begun
<1>2. /\ Begun(s) /\ s \notin done /\ archives[s].state = "open" /\ task[t].todo = {}
  BY <1>0, <1>1 DEF Writer, BackupFinishes
<1> DEFINE new == [task[t] EXCEPT !.at = "ok"]
<1>3. /\ IsTask(new) /\ new.at = "ok" /\ new.secs = s /\ new.source = task[t].source
      /\ new.before = task[t].before /\ new.quiet = task[t].quiet
      /\ new.listed = task[t].listed /\ new.acked = task[t].acked
  BY <1>1 DEF BackupsInv, Typed, IsTask, TaskFields
<1>4. Become(t, volume, new) BY DEF BackupFinishes
<1> HIDE DEF new
<1>5. task'[t] = new /\ volume' = volume
  BY <1>4 DEF Become
<1>6. UNCHANGED <<clock, begun>> /\ done' = done \cup {s} BY <1>1 DEF BackupFinishes, Stays
<1>7. /\ archives' = [r \in Seconds |-> archives'[r]]
      /\ \A r \in Seconds : r # s => archives'[r] = archives[r]
      /\ archives'[s] = [archives[s] EXCEPT !.state = "whole", !.mtime = clock]
  <2>1. archives' = [archives EXCEPT ![s].state = IF @ = "mixed" THEN @ ELSE "whole",
                                     ![s].mtime = clock]
    BY <1>1 DEF BackupFinishes
  <2> QED BY <1>2, <2>1 DEF BackupsInv, Typed, IsArchive, ArchiveFields
<1>8. IsArchive(archives'[s]) /\ archives'[s].state = "whole" /\ archives'[s].entries = archives[s].entries
  <2>1. clock \in Nat BY SMT DEF BackupsInv, Typed, Seconds
  <2> QED BY <1>7, <2>1 DEF BackupsInv, Typed, IsArchive, ArchiveFields
<1>9. Grows(s) BY <1>2, <1>8 DEF Grows, Extends
<1>10. \A r : Begun(r) => Begun(r)' /\ r \in Seconds BY <1>6 DEF Begun
<1>11. World(s)
  <2> SUFFICES ASSUME NEW r, Begun(r)
               PROVE  Begun(r)' /\ (Untouched(r) \/ Removed(r) \/ (r = s /\ Grows(r)))
    BY DEF World
  <2>1. CASE r = s BY <1>9, <1>10, <2>1
  <2>2. CASE r # s BY <1>6, <1>7, <1>10, <2>2 DEF Untouched
  <2> QED BY <2>1, <2>2
<1>12. ArchivesTyped'
  <2>1. \A r \in Seconds : IsArchive(archives'[r]) BY <1>7, <1>8 DEF BackupsInv, Typed
  <2> QED BY <1>7, <2>1 DEF ArchivesTyped
<1>13. ArchiveInv' BY <1>2, <1>7, <1>10 DEF BackupsInv, ArchiveInv
<1>14. DoneInv' BY <1>6, <1>7, <1>8 DEF BackupsInv, Typed, DoneInv
<1>15. BackedUp(t)'
  <2>1. Kept(t)' = Kept(t) BY <1>3, <1>5 DEF Kept
  <2>2. NothingListed(t)' /\ task'[t].source = NoArchive
    BY <1>0, <1>3, <1>5 DEF NothingListed, Writer
  <2>3. ASSUME task'[t].quiet
        PROVE  archives'[s].entries = [f \in Kept(t)' |-> task'[t].before[f]]
    <3>1. archives[s].entries = [f \in Kept(t) \ {} |-> task[t].before[f]]
      BY <1>0, <1>1, <1>2, <1>3, <1>5, <2>3 DEF Writer
    <3>2. Kept(t) \ {} = Kept(t) OBVIOUS
    <3> QED BY <1>3, <1>5, <1>8, <2>1, <3>1, <3>2
  <2> QED BY <1>2, <1>3, <1>5, <1>8, <1>10, <2>2, <2>3 DEF BackedUp
<1>16. TaskInv(t)' BY <1>15 DEF TaskInv
<1>17. \A u \in Tasks \ {t} : Writing(u) => s # task[u].secs
  BY <1>0, <1>1 DEF BackupsInv, OneWriter, Writer
<1>18. done' \subseteq Seconds /\ clock' \in Seconds /\ begun' \in {0, 1}
  BY <1>6 DEF BackupsInv, Typed
<1> QED BY <1>3, <1>4, <1>11, <1>12, <1>13, <1>14, <1>16, <1>17, <1>18, WriteStep

\* Deleting an archive takes back its ack.
LEMMA DeleteStep ==
    ASSUME BackupsInv, NEW t \in Tasks, NEW s \in Seconds, Delete(t, s)
    PROVE  BackupsInv'
<1>1. /\ Become(t, volume, Idle) /\ UNCHANGED <<clock, begun>> /\ done' = done \ {s}
      /\ archives' = [archives EXCEPT ![s] = NoArchive]
  BY DEF Delete, Stays
<1>2. task'[t] = Idle BY <1>1 DEF Become
<1>3. /\ archives' = [r \in Seconds |-> archives'[r]] /\ archives'[s] = NoArchive
      /\ \A r \in Seconds : r # s => archives'[r] = archives[r]
  BY SMT, <1>1 DEF BackupsInv, Typed
<1>4. \A r : Begun(r) => Begun(r)' /\ r \in Seconds BY <1>1 DEF Begun
<1>5. World(0)
  <2> SUFFICES ASSUME NEW r, Begun(r) PROVE Begun(r)' /\ (Untouched(r) \/ Removed(r))
    BY DEF World
  <2>1. CASE r = s BY <1>1, <1>3, <1>4, <2>1 DEF Removed
  <2>2. CASE r # s BY <1>1, <1>3, <1>4, <2>2 DEF Untouched
  <2> QED BY <2>1, <2>2
<1>6. ArchivesTyped' BY <1>3, NoArchiveTyped DEF BackupsInv, Typed, ArchivesTyped
<1>7. ArchiveInv' BY <1>3, <1>4, NoArchiveTyped DEF BackupsInv, ArchiveInv
<1>8. DoneInv' BY <1>1, <1>3 DEF BackupsInv, Typed, DoneInv
<1>9. 0 \notin Seconds BY SMT DEF Seconds
<1>10. \A u \in Tasks \ {t} : Writing(u) => 0 # task[u].secs
  BY <1>9, WritersWrite DEF BackupsInv, Writer, Begun
<1>11. done' \subseteq Seconds /\ clock' \in Seconds /\ begun' \in {0, 1}
  BY <1>1 DEF BackupsInv, Typed
<1>12. TaskInv(t)' BY <1>2 DEF TaskInv
<1>13. Idle.at # "backup.append" /\ IsTask(Idle) BY IdleTyped
<1> QED BY <1>1, <1>5, <1>6, <1>7, <1>8, <1>10, <1>11, <1>12, <1>13, WriteStep

-----------------------------------------------------------------------------
\* Restores

\* A restore begins with everything to do.
LEMMA RestoreOpensStep ==
    ASSUME BackupsInv, NEW t \in Tasks, NEW s \in Seconds, RestoreOpens(t, s)
    PROVE  BackupsInv'
<1> DEFINE new == [Idle EXCEPT !.at = "restore.entry", !.secs = s, !.source = archives[s],
                               !.todo = DOMAIN archives[s].entries,
                               !.before = volume, !.quiet = TRUE]
<1>1. IsArchive(archives[s]) /\ archives[s].state # "absent" /\ Begun(s) /\ s \in Nat
  BY SMT DEF BackupsInv, Typed, RestoreOpens, ArchiveInv, Seconds
<1>2. /\ IsTask(new) /\ new.at = "restore.entry" /\ new.secs = s /\ new.source = archives[s]
      /\ new.todo = DOMAIN archives[s].entries /\ new.before = volume
      /\ new.acked = {} /\ new.listed = <<>>
  BY <1>1, IdleTyped DEF IsTask, TaskFields
<1>3. /\ Become(t, volume, new) /\ UNCHANGED <<archives, clock, begun, done>>
  BY DEF RestoreOpens, Stays
<1> HIDE DEF new
<1>4. volume \in [Files -> Contents] BY DEF BackupsInv, Typed
<1>5. task'[t] = new /\ volume' = volume BY <1>3 DEF Become
<1>6. archives[s].state \in {"open", "whole"} BY <1>1 DEF IsArchive
<1>7. Extends(archives[s].entries, archives[s].entries) BY DEF Extends
<1>8. Begun(s)' BY <1>1, <1>3 DEF Begun
<1>9. NothingListed(t)' BY <1>2, <1>5 DEF NothingListed
<1>10. Restorer(t)' BY <1>2, <1>3, <1>5, <1>6, <1>7, <1>8, <1>9 DEF Restorer, Extends
<1>11. TaskInv(t)' BY <1>10 DEF TaskInv
<1>12. new.at # "backup.append" BY <1>2
<1> QED BY <1>2, <1>3, <1>4, <1>11, <1>12, ReadStep

\* A task at restore.entry restores.
LEMMA RestorersRestore ==
    ASSUME NEW t \in Tasks, TaskInv(t), task[t].at = "restore.entry"
    PROVE  Restorer(t)
BY IdleTyped DEF TaskInv, Writer, Writing, BackedUp, Lister

\* What a restore reads on is added to what it read.
LEMMA RestoreReadsOnStep ==
    ASSUME BackupsInv, NEW t \in Tasks, RestoreReadsOn(t)
    PROVE  BackupsInv'
<1>0. Restorer(t) BY RestorersRestore DEF RestoreReadsOn, BackupsInv
<1>1. PICK s \in Seconds : s = task[t].secs BY <1>0 DEF Restorer, Begun
<1>2. PICK from, grown : from = task[t].source /\ grown = archives[s] OBVIOUS
<1> DEFINE new == [task[t] EXCEPT !.source = grown,
                       !.todo = @ \cup (DOMAIN grown.entries \ DOMAIN from.entries)]
<1>3. /\ Become(t, volume, new) /\ UNCHANGED <<archives, clock, begun, done>>
      /\ grown.state \in {"open", "whole"} /\ task[t].at = "restore.entry"
  BY <1>1, <1>2 DEF RestoreReadsOn, Stays
<1>4. IsArchive(grown) BY <1>2 DEF BackupsInv, Typed
<1>5. /\ IsTask(new) /\ new.at = task[t].at /\ new.secs = s /\ new.source = grown
      /\ new.todo = task[t].todo \cup (DOMAIN grown.entries \ DOMAIN from.entries)
      /\ new.before = task[t].before /\ new.quiet = task[t].quiet
      /\ new.listed = task[t].listed /\ new.acked = task[t].acked
  BY <1>1, <1>4 DEF BackupsInv, Typed, IsTask, TaskFields
<1> HIDE DEF new
<1>6. volume \in [Files -> Contents] BY DEF BackupsInv, Typed
<1>7. task'[t] = new /\ volume' = volume BY <1>3 DEF Become
<1>8. Extends(grown.entries, from.entries) BY <1>0, <1>1, <1>2, <1>3 DEF Restorer
<1>9. new.todo \subseteq DOMAIN grown.entries
  BY <1>0, <1>2, <1>5, <1>8 DEF Restorer, Extends
<1>10. ASSUME new.quiet
       PROVE  /\ \A f \in Files \ DOMAIN grown.entries : volume[f] = new.before[f]
              /\ \A f \in DOMAIN grown.entries \ new.todo : volume[f] = grown.entries[f]
  <2>1. /\ \A f \in Files \ DOMAIN from.entries : volume[f] = task[t].before[f]
        /\ \A f \in DOMAIN from.entries \ task[t].todo : volume[f] = from.entries[f]
    BY <1>0, <1>2, <1>5, <1>10 DEF Restorer
  <2> QED BY <1>5, <1>8, <2>1 DEF Extends
<1>11. Begun(s)' BY <1>0, <1>1, <1>3 DEF Begun, Restorer
<1>12. NothingListed(t)' BY <1>0, <1>5, <1>7 DEF NothingListed, Restorer
<1>13. Extends(archives'[s].entries, grown.entries) BY <1>2, <1>3 DEF Extends
<1>14. Restorer(t)'
  BY <1>3, <1>5, <1>7, <1>9, <1>10, <1>11, <1>12, <1>13 DEF Restorer
<1>15. TaskInv(t)' BY <1>14 DEF TaskInv
<1>16. new.at # "backup.append" BY <1>3, <1>5
<1> QED BY <1>3, <1>5, <1>6, <1>15, <1>16, ReadStep

\* An entry that is unpacked is done; a file it cuts ends the restore.
LEMMA RestoreUnpacksStep ==
    ASSUME BackupsInv, NEW t \in Tasks, RestoreUnpacks(t)
    PROVE  BackupsInv'
<1>0. Restorer(t) BY RestorersRestore DEF RestoreUnpacks, BackupsInv
<1>1. PICK f \in task[t].todo :
        \/ Become(t, [volume EXCEPT ![f] = task[t].source.entries[f]],
                  [task[t] EXCEPT !.todo = @ \ {f}])
        \/ Become(t, [volume EXCEPT ![f] = Cut], Idle)
  BY DEF RestoreUnpacks
<1>2. UNCHANGED <<archives, clock, begun, done>> /\ task[t].at = "restore.entry"
  BY DEF RestoreUnpacks, Stays
<1>3. PICK from : from = task[t].source OBVIOUS
<1>4. from.entries \in Entries /\ f \in DOMAIN from.entries
  BY <1>0, <1>3 DEF BackupsInv, Typed, IsTask, IsArchive, Restorer
<1>5. f \in Files /\ from.entries[f] \in Contents BY SMT, <1>4 DEF Entries
<1>6. volume \in [Files -> Contents] BY DEF BackupsInv, Typed
<1>7. CASE Become(t, [volume EXCEPT ![f] = Cut], Idle)
  <2>1. [volume EXCEPT ![f] = Cut] \in [Files -> Contents] BY SMT, <1>5, <1>6 DEF Contents
  <2> QED BY <1>2, <1>7, <2>1, RestStep
<1>8. CASE Become(t, [volume EXCEPT ![f] = task[t].source.entries[f]],
                  [task[t] EXCEPT !.todo = @ \ {f}])
  <2> DEFINE new == [task[t] EXCEPT !.todo = @ \ {f}]
             vol == [volume EXCEPT ![f] = from.entries[f]]
  <2>1. vol \in [Files -> Contents] /\ vol[f] = from.entries[f]
        /\ \A g \in Files : g # f => vol[g] = volume[g]
    BY SMT, <1>5, <1>6
  <2>2. /\ IsTask(new) /\ new.at = task[t].at /\ new.secs = task[t].secs /\ new.source = from
        /\ new.todo = task[t].todo \ {f}
        /\ new.before = task[t].before /\ new.quiet = task[t].quiet
        /\ new.listed = task[t].listed /\ new.acked = task[t].acked
    BY <1>3 DEF BackupsInv, Typed, IsTask, TaskFields
  <2>3. Become(t, vol, new) BY <1>3, <1>8
  <2> HIDE DEF new, vol
  <2>4. task'[t] = new /\ volume' = vol BY <2>3 DEF Become
  <2>5. DOMAIN from.entries \subseteq Files BY SMT, <1>4 DEF Entries
  <2>6. ASSUME new.quiet
        PROVE  /\ \A g \in Files \ DOMAIN from.entries : vol[g] = new.before[g]
               /\ \A g \in DOMAIN from.entries \ new.todo : vol[g] = from.entries[g]
    <3>1. /\ \A g \in Files \ DOMAIN from.entries : volume[g] = task[t].before[g]
          /\ \A g \in DOMAIN from.entries \ task[t].todo : volume[g] = from.entries[g]
      BY <1>0, <1>3, <2>2, <2>6 DEF Restorer
    <3> QED BY <1>4, <2>1, <2>2, <2>5, <3>1
  <2>7. PICK s : s = task[t].secs OBVIOUS
  <2>8. Begun(s)' BY <1>0, <1>2, <2>7 DEF Begun, Restorer
  <2>9. NothingListed(t)' BY <1>0, <2>2, <2>4 DEF NothingListed, Restorer
  <2>10. archives'[s].state # "absent" => Extends(archives'[s].entries, from.entries)
    BY <1>0, <1>2, <1>3, <2>7 DEF Restorer, Extends
  <2>11. new.todo \subseteq DOMAIN from.entries /\ from.state \in {"open", "whole"}
    BY <1>0, <1>3, <2>2 DEF Restorer
  <2>12. Restorer(t)'
    BY <1>2, <2>2, <2>4, <2>6, <2>7, <2>8, <2>9, <2>10, <2>11 DEF Restorer
  <2>13. TaskInv(t)' /\ new.at # "backup.append" BY <1>2, <2>2, <2>12 DEF TaskInv
  <2> QED BY <1>2, <2>1, <2>2, <2>3, <2>13, ReadStep
<1> QED BY <1>1, <1>7, <1>8

\* A restore that is acked has come to the end of a whole archive.
LEMMA RestoreEndsStep ==
    ASSUME BackupsInv, NEW t \in Tasks, RestoreEnds(t)
    PROVE  BackupsInv'
<1>0. Restorer(t) BY RestorersRestore DEF RestoreEnds, BackupsInv
<1> DEFINE new == [task[t] EXCEPT !.at = "ok"]
<1>1. /\ Become(t, volume, new) /\ UNCHANGED <<archives, clock, begun, done>>
      /\ task[t].todo = {} /\ task[t].source.state = "whole"
  BY DEF RestoreEnds, Stays
<1>2. /\ IsTask(new) /\ new.at = "ok" /\ new.secs = task[t].secs /\ new.source = task[t].source
      /\ new.todo = task[t].todo /\ new.before = task[t].before /\ new.quiet = task[t].quiet
      /\ new.listed = task[t].listed /\ new.acked = task[t].acked
  BY DEF BackupsInv, Typed, IsTask, TaskFields
<1> HIDE DEF new
<1>3. volume \in [Files -> Contents] BY DEF BackupsInv, Typed
<1>4. task'[t] = new /\ volume' = volume BY <1>1 DEF Become
<1>5. PICK s : s = task[t].secs OBVIOUS
<1>6. Begun(s)' BY <1>0, <1>1, <1>5 DEF Begun, Restorer
<1>7. NothingListed(t)' BY <1>0, <1>2, <1>4 DEF NothingListed, Restorer
<1>8. archives'[s].state # "absent" => Extends(archives'[s].entries, task'[t].source.entries)
  BY <1>0, <1>1, <1>2, <1>4, <1>5 DEF Restorer, Extends
<1>9. new.quiet =>
        /\ \A f \in Files \ DOMAIN new.source.entries : volume[f] = new.before[f]
        /\ \A f \in DOMAIN new.source.entries \ new.todo : volume[f] = new.source.entries[f]
  BY <1>0, <1>2 DEF Restorer
<1>10. Restorer(t)' BY <1>1, <1>2, <1>4, <1>5, <1>6, <1>7, <1>8, <1>9 DEF Restorer
<1>11. TaskInv(t)' /\ new.at # "backup.append" BY <1>2, <1>10 DEF TaskInv
<1> QED BY <1>1, <1>2, <1>3, <1>11, ReadStep

-----------------------------------------------------------------------------
\* Listings

\* A listing has to go through everything that is done when it begins.
LEMMA ListOpensStep ==
    ASSUME BackupsInv, NEW t \in Tasks, ListOpens(t)
    PROVE  BackupsInv'
<1> DEFINE new == [Idle EXCEPT !.at = "list.stat", !.todo = Existing, !.acked = done]
<1>1. /\ Become(t, volume, new) /\ UNCHANGED <<archives, clock, begun, done>>
  BY DEF ListOpens, Stays
<1>2. done \subseteq Seconds BY DEF BackupsInv, Typed
<1>3. /\ IsTask(new) /\ new.at = "list.stat" /\ new.secs = 0 /\ new.source = NoArchive
      /\ new.todo = Existing /\ new.acked = done
  BY <1>2, IdleTyped DEF IsTask, TaskFields
<1> HIDE DEF new
<1>4. volume \in [Files -> Contents] BY DEF BackupsInv, Typed
<1>5. task'[t] = new BY <1>1 DEF Become
<1>6. \A s \in done : s \in Seconds /\ archives[s].state = "whole" BY <1>2 DEF BackupsInv, DoneInv
<1>7. \A s \in done : Begun(s) /\ s \in Existing BY <1>6 DEF BackupsInv, ArchiveInv, Existing
<1>8. \A s \in done : Begun(s)' BY <1>1, <1>7 DEF Begun
<1>9. Existing \subseteq Seconds BY DEF Existing
<1>10. Lister(t)' BY <1>1, <1>3, <1>5, <1>6, <1>7, <1>8, <1>9 DEF Lister
<1>11. TaskInv(t)' /\ new.at # "backup.append" BY <1>3, <1>10 DEF TaskInv
<1> QED BY <1>1, <1>3, <1>4, <1>11, ReadStep

\* A task at list.stat lists.
LEMMA ListersList ==
    ASSUME NEW t \in Tasks, TaskInv(t), task[t].at = "list.stat"
    PROVE  Lister(t)
BY IdleTyped DEF TaskInv, Writer, Writing, BackedUp, Restorer

\* What is appended to a list is one more name.
LEMMA AppendNames ==
    ASSUME NEW list \in Seq(Seconds \X Nat), NEW e \in Seconds \X Nat
    PROVE  /\ Append(list, e) \in Seq(Seconds \X Nat)
           /\ NamesOf(Append(list, e)) = NamesOf(list) \cup {e[1]}
<1>0. PICK more : more = Append(list, e) OBVIOUS
<1>1. /\ more \in Seq(Seconds \X Nat) /\ DOMAIN list = 1..Len(list) /\ Len(list) \in Nat
      /\ DOMAIN more = DOMAIN list \cup {Len(list) + 1}
      /\ more[Len(list) + 1] = e /\ \A i \in DOMAIN list : more[i] = list[i]
  BY SMT, <1>0
<1>2. \A i \in DOMAIN more : more[i][1] \in NamesOf(list) \cup {e[1]} BY SMT, <1>1 DEF NamesOf
<1>3. \A n \in NamesOf(list) \cup {e[1]} : \E i \in DOMAIN more : more[i][1] = n
  BY SMT, <1>1 DEF NamesOf
<1>4. NamesOf(more) = NamesOf(list) \cup {e[1]}
  <2>1. NamesOf(more) \subseteq NamesOf(list) \cup {e[1]} BY SMT, <1>2 DEF NamesOf
  <2>2. ASSUME NEW n \in NamesOf(list) \cup {e[1]} PROVE n \in NamesOf(more)
    <3>1. PICK i \in DOMAIN more : more[i][1] = n BY <1>3
    <3> QED BY <3>1 DEF NamesOf
  <2> QED BY <2>1, <2>2
<1> QED BY <1>0, <1>1, <1>4

\* An archive that is gone through is named.
LEMMA ListStatsStep ==
    ASSUME BackupsInv, NEW t \in Tasks, ListStats(t)
    PROVE  BackupsInv'
<1>0. Lister(t) BY ListersList DEF ListStats, BackupsInv
<1>1. PICK s \in task[t].todo :
        Become(t, volume, [task[t] EXCEPT !.todo = @ \ {s},
                                          !.listed = Append(@, <<s, archives[s].mtime>>)])
  BY DEF ListStats
<1>2. UNCHANGED <<archives, clock, begun, done>> /\ task[t].at = "list.stat"
  BY DEF ListStats, Stays
<1>3. s \in Seconds /\ archives[s].mtime \in Nat
  BY <1>0 DEF Lister, BackupsInv, Typed, IsArchive
<1>4. PICK more : more = Append(task[t].listed, <<s, archives[s].mtime>>) OBVIOUS
<1>5. /\ more \in Seq(Seconds \X Nat)
      /\ NamesOf(more) = Names(t) \cup {s}
  <2>1. PICK e : e = <<s, archives[s].mtime>> OBVIOUS
  <2>2. e \in Seconds \X Nat /\ e[1] = s BY SMT, <1>3, <2>1
  <2>3. task[t].listed \in Seq(Seconds \X Nat) BY DEF BackupsInv, Typed, IsTask
  <2>4. more = Append(task[t].listed, e) BY <1>4, <2>1
  <2> QED BY <2>2, <2>3, <2>4, AppendNames DEF Names
<1> DEFINE new == [task[t] EXCEPT !.todo = @ \ {s}, !.listed = more]
<1>6. /\ IsTask(new) /\ new.at = task[t].at /\ new.secs = task[t].secs /\ new.source = task[t].source
      /\ new.todo = task[t].todo \ {s} /\ new.listed = more /\ new.acked = task[t].acked
  BY <1>5 DEF BackupsInv, Typed, IsTask, TaskFields
<1>7. Become(t, volume, new) BY <1>1, <1>4
<1> HIDE DEF new
<1>8. volume \in [Files -> Contents] BY DEF BackupsInv, Typed
<1>9. task'[t] = new BY <1>7 DEF Become
<1>10. Names(t)' = Names(t) \cup {s} BY <1>5, <1>6, <1>9 DEF Names
<1>11. \A r \in task[t].acked : Begun(r)' /\ archives'[r].state \in {"whole", "absent"}
  BY <1>0, <1>2 DEF Lister, Begun
<1>12. task'[t].acked \cap done' \subseteq Names(t)' \cup task'[t].todo
  BY <1>0, <1>2, <1>6, <1>9, <1>10 DEF Lister
<1>13. /\ task'[t].at = "list.stat" /\ task'[t].secs = 0 /\ task'[t].source = NoArchive
       /\ task'[t].todo \subseteq Seconds /\ task'[t].acked = task[t].acked
  BY <1>0, <1>2, <1>6, <1>9 DEF Lister
<1>14. Lister(t)' BY <1>11, <1>12, <1>13 DEF Lister
<1>15. TaskInv(t)' /\ new.at # "backup.append" BY <1>9, <1>13, <1>14 DEF TaskInv
<1> QED BY <1>2, <1>6, <1>7, <1>8, <1>15, ReadStep

\* Sorting a list keeps its names.
LEMMA SortedNames ==
    ASSUME NEW list \in Seq(Seconds \X Nat), NEW sorted \in NewestFirst(list)
    PROVE  /\ sorted \in Seq(Seconds \X Nat) /\ DOMAIN sorted = DOMAIN list
           /\ NamesOf(sorted) = NamesOf(list)
           /\ \A i, j \in DOMAIN sorted : i < j => sorted[i][2] >= sorted[j][2]
<1>1. PICK p \in Bijection(DOMAIN list, DOMAIN list) : sorted = [i \in DOMAIN list |-> list[p[i]]]
  BY DEF NewestFirst
<1>2. /\ \A i \in DOMAIN list : p[i] \in DOMAIN list
      /\ \A j \in DOMAIN list : \E i \in DOMAIN list : p[i] = j
  BY SMT, <1>1 DEF Bijection, Injection, Surjection
<1>3. /\ DOMAIN sorted = DOMAIN list
      /\ \A i \in DOMAIN list : sorted[i] = list[p[i]]
  BY <1>1
<1>4. NamesOf(sorted) = NamesOf(list)
  <2>1. ASSUME NEW i \in DOMAIN list PROVE sorted[i][1] \in NamesOf(list)
    <3>1. sorted[i] = list[p[i]] /\ p[i] \in DOMAIN list BY <1>2, <1>3
    <3> QED BY <3>1 DEF NamesOf
  <2>2. ASSUME NEW j \in DOMAIN list PROVE list[j][1] \in NamesOf(sorted)
    <3>1. PICK i \in DOMAIN list : p[i] = j BY <1>2
    <3>2. sorted[i] = list[j] /\ i \in DOMAIN sorted BY <1>3, <3>1
    <3> QED BY <3>2 DEF NamesOf
  <2> QED BY <1>3, <2>1, <2>2 DEF NamesOf
<1>5. sorted \in Seq(Seconds \X Nat)
  <2>1. Len(list) \in Nat /\ DOMAIN list = 1..Len(list)
        /\ \A i \in DOMAIN list : list[i] \in Seconds \X Nat
    BY SMT
  <2>2. sorted \in [1..Len(list) -> Seconds \X Nat] BY <1>1, <1>2, <2>1
  <2> QED BY <2>1, <2>2, SeqDef
<1>6. \A i, j \in DOMAIN list : i < j => sorted[i][2] >= sorted[j][2]
  BY DEF NewestFirst
<1> QED BY <1>3, <1>4, <1>5, <1>6

\* A listing that answers has gone through everything.
LEMMA ListEndsStep ==
    ASSUME BackupsInv, NEW t \in Tasks, ListEnds(t)
    PROVE  BackupsInv'
<1>0. Lister(t) BY ListersList DEF ListEnds, BackupsInv
<1>1. PICK sorted \in NewestFirst(task[t].listed) :
        Become(t, volume, [task[t] EXCEPT !.at = "ok", !.listed = sorted])
  BY DEF ListEnds
<1>2. UNCHANGED <<archives, clock, begun, done>> /\ task[t].todo = {}
  BY DEF ListEnds, Stays
<1>3. /\ sorted \in Seq(Seconds \X Nat)
      /\ NamesOf(sorted) = Names(t)
      /\ \A i, j \in DOMAIN sorted : i < j => sorted[i][2] >= sorted[j][2]
  <2>1. task[t].listed \in Seq(Seconds \X Nat) BY DEF BackupsInv, Typed, IsTask
  <2> QED BY <2>1, SortedNames DEF Names
<1> DEFINE new == [task[t] EXCEPT !.at = "ok", !.listed = sorted]
<1>4. /\ IsTask(new) /\ new.at = "ok" /\ new.secs = task[t].secs /\ new.source = task[t].source
      /\ new.todo = task[t].todo /\ new.listed = sorted /\ new.acked = task[t].acked
  BY <1>3 DEF BackupsInv, Typed, IsTask, TaskFields
<1>5. Become(t, volume, new) BY <1>1
<1> HIDE DEF new
<1>6. volume \in [Files -> Contents] BY DEF BackupsInv, Typed
<1>7. task'[t] = new BY <1>5 DEF Become
<1>8. Names(t)' = Names(t) BY <1>3, <1>4, <1>7 DEF Names
<1>9. \A r \in task[t].acked : Begun(r)' /\ archives'[r].state \in {"whole", "absent"}
  BY <1>0, <1>2 DEF Lister, Begun
<1>10. /\ task'[t].at = "ok" /\ task'[t].secs = 0 /\ task'[t].source = NoArchive
       /\ task'[t].todo = {} /\ task'[t].acked = task[t].acked /\ task'[t].listed = sorted
  BY <1>0, <1>2, <1>4, <1>7 DEF Lister
<1>11. task'[t].acked \cap done' \subseteq Names(t)' \cup task'[t].todo
  BY <1>0, <1>2, <1>8, <1>10 DEF Lister
<1>12. Lister(t)' BY <1>3, <1>9, <1>10, <1>11 DEF Lister
<1>13. TaskInv(t)' /\ new.at # "backup.append" BY <1>4, <1>12 DEF TaskInv
<1> QED BY <1>2, <1>4, <1>5, <1>6, <1>13, ReadStep

-----------------------------------------------------------------------------
\* The world around the tasks

\* When the game server writes, every task learns that the volume has changed.
LEMMA ServerStep ==
    ASSUME BackupsInv, NEW f \in Files, NEW v \in Versions \cup {NoFile}, ServerWrites(f, v)
    PROVE  BackupsInv'
<1>1. /\ volume' = [volume EXCEPT ![f] = v]
      /\ task' = [t \in Tasks |-> Disturbed(volume', t)]
      /\ UNCHANGED <<archives, clock, begun, done>>
  BY DEF ServerWrites, Stays
<1>2. PICK vol : vol = [volume EXCEPT ![f] = v] OBVIOUS
<1>3. vol \in [Files -> Contents] BY SMT, <1>2 DEF BackupsInv, Typed, Contents
<1>4. \A t \in Tasks : IsTask(task[t]) BY DEF BackupsInv, Typed
<1>5. \A t \in Tasks : task'[t] = Disturbed(vol, t) BY <1>1, <1>2
<1>6. \A t \in Tasks : IsTask(Disturbed(vol, t)) BY <1>4 DEF Disturbed, IsTask, TaskFields
<1>7. \A t \in Tasks : Same(t)
  <2> SUFFICES ASSUME NEW t \in Tasks PROVE Same(t) OBVIOUS
  <2>1. task'[t] = Disturbed(vol, t) /\ volume' = vol /\ IsTask(task[t]) BY <1>1, <1>2, <1>4, <1>5
  <2> QED BY <2>1, DisturbedSame
<1>8. World(0) BY <1>1 DEF World, Untouched, Begun
<1>9. 0 \notin Seconds BY SMT DEF Seconds
<1>10. \A t \in Tasks : Writing(t) => 0 # task[t].secs
  BY <1>9, WritersWrite DEF BackupsInv, Writer, Begun
<1>11. \A t \in Tasks : TaskInv(t)' BY <1>7, <1>8, <1>10, TaskStays DEF BackupsInv
<1>12. OneWriter'
  <2>1. \A t \in Tasks : task'[t].at = task[t].at /\ task'[t].secs = task[t].secs BY <1>7 DEF Same
  <2> QED BY <2>1 DEF BackupsInv, OneWriter, Writing
<1>13. task' = [t \in Tasks |-> task'[t]] /\ \A t \in Tasks : IsTask(task'[t])
  BY <1>1, <1>5, <1>6
<1>14. Typed' BY <1>1, <1>2, <1>3, <1>13 DEF BackupsInv, Typed
<1>15. ArchiveInv' /\ DoneInv' BY <1>1 DEF BackupsInv, ArchiveInv, DoneInv, Begun
<1> QED BY <1>11, <1>12, <1>14, <1>15 DEF BackupsInv

\* Time that passes leaves what has begun.
LEMMA TickStep ==
    ASSUME BackupsInv, Tick
    PROVE  BackupsInv'
<1>1. UNCHANGED <<volume, archives, done, task>> BY DEF Tick
<1>2. clock' \in Seconds /\ begun' = 0 /\ \A s \in Seconds : s <= clock => s < clock'
  BY SMT DEF Tick, BackupsInv, Typed, Seconds
<1>3. \A s : Begun(s) => Begun(s)' BY SMT, <1>2 DEF Begun, Seconds, BackupsInv, Typed
<1>4. World(0)
  <2> SUFFICES ASSUME NEW r, Begun(r) PROVE Begun(r)' /\ Untouched(r)
    BY DEF World
  <2> QED BY <1>1, <1>3 DEF Untouched
<1>5. \A t \in Tasks : Same(t) BY <1>1 DEF Same
<1>6. 0 \notin Seconds BY SMT DEF Seconds
<1>7. \A t \in Tasks : Writing(t) => 0 # task[t].secs
  BY <1>6, WritersWrite DEF BackupsInv, Writer, Begun
<1>8. \A t \in Tasks : TaskInv(t)' BY <1>4, <1>5, <1>7, TaskStays DEF BackupsInv
<1>9. OneWriter' BY <1>1 DEF BackupsInv, OneWriter, Writing
<1>10. Typed' BY <1>1, <1>2 DEF BackupsInv, Typed
<1>11. ArchiveInv' /\ DoneInv' BY <1>1, <1>3 DEF BackupsInv, ArchiveInv, DoneInv
<1> QED BY <1>8, <1>9, <1>10, <1>11 DEF BackupsInv

\* A daemon that dies leaves its archives.
LEMMA CrashStep ==
    ASSUME BackupsInv, Crash
    PROVE  BackupsInv'
<1>1. UNCHANGED <<volume, archives, done, clock, begun>> /\ task' = [t \in Tasks |-> Idle]
  BY DEF Crash, Stays
<1>2. \A t \in Tasks : task'[t] = Idle BY <1>1
<1>3. \A t \in Tasks : TaskInv(t)' BY <1>2 DEF TaskInv
<1>4. OneWriter' BY <1>2, IdleTyped DEF OneWriter, Writing
<1>5. task' = [t \in Tasks |-> task'[t]] /\ \A t \in Tasks : IsTask(task'[t])
  BY <1>1, <1>2, IdleTyped
<1>6. Typed' BY <1>1, <1>5 DEF BackupsInv, Typed
<1>7. ArchiveInv' /\ DoneInv' BY <1>1 DEF BackupsInv, ArchiveInv, DoneInv, Begun
<1> QED BY <1>3, <1>4, <1>6, <1>7 DEF BackupsInv

-----------------------------------------------------------------------------
\* The theorems

\* Every step keeps the invariant.
LEMMA BackupsNextInv ==
    ASSUME BackupsInv, PerSecond = 1, BackupsNext
    PROVE  BackupsInv'
<1>1. ASSUME NEW t \in Tasks, Fails(t) \/ Return(t) PROVE BackupsInv'
  <2>1. Become(t, volume, Idle) /\ UNCHANGED <<archives, clock, begun, done>>
    BY <1>1 DEF Fails, Return, Stays
  <2>2. volume \in [Files -> Contents] BY DEF BackupsInv, Typed
  <2> QED BY <2>1, <2>2, RestStep
<1>2. ASSUME NEW t \in Tasks, BackupsStep(t) PROVE BackupsInv'
  BY <1>1, <1>2, CreateStep, AppendStep, FinishStep, DeleteStep, RestoreOpensStep,
     RestoreReadsOnStep, RestoreUnpacksStep, RestoreEndsStep, ListOpensStep, ListStatsStep,
     ListEndsStep
     DEF BackupsStep
<1> QED BY <1>2, ServerStep, TickStep, CrashStep DEF BackupsNext

\* The invariant holds at the start and is kept by every step.
THEOREM BackupsInvariant == PerSecond = 1 /\ BackupsSpec => []BackupsInv
<1> SUFFICES ASSUME PerSecond = 1 PROVE BackupsSpec => []BackupsInv
  OBVIOUS
<1>1. BackupsInit => BackupsInv
  <2> SUFFICES ASSUME BackupsInit PROVE BackupsInv
    OBVIOUS
  <2>1. \A t \in Tasks : task[t] = Idle BY DEF BackupsInit
  <2>2. \A s \in Seconds : archives[s] = NoArchive BY DEF BackupsInit
  <2>3. volume \in [Files -> Contents] /\ clock \in Seconds /\ begun \in {0, 1} /\ done = {}
    BY SMT DEF BackupsInit, Contents, Seconds
  <2>4. task = [t \in Tasks |-> task[t]] /\ archives = [s \in Seconds |-> archives[s]]
    BY DEF BackupsInit
  <2>5. Typed BY <2>1, <2>2, <2>3, <2>4, IdleTyped, NoArchiveTyped DEF Typed
  <2> QED BY <2>1, <2>2, <2>3, <2>5, IdleTyped, NoArchiveTyped
          DEF BackupsInv, ArchiveInv, DoneInv, OneWriter, Writing, TaskInv
<1>2. BackupsInv /\ [BackupsNext]_backupVars => BackupsInv'
  <2> SUFFICES ASSUME BackupsInv, [BackupsNext]_backupVars PROVE BackupsInv'
    OBVIOUS
  <2>1. CASE BackupsNext BY <2>1, BackupsNextInv
  <2>2. CASE UNCHANGED backupVars
    <3>1. UNCHANGED <<volume, archives, clock, begun, done, task>> BY <2>2 DEF backupVars
    <3>2. \A t \in Tasks : TaskInv(t)'
      <4>1. \A t \in Tasks : Same(t) BY <3>1 DEF Same
      <4>2. World(0) BY <3>1 DEF World, Untouched, Begun
      <4>3. 0 \notin Seconds BY SMT DEF Seconds
      <4>4. \A t \in Tasks : Writing(t) => 0 # task[t].secs
        BY <4>3, WritersWrite DEF BackupsInv, Writer, Begun
      <4> QED BY <4>1, <4>2, <4>4, TaskStays DEF BackupsInv
    <3> QED BY <3>1, <3>2 DEF BackupsInv, Typed, ArchiveInv, DoneInv, OneWriter, Writing, Begun
  <2> QED BY <2>1, <2>2
<1> QED BY <1>1, <1>2, PTL DEF BackupsSpec

\* An archive a BackupDone event was emitted for stays whole until it is deleted
\* (create_backup of the dispatcher and of skyperf-core), through failing and
\* concurrent backups, restores, deletes and crashes.
THEOREM DoneStaysWhole == PerSecond = 1 /\ BackupsSpec => []DoneIsWhole
<1>1. BackupsInv => DoneIsWhole BY DEF BackupsInv, DoneInv, DoneIsWhole
<1> QED BY <1>1, BackupsInvariant, PTL

\* The volume, the archives and the tasks stay what the code takes them for.
THEOREM BackupsTypeCorrect == PerSecond = 1 /\ BackupsSpec => []BackupsTypeOK
<1> SUFFICES ASSUME PerSecond = 1 PROVE BackupsSpec => []BackupsTypeOK
  OBVIOUS
<1>1. BackupsInv => BackupsTypeOK
  <2> SUFFICES ASSUME BackupsInv PROVE BackupsTypeOK
    OBVIOUS
  <2>1. \A s \in Seconds : archives[s].state \in {"absent", "open", "whole"}
                             /\ archives[s].entries \in Entries
    BY DEF BackupsInv, Typed, IsArchive
  <2>2. \A s \in Seconds : DOMAIN archives[s].entries \subseteq Files
    BY SMT, <2>1 DEF Entries
  <2>3. volume \in [Files -> Versions \cup {NoFile, Cut}] /\ DOMAIN archives = Seconds
    BY DEF BackupsInv, Typed, Contents
  <2>4. clock \in Nat /\ begun \in 0..PerSecond BY SMT DEF BackupsInv, Typed, Seconds
  <2>5. \A t \in Tasks : DOMAIN task[t] = DOMAIN Idle BY IdleTyped DEF BackupsInv, Typed, IsTask
  <2>6. done \subseteq Seconds BY DEF BackupsInv, Typed
  <2> QED BY <2>1, <2>2, <2>3, <2>4, <2>5, <2>6 DEF BackupsTypeOK
<1>2. BackupsSpec => []BackupsInv BY BackupsInvariant
<1> QED BY <1>1, <1>2, PTL

\* A backup that is acked holds exactly the files there were when nobody else
\* changed the volume meanwhile (create_backup of skyperf-core), whatever other
\* backups, restores and deletes go on.
THEOREM BackupsAreExact == PerSecond = 1 /\ BackupsSpec => []BackupIsExact
<1>1. BackupsInv => BackupIsExact
  <2> SUFFICES ASSUME BackupsInv, NEW t \in Tasks, task[t].at = "ok", task[t].quiet,
                      task[t].secs \in done, task[t].source = NoArchive
               PROVE  archives[task[t].secs].entries = [f \in Kept(t) |-> task[t].before[f]]
    BY DEF BackupIsExact, Kept
  <2>1. archives[task[t].secs].state = "whole" /\ task[t].secs \in Seconds
    BY DEF BackupsInv, DoneInv, Typed
  <2>2. 0 \notin Seconds BY SMT DEF Seconds
  <2>3. BackedUp(t)
    BY <2>1, <2>2, IdleTyped, NoArchiveTyped
       DEF BackupsInv, TaskInv, Writer, Writing, Restorer, Lister
  <2> QED BY <2>1, <2>3 DEF BackedUp
<1> QED BY <1>1, BackupsInvariant, PTL

\* A restore that nobody disturbs changes only the files of its archive, and
\* when it is acked each of them is as it was backed up (restore_backup), also
\* from an archive that is still being written.
THEOREM RestoresAreExact == PerSecond = 1 /\ BackupsSpec => []RestoreIsExact
<1>1. BackupsInv => RestoreIsExact
  <2> SUFFICES ASSUME BackupsInv, NEW t \in Tasks, task[t].quiet, task[t].source # NoArchive
               PROVE  /\ \A f \in Files \ DOMAIN task[t].source.entries :
                            volume[f] = task[t].before[f]
                      /\ task[t].at = "ok" =>
                            /\ task[t].source.state = "whole"
                            /\ \A f \in DOMAIN task[t].source.entries :
                                 volume[f] = task[t].source.entries[f]
    BY DEF RestoreIsExact
  <2>1. Restorer(t)
    BY IdleTyped DEF BackupsInv, TaskInv, Writer, BackedUp, Lister
  <2> QED BY <2>1 DEF Restorer
<1> QED BY <1>1, BackupsInvariant, PTL

\* A listing names every archive that was done when it began and is still there,
\* newest first (list_backups), however archives come and go meanwhile.
THEOREM ListingsAreComplete == PerSecond = 1 /\ BackupsSpec => []AckedIsListed
<1>1. BackupsInv => AckedIsListed
  <2> SUFFICES ASSUME BackupsInv, NEW t \in Tasks, task[t].at = "ok"
               PROVE  /\ task[t].acked \cap done \subseteq Names(t)
                      /\ \A i, j \in DOMAIN task[t].listed :
                            i < j => task[t].listed[i][2] >= task[t].listed[j][2]
    BY DEF AckedIsListed, Names, NamesOf
  <2>1. DOMAIN <<>> = {} BY SMT
  <2>2. NothingListed(t) \/ Lister(t)
    BY IdleTyped DEF BackupsInv, TaskInv, Writer, Writing, BackedUp, Restorer
  <2>3. CASE NothingListed(t) BY <2>1, <2>3 DEF NothingListed
  <2>4. CASE Lister(t) BY <2>4 DEF Lister
  <2> QED BY <2>2, <2>3, <2>4
<1> QED BY <1>1, BackupsInvariant, PTL
=============================================================================
