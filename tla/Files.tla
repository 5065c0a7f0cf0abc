-------------------------------- MODULE Files --------------------------------
(* A server's volume under the file commands of the dispatcher: list_files,   *)
(* read_file, write_file, rename_file, delete_file and mkdir                  *)
(* (daemon/src/agent/dispatcher.rs), one action per system call that other    *)
(* actors can come between.  Commands run in tasks of their own, the game     *)
(* server writes to the same volume, any call can fail, and the daemon can    *)
(* die at any point.                                                          *)
(*                                                                            *)
(* A path is a sequence of names; <<>> is the volume itself.  A content is a  *)
(* sequence of blocks, version v being Size[v] blocks of v, so that a file    *)
(* that was cut short or that mixes two versions is told from a whole one.    *)
(* A command with a missing argument, a path resolve_path rejects or content  *)
(* that does not decode changes nothing and is no step.                       *)
EXTENDS Naturals, Sequences

CONSTANTS
    Names,              \* the names there can be in a directory
    Paths,              \* the paths there can be, <<>> among them
    Rels,               \* the paths commands name, as sequences of components
    Versions, Size,     \* contents and their lengths
    MAX_FILE_BYTES,
    ServerPaths,        \* the files the game server saves
    Tasks,
    NoPath

ASSUME PathsAssumption ==
    /\ Paths \subseteq Seq(Names) /\ NoPath \notin Paths
    /\ <<>> \in Paths
    /\ \A p \in Paths : \A n \in 0..Len(p) : SubSeq(p, 1, n) \in Paths
ASSUME ServerAssumption == ServerPaths \subseteq Paths
ASSUME SizeAssumption == Size \in [Versions -> Nat] /\ MAX_FILE_BYTES \in Nat

VARIABLES
    volume,     \* the node at each path
    task        \* each task: where it is, its command, the path of the file it
                \* has open, the entries it has still to stat, what it has read
                \* and listed; and as history, the volume when its command
                \* arrived and whether nobody else has changed it since

filesVars == <<volume, task>>

Absent == [kind |-> "absent", blocks |-> <<>>]
Dir == [kind |-> "dir", blocks |-> <<>>]
File(b) == [kind |-> "file", blocks |-> b]

Whole(v) == [i \in 1..Size[v] |-> v]

\* What writing new at the start of a file that holds old makes of it.
Overwrite(old, new) == new \o SubSeq(old, Len(new) + 1, Len(old))

\* q is p or below it.
Under(q, p) == Len(p) <= Len(q) /\ \A i \in 1..Len(p) : q[i] = p[i]

Below(p) == {q \in Paths : Under(q, p)}
UpTo(p) == {q \in Paths : Under(p, q)}
Parents(p) == UpTo(p) \ {p}
Entries(tree, p) == {q \in Below(p) : Len(q) = Len(p) + 1 /\ tree[q] # Absent}
ParentIsDir(tree, p) == \A q \in Parents(p) : tree[q] = Dir

\* The path r below p, once p has become q.
Rebase(r, p, q) == q \o SubSeq(r, Len(p) + 1, Len(r))

\* std::path::Component: "." is CurDir, ".." ParentDir, "/" RootDir.
resolve_path(rel) ==
    IF \E i \in DOMAIN rel : rel[i] \in {"..", "/"} THEN NoPath
    ELSE SelectSeq(rel, LAMBDA c : c # ".")

Idle == [at |-> "idle", op |-> "none", path |-> <<>>, to |-> <<>>,
         version |-> CHOOSE v \in Versions : TRUE,
         fd |-> NoPath, todo |-> {}, bytes |-> <<>>, entries |-> {},
         before |-> <<>>, quiet |-> FALSE]

FilesTypeOK ==
    /\ DOMAIN volume = Paths
    /\ \A p \in Paths :
        /\ volume[p] \in {Absent, Dir} \/ volume[p] = File(volume[p].blocks)
        /\ volume[p] # Absent => ParentIsDir(volume, p)
    /\ \A t \in Tasks : DOMAIN task[t] = DOMAIN Idle

FilesInit ==
    /\ volume = [p \in Paths |-> IF p = <<>> THEN Dir ELSE Absent]
    /\ task = [t \in Tasks |-> Idle]

Opened == Paths \cup {NoPath}
Stay == [f \in Opened |-> f]

\* The volume becomes tree and files that are open move as where says; the
\* commands of the other tasks are disturbed.
Becomes(tree, where, own) ==
    /\ volume' = tree
    /\ task' = [t \in Tasks |->
                    IF t \in DOMAIN own THEN own[t]
                    ELSE LET r == [task[t] EXCEPT !.fd = where[@]]
                         IN  IF tree = volume THEN r
                             ELSE [r EXCEPT !.quiet = FALSE, !.before = <<>>]]

Change(t, tree, new) == Becomes(tree, Stay, [u \in {t} |-> new])
Look(t, new) == Change(t, volume, new)

Receive(t, op, rel, rel2, v) ==
    /\ task[t].at = "idle"
    /\ {resolve_path(rel), resolve_path(rel2)} \subseteq Paths
    /\ Look(t, [Idle EXCEPT !.at = op, !.op = op, !.path = resolve_path(rel),
                            !.to = resolve_path(rel2), !.version = v,
                            !.before = volume, !.quiet = TRUE])

-----------------------------------------------------------------------------
\* tokio::fs::create_dir_all: an error if a file is in the way.
CanMake(dirs) == \A q \in dirs : volume[q].kind # "file"
Made(tree, dirs) == [q \in Paths |-> IF q \in dirs THEN Dir ELSE tree[q]]

\* Mutant: a file in the way is replaced by a directory.
MkdirOver(t) ==
    /\ task[t].at = "mkdir"
    /\ Change(t, Made(volume, UpTo(task[t].path)), [task[t] EXCEPT !.at = "ok"])

Mkdir(t) ==
    /\ task[t].at = "mkdir"
    /\ CanMake(UpTo(task[t].path))
    /\ Change(t, Made(volume, UpTo(task[t].path)), [task[t] EXCEPT !.at = "ok"])

-----------------------------------------------------------------------------
\* write_file

WriteChecks(t) ==
    LET parents == Parents(task[t].path) IN
    /\ task[t].at = "write"
    /\ Size[task[t].version] <= MAX_FILE_BYTES
    /\ CanMake(parents)
    /\ Change(t, Made(volume, parents), [task[t] EXCEPT !.at = "write.open"])

\* Mutant: the file is opened without truncating it.
WriteOpensKeeping(t) ==
    LET p == task[t].path IN
    /\ task[t].at = "write.open"
    /\ ParentIsDir(volume, p) /\ volume[p] # Dir
    /\ Change(t, [volume EXCEPT ![p] = File(@.blocks)],
              [task[t] EXCEPT !.at = "write.data", !.fd = p])

\* tokio::fs::write creates or truncates the file in place ...
WriteOpens(t) ==
    LET p == task[t].path IN
    /\ task[t].at = "write.open"
    /\ ParentIsDir(volume, p) /\ volume[p] # Dir
    /\ Change(t, [volume EXCEPT ![p] = File(<<>>)],
              [task[t] EXCEPT !.at = "write.data", !.fd = p])

\* ... and then writes to it, wherever it is by now: all of it, or a part
\* followed by an error.
WriteData(t) ==
    /\ task[t].at = "write.data"
    /\ \E n \in 0..Size[task[t].version] :
        LET part == SubSeq(Whole(task[t].version), 1, n) IN
        Change(t, [p \in Paths |-> IF p = task[t].fd
                                   THEN File(Overwrite(volume[p].blocks, part))
                                   ELSE volume[p]],
               [task[t] EXCEPT !.at = IF n = Size[task[t].version] THEN "ok" ELSE "err",
                               !.fd = NoPath])

-----------------------------------------------------------------------------
\* read_file

ReadStats(t) ==
    LET node == volume[task[t].path] IN
    /\ task[t].at = "read"
    /\ node # Absent /\ Len(node.blocks) <= MAX_FILE_BYTES
    /\ Look(t, [task[t] EXCEPT !.at = "read.data"])

ReadData(t) ==
    LET node == volume[task[t].path] IN
    /\ task[t].at = "read.data"
    /\ node.kind = "file"
    /\ Look(t, [task[t] EXCEPT !.at = "ok", !.bytes = node.blocks])

-----------------------------------------------------------------------------
\* list_files

ListOpens(t) ==
    /\ task[t].at = "list"
    /\ volume[task[t].path] = Dir
    /\ Look(t, [task[t] EXCEPT !.at = "list.stat",
                               !.todo = Entries(volume, task[t].path)])

FileEntry(tree, q) == <<q, tree[q] = Dir, Len(tree[q].blocks)>>

\* An entry that has gone since the directory was read fails the listing.
ListStats(t) ==
    /\ task[t].at = "list.stat"
    /\ \E q \in task[t].todo :
        /\ volume[q] # Absent
        /\ Look(t, [task[t] EXCEPT !.todo = @ \ {q},
                                   !.entries = @ \cup {FileEntry(volume, q)}])

ListEnds(t) ==
    /\ task[t].at = "list.stat"
    /\ task[t].todo = {}
    /\ Look(t, [task[t] EXCEPT !.at = "ok"])

-----------------------------------------------------------------------------
\* delete_path

DeleteStats(t) ==
    LET node == volume[task[t].path] IN
    /\ task[t].at = "delete"
    /\ node # Absent
    /\ Look(t, [task[t] EXCEPT !.at = IF node = Dir THEN "delete.tree" ELSE "delete.file"])

Unlink(t, q, next) ==
    Becomes([volume EXCEPT ![q] = Absent], [Stay EXCEPT ![q] = NoPath],
            [u \in {t} |-> [task[t] EXCEPT !.at = next]])

\* tokio::fs::remove_file: an error if it is a directory by now.
DeleteFile(t) ==
    /\ task[t].at = "delete.file"
    /\ volume[task[t].path].kind = "file"
    /\ Unlink(t, task[t].path, "ok")

\* Mutant: a directory may go before what is in it.
DeleteTreeAnyOrder(t) ==
    /\ task[t].at = "delete.tree"
    /\ volume[task[t].path] = Dir
    /\ \E q \in Below(task[t].path) :
        /\ volume[q] # Absent
        /\ Unlink(t, q, IF q = task[t].path THEN "ok" ELSE "delete.tree")

\* tokio::fs::remove_dir_all: entries go one by one, from the leaves up.
DeleteTree(t) ==
    /\ task[t].at = "delete.tree"
    /\ volume[task[t].path] = Dir
    /\ \E q \in Below(task[t].path) :
        /\ volume[q] # Absent /\ Entries(volume, q) = {}
        /\ Unlink(t, q, IF q = task[t].path THEN "ok" ELSE "delete.tree")

-----------------------------------------------------------------------------
\* rename_file: rename(2), atomic.  A file replaces a file, a directory an empty
\* directory, and nothing is moved into itself.

Renamed(tree, p, q) ==
    [r \in Paths |->
        LET from == Rebase(r, q, p) IN
        IF Under(r, q) /\ from \in Paths THEN tree[from]
        ELSE IF Under(r, p) \/ Under(r, q) THEN Absent
        ELSE tree[r]]

\* What moves stays within the paths modelled.
Fits(p, q) == \A r \in Below(p) : volume[r] # Absent => Rebase(r, p, q) \in Paths

Rename(t) ==
    LET p == task[t].path
        q == task[t].to
        where == [f \in Opened |-> IF f # NoPath /\ Under(f, p) THEN Rebase(f, p, q)
                                   ELSE IF f = q THEN NoPath ELSE f] IN
    /\ task[t].at = "rename"
    /\ volume[p] # Absent /\ ParentIsDir(volume, q)
    /\ p = q \/ ~Under(q, p)
    /\ \/ volume[q] = Absent \/ p = q
       \/ volume[p].kind = "file" /\ volume[q].kind = "file"
       \/ volume[p] = Dir /\ volume[q] = Dir /\ Entries(volume, q) = {}
    /\ Fits(p, q)
    /\ Becomes(Renamed(volume, p, q), where,
               [u \in {t} |-> [task[t] EXCEPT !.at = "ok"]])

-----------------------------------------------------------------------------

\* A call fails, for a reason the handlers check for or any other.
Fails(t) ==
    /\ task[t].at \notin {"idle", "ok", "err"}
    /\ Look(t, [task[t] EXCEPT !.at = "err", !.fd = NoPath])

\* The ack is sent and the task ends.
Return(t) ==
    /\ task[t].at \in {"ok", "err"}
    /\ Look(t, Idle)

\* The game server saves a file.
ServerWrites(p, v) ==
    /\ ParentIsDir(volume, p) /\ volume[p] # Dir
    /\ Becomes([volume EXCEPT ![p] = File(Whole(v))], Stay, <<>>)

\* The daemon dies and is restarted.
Crash ==
    /\ task' = [t \in Tasks |-> Idle]
    /\ UNCHANGED volume

FilesStep(t) ==
    \/ Mkdir(t) \/ WriteChecks(t) \/ WriteOpens(t) \/ WriteData(t)
    \/ ReadStats(t) \/ ReadData(t) \/ ListOpens(t) \/ ListStats(t) \/ ListEnds(t)
    \/ DeleteStats(t) \/ DeleteFile(t) \/ DeleteTree(t) \/ Rename(t) \/ Fails(t)

Command(t) ==
    \E rel \in Rels :
        \/ \E op \in {"mkdir", "read", "list", "delete"} :
                Receive(t, op, rel, <<>>, Idle.version)
        \/ \E v \in Versions : Receive(t, "write", rel, <<>>, v)
        \/ \E to \in Rels : Receive(t, "rename", rel, to, Idle.version)

FilesNext ==
    \/ \E t \in Tasks : Command(t) \/ FilesStep(t) \/ Return(t)
    \/ \E p \in ServerPaths, v \in Versions : ServerWrites(p, v)
    \/ Crash

FilesSpec == FilesInit /\ [][FilesNext]_filesVars

-----------------------------------------------------------------------------
\* Properties

\* What a command promises about the volume it leaves and the result it
\* returns, given the volume it found.
Promise(c, old, new) ==
    LET p == c.path IN
    /\ c.op = "mkdir" => new = Made(old, UpTo(p))
    /\ c.op = "write" => new = [Made(old, UpTo(p)) EXCEPT ![p] = File(Whole(c.version))]
    /\ c.op = "read" => /\ new = old /\ c.bytes = old[p].blocks
                        /\ Len(c.bytes) <= MAX_FILE_BYTES
    /\ c.op = "list" => /\ new = old
                        /\ c.entries = {FileEntry(old, q) : q \in Entries(old, p)}
    /\ c.op = "delete" => new = [q \in Paths |-> IF q \in Below(p) THEN Absent ELSE old[q]]
    /\ c.op = "rename" => \A r \in Below(p) : old[r] # Absent =>
                            /\ new[Rebase(r, p, c.to)] = old[r]
                            /\ c.to # p => new[r] = Absent

\* A command that is acked as done, and that no other actor disturbed, did what
\* it promises as if it were atomic, whatever failures and crashes left behind
\* before it.
DoneAsPromised ==
    \A t \in Tasks : (task[t].at = "ok" /\ task[t].quiet) =>
        Promise(task[t], task[t].before, volume)

\* A command in progress, failed or done has touched only the paths at or below
\* the ones it names, apart from making parent directories: a failure half way
\* damages nothing else.
FailureIsConfined ==
    \A t \in Tasks : task[t].quiet =>
        LET c == task[t] IN
        \A q \in Paths :
            \/ volume[q] = c.before[q]
            \/ c.op \notin {"read", "list"} /\ Under(q, c.path)
            \/ c.op = "rename" /\ Under(q, c.to)
            \/ /\ c.op \in {"write", "mkdir"} /\ Under(c.path, q)
               /\ c.before[q] = Absent /\ volume[q] = Dir
=============================================================================
