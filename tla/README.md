# sky-daemon: a TLA+ verification project

sky-daemon runs on a game-server node.  It keeps a signed WebSocket connection
to a panel, executes the panel's commands against the local Docker Engine, and
reports events and statistics back.  This directory models the parts of it that
change state, checks them with TLC, and proves the main invariants with TLAPS.

## 1. The system

| Part | Source | State | Operations | What makes it hard |
|---|---|---|---|---|
| Inbound checks | `agent/session.rs`, `agent/nonce_cache.rs`, `protocol/envelope.rs` | nonce cache, two clocks | `handle_incoming`, `verify`, `check_and_record` | duplicates at the edge of two time windows, clock adjustments, reconnects |
| Panel connection | `agent/client.rs`, `agent/session.rs` | backoff, event and ack queues, the select loop | dial, sleep, select branches, writes, spawned commands | connections that break at any await, cancellation, tasks that outlive their connection |
| Docker runtime | `runtime/docker.rs` | the Engine's containers, images and attach connections; locals of each call | create, start, stop, kill, remove, attach, pull, list | calls of several requests that interleave; retries; lost answers; port clean-up on stale lists |
| Dispatcher: containers | `agent/dispatcher.rs`, `main.rs` | `tracked`, `consoles`, pump tasks | the container commands, `reconcile` | updates after an await, late pumps, crash and restart |
| Dispatcher: console input | `agent/dispatcher.rs` | the stdin of a connection and its lock | `console_input` | two writes per input, connections that are replaced |
| Dispatcher: files | `agent/dispatcher.rs` | a server's volume | list, read, write, rename, delete, mkdir | several system calls per command, the game server writing meanwhile |
| Backups | `agent/dispatcher.rs`, `skyperf-core/backup.rs` | archives, the volume | backup, list, restore, delete | archives written and read entry by entry, names per second, failures half way |
| Databases | `db.rs` | MariaDB's databases, users and grants | create with compensation, delete | one of several auto-committed statements failing |
| Responses and output | `runtime/docker.rs`, `runtime/demux.rs` | read buffers | parse, dechunk, demultiplex, split into lines | bytes that arrive cut anywhere |
| Log tailing (a library; the daemon does not call it yet) | `skyperf-core/tail.rs` | the position in a file | `last_n_lines`, `follow` | rotation between a look and a read |
| Firewall | `runtime/firewall.rs` | ufw's rules, the `WARNED` flag | `open_ports` | commands that time out and go on |
| Statistics, configuration, payloads, signatures, directory size | | none that lasts | | |

Commands arrive over the connection, pass the inbound checks, and are executed
by a task each; a task calls the runtime and updates the dispatcher's maps; its
ack goes back through a queue of the connection it came from, its events through
a queue that outlives connections.  `PROJECT.json` lists every component and
every hazard with its line.

## 2. Modules

* **Inbound**: `handle_incoming` as one action per outcome.  An envelope is a
  nonce with a timestamp and a class (malformed, forged, other, undecodable,
  command): signature and payload only matter by what they decide.  `seen` is
  the cache, `mono` the `Instant` clock, `mono + offset` the wall clock.
* **Session**: `client` and `backoff` are `client::run`; `loop` is the await
  `Session::run` is at; `events`, `held` and `acks`, `heldAck` are the two
  queues and the message being written; `task` is the task of each command.
  `sent`, `lost` and `slept` are history.
* **EventStream**: the abstract promise about events, a FIFO that loses at most
  the event a breaking connection was writing.  `Session` implements it
  (`StreamSpec`: `pending <- held \o events`, and so on).
* **Docker**: each runtime call split at its requests; `at` says which request
  a task is about to make, the other variables are the call's locals.  The
  Engine is external: requests are atomic, may fail, and with `LossyEngine` may
  take effect and lose the answer.  A container's name and label are one thing,
  its server; without one it is foreign (`NoServer`).
* **Dispatcher**: extends Docker with `tracked`, `consoles` and the pumps.  The
  runtime is multi-threaded, so a step is what a handler does under one lock:
  `Start` is `StartReturned` (track), `ConsoleChecked` (event and test of
  `consoles`), the attach, `Attached`; `Remove` is `Removed`, `ConsoleRemoved`.
  Merged into these are only the sending of an event, which no other step reads,
  and the spawning of a pump with the insertion before it: an entry taken out in
  between leaves the same state as one taken out after.  `Restart` is a crash at
  any point followed by a new process; `reconcile` runs before the first command.
* **Database**: `create_database` and `delete_database`, one action per
  statement.  `data`, `users` and `grants` are MariaDB, which is external: a
  statement succeeds, is refused, or takes the connection down with or without
  having taken effect.  `outcome` is what the panel was told last about a name;
  `missed` is history, the names for which something failed that the code cannot
  or does not make good.
* **Files**: a volume as a tree of nodes, each file command as one action per
  system call.  `resolve_path` works on components.  Contents are sequences of
  blocks, so that a file cut short, or mixed from two writes, differs from a
  whole one; a file that is open moves with renames.  `before` and `quiet` are
  history: the volume a command found, and whether it had it to itself.
* **Backups**: a flat volume and one archive per second of the clock.  An
  archive is open, whole, or mixed from two backups; it is appended to and
  unpacked entry by entry, and a restore of an archive that is still being
  written reads on as it grows.
* **Text**: bytes as numbers, and what the lines of a byte sequence are: the
  reference for the two modules below.
* **Wire**: what `request`, `parse_response`, `dechunk`, `extract_pull_error`,
  `attach`, `pump_output` and `LineSplitter` make of the Engine's bytes, read in
  pieces of any size.  Encodings keep their form with smaller digits.
* **LogTail**: `follow` split between its look at the length and its read, with
  a file that is appended to, rotated and removed; `last_n_lines` as an operator.
* **Console**: `console_input` from the map to its two writes.  Why an entry
  comes and goes is Dispatcher's matter; here it may at any time.
* **Firewall**: `open_ports` port by port; `late` are the commands that timed out
  and have not ended.
* **MC\*** give the constants their values.  MCStreams puts Wire, LogTail,
  Console and Firewall side by side: they share nothing, and a behaviour is one
  of theirs.  **\*Proofs** hold the theorems.

Operators whose comment begins with "Mutant:" are plausible bugs.  Each property
of a passing run has one that breaks it (`PROJECT.json`, `mutants`).

## 3. Runs

| Run | Shows |
|---|---|
| `inbound` | an envelope passes at most once per session and runs at most once per connection; a duplicate always ends the session |
| `session` | events neither repeated nor reordered nor starved, backoff law, acks stay with their connection, implements EventStream, commands are answered, cancelling stops the client |
| `docker` | create's recoveries happen at most once each; foreign containers are never removed; every call returns |
| `dispatcher` | with one command at a time: tracking and the reported state agree with the Engine at rest |
| `dispatcher_races` | with two commands on one server: a console entry always has its live pump |
| `database` | a database acked as created is usable, one acked as deleted is gone, a failed create strands nothing it could have removed |
| `files` | an acked, undisturbed command did what it promises; a failed one has damaged nothing else |
| `backups` | an acked archive stays whole, holds exactly the volume, and is listed; an acked restore unpacked a whole archive and nothing else |
| `streams` | a pull's verdict is true wherever the response is cut; output and log lines are reported once, whole and in order; console inputs are whole lines and are answered; ports reported open are open, each is tried once, the hint is given once |

Three runs find a comment of the code violated; `PROJECT.json`, `findings`, quotes
the comment.

| Run | Comment | What happens |
|---|---|---|
| `session_loss` | `session.rs:60` events queue up rather than getting lost | the event being written is lost |
| `dispatcher_twice` | `dispatcher.rs:42` presence prevents a second attach | an old pump takes out the new entry |
| `database_retry` | `db.rs:53` the compensation drops what "we just created" | a create sent again drops a database in use |

Four limits of the code that the passing runs state as conditions:

* The nonce cache belongs to a connection (`session.rs:53`), so an envelope that
  is still fresh may run again after a reconnect: the bound is one execution per
  connection, not one per process.
* `free_conflicting_ports` removes from a list that may be stale
  (`docker.rs:280`): foreign containers are safe, another server's container that
  was started meanwhile is not.
* `Remove` untracks after an await (`dispatcher.rs:155`): `StartedIsTracked` is
  checked and proved for one command of a server at a time (`OneAtATime`).
* Archives are named per second (`dispatcher.rs:311`): the properties of backups
  are checked and proved for one backup of a server per second (`PerSecond = 1`).

### Bounds

* Inbound: the unit of time is the skew, so 30 s and 120 s are 1 and 4, with a
  drift of 1.  Five ticks outlast the time-to-live, so entries expire during the
  run; two sessions give a reconnect.  Timestamps stay clear of the ends of i64.
* Session: a backoff of 1 to 3 meets the cap off a power of two, as 1 to 30 does.
  Three events put one in flight, one behind it and one emitted meanwhile; two
  commands have their acks in either order.  Connections are not bounded.
* Docker: two calls interleave; all containers want one port; two ids are a
  target and one that holds its port or name, of the server or foreign.  Ids are
  never reused, so the Engine runs out of them, after which creates fail.
* Dispatcher: one task for the properties that are about one command at a time,
  two tasks, two ids and two connections on one server for the races.  Answers
  are not lost there: a create whose answer is lost leaves a container nobody
  tracks, which the code does not claim to handle before the next create.
* Database: two names with a user each, two tasks, one command per name at a
  time (`PerName`).  `Recreate` says whether an acked database may be created
  again: not in `database`, where a failed create is to leave nothing, but in
  `database_retry`.
* Files: a file, a directory and a file in it; two tasks and the game server; one
  version that fits the limit and one that does not.  Renames that would leave
  these paths are not taken.
* Backups: two files, one version besides absent and cut, two tasks, a clock of
  two seconds: a second backup, and listings with two archives.
* Streams: radix 2, so that sizes have two digits; up to two frames of every
  type with payloads that cut lines and CRLF in all ways, up to three chunks;
  log files of six bytes and one rotation; two inputs over two connections; two
  creates whose bindings repeat a port, hold 0 and do not parse.

### Fairness

`session`: writes, collecting and dialling end (time-outs of the operating
system, an Engine that answers); `tokio::select!` picks at random among the
ready branches, hence strong fairness for events, acks and the token; a panel
that is reachable now and then, hence strong fairness for dialling and the
hello.  `docker`: weak fairness of each request, which the Engine answers
with success or failure.  Without it the daemon does wait for ever: neither the
heartbeat nor the runtime has a time-out of its own.  `streams`: the polling
thread runs (weak fairness of `Poll` and `Read`); writes to a connection end with
success or failure; tokio's mutex hands the lock to the waiting in turn (strong
fairness of `LockStdin`).

Deadlock is checked in all runs but those of Session, which stops when
cancelled, and `streams`, whose connections close, follower stops and inputs and
creates run out.

## 4. Proofs

Checked by `tlapm`, for every value of the constants that satisfies the
`ASSUME`s of the modules.

* **InboundProofs**: `TypeCorrect`; `OncePerSession`; `DuplicateIsFatal`;
  `OncePerConnection`, an execution being an acceptance of its session.  From
  `TtlAssumption`, ttl > 2 * skew + drift.  That nothing was accepted twice is
  not inductive: a step must know that a nonce missing from the cache belongs to
  an envelope no longer fresh.  `Window` says so: a cached nonce was recorded no
  earlier than its envelope became fresh, and an accepted one that was swept is
  stale, whatever the wall clock is set to within the drift.
* **SessionProofs**: `TypeCorrect`; `AcksStayHome`, which needs
  that no command has two acks under way and that the loop runs only in a
  session; `ImplementsEventStream`, each step maps to a step of EventStream or to
  a stutter; `EventsAreConserved`, by where each step cuts the line of events
  written, held and queued; `BackoffDoubles`, for every minimum and cap.  That
  `2^n` doubles, which the prover does not know, follows from the number of
  subsets of a finite set.
* **DispatcherProofs**, about Docker: `DockerTypeCorrect`; `CreateRecoversOnce`
  from `PostsPaid`, in which each further post is paid for by setting `pulled` or
  `cleared`; `ForeignSafe` from `OnlyOurs`: whatever a call is about to remove has
  a server.  About Dispatcher: `TypeCorrect`, with `StartHasContainer`;
  `ConsolesAlive` from `ConnectionsOwned`: a connection has at most one owner,
  the Start that opened it or one pump, and is not at its end while it has one.
  `TracksCurrent`, `TracksStarted` and `OfflineIsStopped`, when commands come one
  at a time (`OneAtATime`) and no answer of the Engine is lost, for any number of
  servers, containers, failures and restarts.  The three are about servers at
  rest; `TrackInv` says what each place of each command may rely on until then,
  and that a server has at most one container by its name.
* **DatabaseProofs**: `CreatesAreTrue` (what was acked as created is usable) and
  `DeletesAreTrue` (what was acked as deleted is gone) for one command per name at
  a time, and `CompensationIsComplete` if, besides, acked databases are not
  created again.  The invariant `DatabaseInv` says what each statement may rely
  on: how far the command at that statement has got, that no other command works
  on its name, and, for names without a command, what their last answer promised.
  That users are not shared (`OwnerAssumption`) keeps commands on other names out.
* **FilesProofs**: `FilesTypeCorrect`, `CommandsDoAsPromised` and
  `FailuresAreConfined`, for any set of paths closed under what leads to them.
  First that `Under` is an order, that `Rebase` moves what is below a path and
  back, and that making, writing, removing and renaming leave a tree (a rename is
  refused just when it would not).  The invariant `FilesInv` then says how far
  each system call of a command has taken the volume it found (`Stage`), if
  nobody disturbed it, and that what is open is a file, without which a write
  could land on a directory.  A step of another actor that changes the volume
  disturbs the command; one that does not moves no open file.
* **BackupsProofs**: with one backup begun per second (`PerSecond = 1`),
  `BackupsTypeCorrect`, `DoneStaysWhole`, `BackupsAreExact`, `RestoresAreExact`
  and `ListingsAreComplete`.  In the invariant `BackupsInv` a writer has an
  archive of its own that is not done and holds the files it has gone through
  (`Writer`, `OneWriter`); what a restore has read stays a part of its archive,
  however that grows (`Restorer`); what a listing has not named it has still to
  go through (`Lister`).
* **ConsoleProofs**: `InputLinesAreWhole`.  The invariant says what the lock
  guards: a task between its two writes holds it (`Locked`), and a connection
  that is not broken ends in the text of exactly such a task (`Pending`).
* **LoopProofs**, about LogTail: `FollowIsExact`, for writes of any bytes and
  any number of rotations, and `LastLinesReturned`.  `TailInv` says that what was
  reported is the lines of what was read; the step is `LinesJoin`, that the lines
  of two pieces are those of the whole when the first ends with a line.  About
  Firewall: `OpenedPortsAreOpen`, `EveryPortIsTried` and `HintIsLoggedOnce`, for
  any bindings and any number of creates, from `FirewallInv`, which relates what
  a create has gone through to ufw's rules and to the flag.  Both loops are
  recursive functions (`LinesOf`, `last_n_lines`, `ports_from_bindings`).  That
  such a function exists and what it computes is proved by induction, which rests
  on the library's theorem that the natural numbers are well founded (`Induction`).

The type invariants of Inbound, Dispatcher and Database are proved here and not
repeated in the runs.

The SMT encoding of tlapm 1.4.5 takes `Len(s) = n` and `DOMAIN s = 1..n` for
equivalent, whatever `s` is; only the step from the domain to the length is
justified.  No proof relies on the other: all have also been checked with the
axiom reduced to that step.

Only model-checked: all liveness (fairness and ENABLED are beyond the prover),
and the readers of Wire (`PullIsTrue`, `LinesAreExact`), whose operators are
RECURSIVE over a response that is cut anywhere.

## 5. Not modelled

* Statistics: floating-point arithmetic on the numbers of one response.
* Configuration, read once; serialisation and HMAC, whose verdict is the class
  of an envelope; the directory size, which nothing calls and has no state; the
  fake runtime, a test double; `inspect` and `stats`, which only read and are
  part of collecting a heartbeat.
* Symbolic links and file modes in Files, directories in Backups, the form of
  database names and passwords in Database.
* i64 timestamps at the ends of their range, for which the freshness check has
  no defined difference (`envelope.rs:77`).
* A time-out on the Engine: the code has none, and liveness assumes answers.
* The order of two commands of one server, which run in tasks of their own: what
  the panel relies on is not in this repository.
