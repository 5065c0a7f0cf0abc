------------------------------- MODULE Docker -------------------------------
(***************************************************************************)
(* DockerRuntime: the calls of runtime/docker.rs that change containers,   *)
(* split at every request to the Docker Engine, so that the requests of    *)
(* concurrent calls interleave.                                            *)
(*                                                                         *)
(* The Engine is external.  It is modelled as the requests of docker.rs    *)
(* see it: containers have a state, a name and host ports, a request is    *)
(* atomic, it may fail, and (when LossyEngine) its answer may be lost      *)
(* after it took effect.  A container's name and label stand for one thing *)
(* here, the server it belongs to; a container with neither is foreign.    *)
(***************************************************************************)
EXTENDS Naturals, FiniteSets

CONSTANTS
    Servers,      \* the panel's servers
    NoServer,     \* the "server" of containers that are not the panel's
    Ids,          \* container ids; the Engine never reuses one
    NoId,
    Streams,      \* attach connections; bound on how many are opened
    NoStream,
    Tasks,        \* the daemon's tasks, each in at most one runtime call
    HostPort,     \* the host port each server's containers publish
    LossyEngine   \* whether the Engine's answer to a request can be lost

ASSUME DockerAssumption ==
    /\ NoServer \notin Servers
    /\ NoId \notin Ids
    /\ NoStream \notin Streams
    /\ LossyEngine \in BOOLEAN

VARIABLES
    state,      \* Engine: the state of each container
    server,     \* Engine: whose container it is
    image,      \* Engine: whether a server's image is present
    stream,     \* Engine and pump_output: the attach connections
    source,     \* the container each attach connection belongs to
    at,         \* where each task is in its runtime call
    id,         \* the call's container: its argument, or what create made
    srv,        \* the server create is called for
    pulled,     \* create_container's local `pulled`
    cleared,    \* create_container's local `cleared`
    victims,    \* the containers free_conflicting_ports will still remove
    conn,       \* the connection attach returned
    posts       \* history: how often the call posted /containers/create

engineVars == <<state, server, image, stream, source>>
callVars == <<at, id, srv, pulled, cleared, victims, conn, posts>>
dockerVars == <<engineVars, callVars>>

ContainerState == {"unused", "created", "running", "exited", "gone"}

Phase == {"idle", "create.post", "create.pull", "create.clear",
          "start.post", "start.ports", "start.list", "start.free", "start.retry",
          "stop", "kill", "remove", "attach", "pull.check", "pull", "ok", "err"}

DockerTypeOK ==
    /\ state \in [Ids -> ContainerState]
    /\ server \in [Ids -> Servers \cup {NoServer}]
    /\ image \in [Servers -> BOOLEAN]
    /\ stream \in [Streams -> {"unused", "open", "eof", "done"}]
    /\ source \in [Streams -> Ids \cup {NoId}]
    /\ at \in [Tasks -> Phase]
    /\ id \in [Tasks -> Ids \cup {NoId}]
    /\ srv \in [Tasks -> Servers \cup {NoServer}]
    /\ pulled \in [Tasks -> BOOLEAN]
    /\ cleared \in [Tasks -> BOOLEAN]
    /\ victims \in [Tasks -> SUBSET Ids]
    /\ conn \in [Tasks -> Streams \cup {NoStream}]
    /\ posts \in [Tasks -> Nat]

\* No call is under way and nothing was attached yet; the Engine may already
\* hold containers, of the panel's servers or foreign ones.
DockerInit ==
    /\ state \in [Ids -> {"unused", "created", "running", "exited"}]
    /\ server \in [Ids -> Servers \cup {NoServer}]
    /\ \A c \in Ids : state[c] = "unused" => server[c] = NoServer
    /\ \A c, d \in Ids : server[c] = server[d] => c = d \/ server[c] = NoServer
    /\ image \in [Servers -> BOOLEAN]
    /\ stream = [a \in Streams |-> "unused"]
    /\ source = [a \in Streams |-> NoId]
    /\ at = [t \in Tasks |-> "idle"]
    /\ id = [t \in Tasks |-> NoId]
    /\ srv = [t \in Tasks |-> NoServer]
    /\ pulled = [t \in Tasks |-> FALSE]
    /\ cleared = [t \in Tasks |-> FALSE]
    /\ victims = [t \in Tasks |-> {}]
    /\ conn = [t \in Tasks |-> NoStream]
    /\ posts = [t \in Tasks |-> 0]

-----------------------------------------------------------------------------
\* The Engine (external)

Live(c) == c \in Ids /\ state[c] \in {"created", "running", "exited"}

Named(s) == {c \in Ids : Live(c) /\ server[c] = s}

SamePort(c, d) == HostPort[server[c]] = HostPort[server[d]]

\* A container of C that is no longer running, or no longer there, ends the
\* attach connections to it.
Halt(C, s) ==
    /\ state' = [c \in Ids |-> IF c \in C THEN s ELSE state[c]]
    /\ stream' = [a \in Streams |-> IF stream[a] = "open" /\ source[a] \in C
                                    THEN "eof" ELSE stream[a]]
    /\ UNCHANGED <<server, image, source>>

\* The answer to a request that took effect: it arrives, or it is lost.
Answer(t, next) ==
    \/ at' = [at EXCEPT ![t] = next]
    \/ LossyEngine /\ at' = [at EXCEPT ![t] = "err"]

Goto(t, next) == at' = [at EXCEPT ![t] = next]

\* A container stops by itself.
ContainerExits(c) ==
    /\ state[c] = "running"
    /\ Halt({c}, "exited")
    /\ UNCHANGED callVars

\* An attach connection breaks, or the Engine ends it: pump_output's read
\* returns 0 or an error.
StreamEnds(a) ==
    /\ stream[a] = "open"
    /\ stream' = [stream EXCEPT ![a] = "eof"]
    /\ UNCHANGED <<state, server, image, source, callVars>>

\* The operator prunes images.
ImagePruned(s) ==
    /\ image[s]
    /\ image' = [image EXCEPT ![s] = FALSE]
    /\ UNCHANGED <<state, server, stream, source, callVars>>

Engine ==
    \/ \E c \in Ids : ContainerExits(c)
    \/ \E a \in Streams : StreamEnds(a)
    \/ \E s \in Servers : ImagePruned(s)

-----------------------------------------------------------------------------
\* How a task enters a runtime call; the caller decides when.

\* create or pull, for a server.
CallFor(t, op, s) ==
    /\ Goto(t, op)
    /\ srv' = [srv EXCEPT ![t] = s]
    /\ UNCHANGED <<engineVars, id, pulled, cleared, victims, conn, posts>>

\* Any other call, on a container.
CallOn(t, op, c) ==
    /\ Goto(t, op)
    /\ id' = [id EXCEPT ![t] = c]
    /\ UNCHANGED <<engineVars, srv, pulled, cleared, victims, conn, posts>>

\* The call is over and its locals are dropped.
Forget(t) ==
    /\ Goto(t, "idle")
    /\ id' = [id EXCEPT ![t] = NoId]
    /\ srv' = [srv EXCEPT ![t] = NoServer]
    /\ pulled' = [pulled EXCEPT ![t] = FALSE]
    /\ cleared' = [cleared EXCEPT ![t] = FALSE]
    /\ victims' = [victims EXCEPT ![t] = {}]
    /\ conn' = [conn EXCEPT ![t] = NoStream]
    /\ posts' = [posts EXCEPT ![t] = 0]

-----------------------------------------------------------------------------
\* create: create_container with pull_image and remove_by_name

Posts(t) == posts' = [posts EXCEPT ![t] = @ + 1]

\* 404: pull, unless that was done already.
CreateNoImage(t) ==
    /\ at[t] = "create.post"
    /\ ~image[srv[t]]
    /\ Goto(t, IF pulled[t] THEN "err" ELSE "create.pull")
    /\ Posts(t)
    /\ UNCHANGED <<engineVars, id, srv, pulled, cleared, victims, conn>>

\* 409: remove by name, unless that was done already.
CreateNameTaken(t) ==
    /\ at[t] = "create.post"
    /\ image[srv[t]]
    /\ Named(srv[t]) # {}
    /\ Goto(t, IF cleared[t] THEN "err" ELSE "create.clear")
    /\ Posts(t)
    /\ UNCHANGED <<engineVars, id, srv, pulled, cleared, victims, conn>>

\* Mutant: create returns the container's name for its id.
CreateMadeReturnsName(t) ==
    /\ at[t] = "create.post"
    /\ image[srv[t]]
    /\ Named(srv[t]) = {}
    /\ \E c \in Ids :
         /\ state[c] = "unused"
         /\ state' = [state EXCEPT ![c] = "created"]
         /\ server' = [server EXCEPT ![c] = srv[t]]
         /\ id' = [id EXCEPT ![t] = srv[t]]
    /\ Answer(t, "ok")
    /\ Posts(t)
    /\ UNCHANGED <<image, stream, source, srv, pulled, cleared, victims, conn>>

\* 201.
CreateMade(t) ==
    /\ at[t] = "create.post"
    /\ image[srv[t]]
    /\ Named(srv[t]) = {}
    /\ \E c \in Ids :
         /\ state[c] = "unused"
         /\ state' = [state EXCEPT ![c] = "created"]
         /\ server' = [server EXCEPT ![c] = srv[t]]
         /\ id' = [id EXCEPT ![t] = c]
    /\ Answer(t, "ok")
    /\ Posts(t)
    /\ UNCHANGED <<image, stream, source, srv, pulled, cleared, victims, conn>>

\* Mutant: `pulled` is never set, so a 404 is recovered from for ever.
CreatePullForgets(t) ==
    /\ at[t] = "create.pull"
    /\ image' = [image EXCEPT ![srv[t]] = TRUE]
    /\ Answer(t, "create.post")
    /\ UNCHANGED <<state, server, stream, source, id, srv, pulled, cleared,
                   victims, conn, posts>>

CreatePull(t) ==
    /\ at[t] = "create.pull"
    /\ image' = [image EXCEPT ![srv[t]] = TRUE]
    /\ pulled' = [pulled EXCEPT ![t] = TRUE]
    /\ Answer(t, "create.post")
    /\ UNCHANGED <<state, server, stream, source, id, srv, cleared, victims,
                   conn, posts>>

\* 204 or 404: gone either way.
CreateClear(t) ==
    /\ at[t] = "create.clear"
    /\ Halt(Named(srv[t]), "gone")
    /\ cleared' = [cleared EXCEPT ![t] = TRUE]
    /\ Answer(t, "create.post")
    /\ UNCHANGED <<id, srv, pulled, victims, conn, posts>>

-----------------------------------------------------------------------------
\* start, with free_conflicting_ports

PortHeld(c) ==
    \E d \in Ids \ {c} : state[d] = "running" /\ SamePort(c, d)

\* 204, or 304 when it runs already.
Started(t) ==
    /\ Live(id[t])
    /\ state[id[t]] = "running" \/ ~PortHeld(id[t])
    /\ state' = [state EXCEPT ![id[t]] = "running"]
    /\ Answer(t, "ok")
    /\ UNCHANGED <<server, image, stream, source, id, srv, pulled, cleared,
                   victims, conn, posts>>

StartPost(t) == at[t] = "start.post" /\ Started(t)

\* Mutant: the retry goes through start itself, and recovers again.
StartPortTakenAgain(t) ==
    /\ at[t] \in {"start.post", "start.retry"}
    /\ Live(id[t])
    /\ state[id[t]] # "running"
    /\ Goto(t, "start.ports")
    /\ UNCHANGED <<engineVars, id, srv, pulled, cleared, victims, conn, posts>>

\* 500, "port is already allocated": by a container or by another process.
StartPortTaken(t) ==
    /\ at[t] = "start.post"
    /\ Live(id[t])
    /\ state[id[t]] # "running"
    /\ Goto(t, "start.ports")
    /\ UNCHANGED <<engineVars, id, srv, pulled, cleared, victims, conn, posts>>

\* container_host_ports: the ports the target wants.
StartPorts(t) ==
    /\ at[t] = "start.ports"
    /\ Goto(t, IF Live(id[t]) THEN "start.list" ELSE "start.retry")
    /\ UNCHANGED <<engineVars, id, srv, pulled, cleared, victims, conn, posts>>

\* Mutant: whoever holds the port goes, the daemon's container or not.
RemovableIgnoringOwner(c, d) ==
    /\ Live(d)
    /\ d # c
    /\ SamePort(c, d)
    /\ server[d] = server[c] \/ state[d] # "running"

\* What free_conflicting_ports lets itself remove for the sake of container c.
Removable(c, d) ==
    /\ Live(d)
    /\ d # c
    /\ SamePort(c, d)
    /\ server[d] # NoServer
    /\ \/ Live(c) /\ server[d] = server[c]
       \/ state[d] # "running"

\* The list of containers, all of them at one moment.
StartList(t) ==
    /\ at[t] = "start.list"
    /\ victims' = [victims EXCEPT ![t] = {d \in Ids : Removable(id[t], d)}]
    /\ Goto(t, IF victims'[t] = {} THEN "start.retry" ELSE "start.free")
    /\ UNCHANGED <<engineVars, id, srv, pulled, cleared, conn, posts>>

\* remove_by_name of one of them, with force; errors are ignored.
StartFree(t) ==
    /\ at[t] = "start.free"
    /\ \E d \in victims[t] :
         /\ \/ Halt({d}, "gone")
            \/ UNCHANGED engineVars
         /\ victims' = [victims EXCEPT ![t] = @ \ {d}]
    /\ Goto(t, IF victims'[t] = {} THEN "start.retry" ELSE "start.free")
    /\ UNCHANGED <<id, srv, pulled, cleared, conn, posts>>

StartRetry(t) == at[t] = "start.retry" /\ Started(t)

-----------------------------------------------------------------------------
\* stop, kill, remove, attach, pull

\* 204, or 304 when it is not running.
Stop(t) ==
    /\ at[t] = "stop"
    /\ Live(id[t])
    /\ IF state[id[t]] = "running" THEN Halt({id[t]}, "exited")
                                   ELSE UNCHANGED engineVars
    /\ Answer(t, "ok")
    /\ UNCHANGED <<id, srv, pulled, cleared, victims, conn, posts>>

\* 204 only: killing a container that is not running is an error.
Kill(t) ==
    /\ at[t] = "kill"
    /\ Live(id[t])
    /\ state[id[t]] = "running"
    /\ Halt({id[t]}, "exited")
    /\ Answer(t, "ok")
    /\ UNCHANGED <<id, srv, pulled, cleared, victims, conn, posts>>

\* 204 only: removing a container that is gone is an error.
Remove(t) ==
    /\ at[t] = "remove"
    /\ Live(id[t])
    /\ Halt({id[t]}, "gone")
    /\ Answer(t, "ok")
    /\ UNCHANGED <<id, srv, pulled, cleared, victims, conn, posts>>

\* 101, and pump_output is spawned on the connection.
Attach(t) ==
    /\ at[t] = "attach"
    /\ Live(id[t])
    /\ \E a \in Streams :
         /\ stream[a] = "unused"
         /\ stream' = [stream EXCEPT ![a] = "open"]
         /\ source' = [source EXCEPT ![a] = id[t]]
         /\ conn' = [conn EXCEPT ![t] = a]
    /\ Goto(t, "ok")
    /\ UNCHANGED <<state, server, image, id, srv, pulled, cleared, victims, posts>>

\* pull: nothing to do when image_present says so; a failed inspect says no.
PullCheck(t) ==
    /\ at[t] = "pull.check"
    /\ \/ image[srv[t]] /\ Goto(t, "ok")
       \/ Goto(t, "pull")
    /\ UNCHANGED <<engineVars, id, srv, pulled, cleared, victims, conn, posts>>

Pull(t) ==
    /\ at[t] = "pull"
    /\ image' = [image EXCEPT ![srv[t]] = TRUE]
    /\ Answer(t, "ok")
    /\ UNCHANGED <<state, server, stream, source, id, srv, pulled, cleared,
                   victims, conn, posts>>

\* The containers of the panel's servers, stopped ones included.
list_managed == {c \in Ids : Live(c) /\ server[c] # NoServer}

\* A request fails, or is answered with a status the call does not expect.
\* While ports are being freed that is not an error: the retry decides.
Fails(t) ==
    /\ at[t] \notin {"idle", "ok", "err", "start.free", "pull.check"}
    /\ Goto(t, IF at[t] \in {"start.ports", "start.list"} THEN "start.retry" ELSE "err")
    /\ posts' = IF at[t] = "create.post" THEN [posts EXCEPT ![t] = @ + 1] ELSE posts
    /\ UNCHANGED <<engineVars, id, srv, pulled, cleared, victims, conn>>

Runtime(t) ==
    \/ CreateNoImage(t)
    \/ CreateNameTaken(t)
    \/ CreateMade(t)
    \/ CreatePull(t)
    \/ CreateClear(t)
    \/ StartPost(t)
    \/ StartPortTaken(t)
    \/ StartPorts(t)
    \/ StartList(t)
    \/ StartFree(t)
    \/ StartRetry(t)
    \/ Stop(t)
    \/ Kill(t)
    \/ Remove(t)
    \/ Attach(t)
    \/ PullCheck(t)
    \/ Pull(t)
    \/ Fails(t)

-----------------------------------------------------------------------------
\* The runtime on its own: tasks make calls for the panel's containers.

Call(t) ==
    /\ at[t] = "idle"
    /\ \/ \E s \in Servers, op \in {"create.post", "pull.check"} : CallFor(t, op, s)
       \/ \E c \in Ids, op \in {"start.post", "stop", "kill", "remove", "attach"} :
            /\ server[c] # NoServer
            /\ CallOn(t, op, c)

Return(t) ==
    /\ at[t] \in {"ok", "err"}
    /\ Forget(t)
    /\ UNCHANGED engineVars

DockerNext ==
    \/ \E t \in Tasks : Call(t) \/ Runtime(t) \/ Return(t)
    \/ Engine

DockerSpec == DockerInit /\ [][DockerNext]_dockerVars

\* The Engine answers every request, with success or failure.
DockerFairSpec == DockerSpec /\ \A t \in Tasks : WF_dockerVars(Runtime(t))

-----------------------------------------------------------------------------
\* Properties

\* A container that is not the panel's is never removed, whatever its ports,
\* however creates and starts interleave: create clears by the server's name
\* and free_conflicting_ports only touches containers server_id_from knows.
ForeignUntouched ==
    [][\A c \in Ids : (Live(c) /\ server[c] = NoServer) =>
            /\ Live(c)'
            /\ server'[c] = NoServer]_dockerVars

\* create_container recovers from a missing image and from a taken name at most
\* once each, so it posts at most three times, even when the image is pruned
\* and the name retaken in between.
RecoversOnce == \A t \in Tasks : posts[t] <= 3

\* Every runtime call returns: no recovery loops, whatever the Engine answers
\* and whatever other calls do meanwhile.
CallsReturn == \A t \in Tasks : at[t] # "idle" ~> at[t] \in {"ok", "err"}
=============================================================================
