----------------------------- MODULE Dispatcher -----------------------------
(***************************************************************************)
(* The container commands of agent/dispatcher.rs on top of the runtime of  *)
(* module Docker: the maps `tracked` and `consoles`, the handlers that     *)
(* update them after the runtime calls they await, the console pumps, and  *)
(* the daemon's restart with `reconcile`.                                  *)
(*                                                                         *)
(* Session spawns a task per command and the tasks run on several threads, *)
(* so a step is what a handler does under one lock: `tracked` and          *)
(* `consoles` have a lock each.  A command whose early checks fail (no     *)
(* known container) changes nothing and is not a step.                     *)
(***************************************************************************)
EXTENDS Docker

CONSTANT
    OneAtATime  \* whether the panel waits for a server's last command to be acked

ASSUME OneAtATimeAssumption == OneAtATime \in BOOLEAN

VARIABLES
    booting,    \* between the start of the process and the end of reconcile
    action,     \* the command each task handles, and how far it is
    sid,        \* its server_id
    tracked,    \* Dispatcher.tracked
    consoles,   \* Dispatcher.consoles: the attach connection it holds
    pump,       \* the server each connection's pump task forwards lines for
    last,       \* history: the last state_changed event of each server
    started     \* history: the containers a Start of this process succeeded on

dispatcherVars == <<booting, action, sid, tracked, consoles, pump, last, started>>
vars == <<dockerVars, dispatcherVars>>

Action == {"Create", "PullImage", "Start", "Stop", "Kill", "Remove"}

\* After the runtime call, with one of two locks taken and released.
HalfDone == {"StartTracked", "RemoveUntracked"}

TypeOK ==
    /\ DockerTypeOK
    /\ booting \in BOOLEAN
    /\ action \in [Tasks -> Action \cup HalfDone \cup {"None"}]
    /\ sid \in [Tasks -> Servers \cup {NoServer}]
    /\ tracked \in [Servers -> Ids \cup {NoId}]
    /\ consoles \in [Servers -> Streams \cup {NoStream}]
    /\ pump \in [Streams -> Servers \cup {NoServer}]
    /\ last \in [Servers -> {"none", "running", "offline"}]
    /\ started \in SUBSET Ids

\* A process that has just started, and the containers earlier ones left.
Init ==
    /\ DockerInit
    /\ booting = TRUE
    /\ action = [t \in Tasks |-> "None"]
    /\ sid = [t \in Tasks |-> NoServer]
    /\ tracked = [s \in Servers |-> NoId]
    /\ consoles = [s \in Servers |-> NoStream]
    /\ pump = [a \in Streams |-> NoServer]
    /\ last = [s \in Servers |-> "none"]
    /\ started = {}

-----------------------------------------------------------------------------
\* Handlers

track(s, c) == tracked' = [tracked EXCEPT ![s] = c]

untrack(s) == tracked' = [tracked EXCEPT ![s] = NoId]

emit_state_changed(s, e) == last' = [last EXCEPT ![s] = e]

container_for(s, c) == IF c # NoId THEN c ELSE tracked[s]

UnderWay(s) == {t \in Tasks : at[t] # "idle" /\ sid[t] = s}

\* A command arrives, its task runs up to the first await.
Receive(t, s) ==
    /\ ~booting
    /\ at[t] = "idle"
    /\ OneAtATime => UnderWay(s) = {}
    /\ \E a \in Action :
         /\ action' = [action EXCEPT ![t] = a]
         /\ \/ a = "Create" /\ CallFor(t, "create.post", s)
            \/ a = "PullImage" /\ CallFor(t, "pull.check", s)
            \/ \E given \in {NoId} \cup {c \in Ids : server[c] = s} :
                 /\ container_for(s, given) # NoId
                 /\ \/ a = "Start" /\ CallOn(t, "start.post", container_for(s, given))
                    \/ a = "Stop" /\ CallOn(t, "stop", container_for(s, given))
                    \/ a = "Kill" /\ CallOn(t, "kill", container_for(s, given))
                    \/ a = "Remove" /\ CallOn(t, "remove", container_for(s, given))
    /\ sid' = [sid EXCEPT ![t] = s]
    /\ UNCHANGED <<booting, tracked, consoles, pump, last, started>>

\* The runtime call of a task under way.
Await(t) == Runtime(t) /\ UNCHANGED dispatcherVars

\* The handler returns; the ack is the session's business.
Done(t) ==
    /\ Forget(t)
    /\ action' = [action EXCEPT ![t] = "None"]
    /\ sid' = [sid EXCEPT ![t] = NoServer]
    /\ UNCHANGED engineVars

\* `?` on the runtime's error, or start_console_stream's swallowed one.
Failed(t) ==
    /\ at[t] = "err"
    /\ Done(t)
    /\ UNCHANGED <<booting, tracked, consoles, pump, last, started>>

\* Mutant: the new container is not tracked.
CreatedUntracked(t) ==
    /\ at[t] = "ok"
    /\ action[t] = "Create"
    /\ Done(t)
    /\ UNCHANGED <<booting, tracked, consoles, pump, last, started>>

Created(t) ==
    /\ at[t] = "ok"
    /\ action[t] = "Create"
    /\ track(sid[t], id[t])
    /\ Done(t)
    /\ UNCHANGED <<booting, consoles, pump, last, started>>

Pulled(t) ==
    /\ at[t] = "ok"
    /\ action[t] = "PullImage"
    /\ Done(t)
    /\ UNCHANGED <<booting, tracked, consoles, pump, last, started>>

\* Mutant: a container reached by its id is not tracked.
StartReturnedUntracked(t) ==
    /\ at[t] = "ok"
    /\ action[t] = "Start"
    /\ action' = [action EXCEPT ![t] = "StartTracked"]
    /\ UNCHANGED <<dockerVars, booting, sid, tracked, consoles, pump, last, started>>

\* rt.start has returned.
StartReturned(t) ==
    /\ at[t] = "ok"
    /\ action[t] = "Start"
    /\ track(sid[t], id[t])
    /\ action' = [action EXCEPT ![t] = "StartTracked"]
    /\ UNCHANGED <<dockerVars, booting, sid, consoles, pump, last, started>>

\* The event, and start_console_stream up to rt.attach.
ConsoleChecked(t) ==
    /\ at[t] = "ok"
    /\ action[t] = "StartTracked"
    /\ conn[t] = NoStream
    /\ emit_state_changed(sid[t], "running")
    /\ started' = started \cup {id[t]}
    /\ IF consoles[sid[t]] # NoStream
       THEN Done(t)
       ELSE CallOn(t, "attach", id[t]) /\ UNCHANGED <<action, sid>>
    /\ UNCHANGED <<booting, tracked, consoles, pump>>

\* From rt.attach to the end: the console is entered and its pump spawned.
Attached(t) ==
    /\ at[t] = "ok"
    /\ action[t] = "StartTracked"
    /\ conn[t] # NoStream
    /\ consoles' = [consoles EXCEPT ![sid[t]] = conn[t]]
    /\ pump' = [pump EXCEPT ![conn[t]] = sid[t]]
    /\ Done(t)
    /\ UNCHANGED <<booting, tracked, last, started>>

\* Mutant: "offline" is reported for a Stop that failed, too.
StoppedRegardless(t) ==
    /\ at[t] \in {"ok", "err"}
    /\ action[t] \in {"Stop", "Kill"}
    /\ emit_state_changed(sid[t], "offline")
    /\ Done(t)
    /\ UNCHANGED <<booting, tracked, consoles, pump, started>>

Stopped(t) ==
    /\ at[t] = "ok"
    /\ action[t] \in {"Stop", "Kill"}
    /\ emit_state_changed(sid[t], "offline")
    /\ Done(t)
    /\ UNCHANGED <<booting, tracked, consoles, pump, started>>

\* rt.remove has returned.
Removed(t) ==
    /\ at[t] = "ok"
    /\ action[t] = "Remove"
    /\ untrack(sid[t])
    /\ action' = [action EXCEPT ![t] = "RemoveUntracked"]
    /\ UNCHANGED <<dockerVars, booting, sid, consoles, pump, last, started>>

ConsoleRemoved(t) ==
    /\ at[t] = "ok"
    /\ action[t] = "RemoveUntracked"
    /\ consoles' = [consoles EXCEPT ![sid[t]] = NoStream]
    /\ Done(t)
    /\ UNCHANGED <<booting, tracked, pump, last, started>>

Handler(t) ==
    \/ Failed(t)
    \/ Created(t)
    \/ Pulled(t)
    \/ StartReturned(t)
    \/ ConsoleChecked(t)
    \/ Attached(t)
    \/ Stopped(t)
    \/ Removed(t)
    \/ ConsoleRemoved(t)

-----------------------------------------------------------------------------
\* Pumps, restarts

\* Mutant: the pump leaves its console behind.
PumpEndsLeavingConsole(a) ==
    /\ stream[a] = "eof"
    /\ pump[a] # NoServer
    /\ pump' = [pump EXCEPT ![a] = NoServer]
    /\ stream' = [stream EXCEPT ![a] = "done"]
    /\ UNCHANGED <<state, server, image, source, callVars>>
    /\ UNCHANGED <<booting, action, sid, tracked, consoles, last, started>>

\* The pump has forwarded the last line: it drops the server's console.
PumpEnds(a) ==
    /\ stream[a] = "eof"
    /\ pump[a] # NoServer
    /\ consoles' = [consoles EXCEPT ![pump[a]] = NoStream]
    /\ pump' = [pump EXCEPT ![a] = NoServer]
    /\ stream' = [stream EXCEPT ![a] = "done"]
    /\ UNCHANGED <<state, server, image, source, callVars>>
    /\ UNCHANGED <<booting, action, sid, tracked, last, started>>

\* The process dies, at any point, and is started again: what it had in memory
\* and its connections are gone, the containers stay.
Restart ==
    /\ booting' = TRUE
    /\ stream' = [a \in Streams |-> IF stream[a] = "unused" THEN "unused" ELSE "done"]
    /\ at' = [t \in Tasks |-> "idle"]
    /\ id' = [t \in Tasks |-> NoId]
    /\ srv' = [t \in Tasks |-> NoServer]
    /\ pulled' = [t \in Tasks |-> FALSE]
    /\ cleared' = [t \in Tasks |-> FALSE]
    /\ victims' = [t \in Tasks |-> {}]
    /\ conn' = [t \in Tasks |-> NoStream]
    /\ posts' = [t \in Tasks |-> 0]
    /\ action' = [t \in Tasks |-> "None"]
    /\ sid' = [t \in Tasks |-> NoServer]
    /\ tracked' = [s \in Servers |-> NoId]
    /\ consoles' = [s \in Servers |-> NoStream]
    /\ pump' = [a \in Streams |-> NoServer]
    /\ last' = [s \in Servers |-> "none"]
    /\ started' = {}
    /\ UNCHANGED <<state, server, image, source>>

\* Before client::run: tracked from list_managed, or left empty if that fails.
reconcile ==
    /\ booting
    /\ booting' = FALSE
    /\ \/ /\ tracked' \in [Servers -> Ids \cup {NoId}]
          /\ \A s \in Servers :
               LET found == {c \in list_managed : server[c] = s}
               IN  IF tracked[s] # NoId \/ found = {} THEN tracked'[s] = tracked[s]
                                                      ELSE tracked'[s] \in found
       \/ tracked' = tracked
    /\ UNCHANGED <<dockerVars, action, sid, consoles, pump, last, started>>

Next ==
    \/ \E t \in Tasks, s \in Servers : Receive(t, s)
    \/ \E t \in Tasks : Await(t) \/ Handler(t)
    \/ \E a \in Streams : PumpEnds(a)
    \/ Engine /\ UNCHANGED dispatcherVars
    \/ Restart
    \/ reconcile

Spec == Init /\ [][Next]_vars

-----------------------------------------------------------------------------
\* Properties

\* A console entry is never left behind by a pump that has ended: as long as
\* `consoles` has an entry, which makes `start` skip the attach and lets
\* console_input write, the pump of that very connection is still there to
\* take it out.  However Start, Remove, pumps and restarts interleave.
NoDeadConsole ==
    \A s \in Servers : consoles[s] # NoStream =>
        /\ pump[consoles[s]] = s
        /\ stream[consoles[s]] \in {"open", "eof"}

AtRest(s) == ~booting /\ UnderWay(s) = {}

\* With one command at a time per server, and no answer of the Engine lost, a
\* container of the server that exists is the tracked one, whatever failed
\* half way: commands without a container_id reach it.
TrackedIsCurrent ==
    \A s \in Servers : (AtRest(s) /\ tracked[s] # NoId) => Named(s) \subseteq {tracked[s]}

\* A container that Start reported running, and that runs, is tracked, so
\* heartbeats report it: the comment in the Start handler.
StartedIsTracked ==
    \A s \in Servers : AtRest(s) =>
        \A c \in started : (server[c] = s /\ state[c] = "running") => tracked[s] = c

\* Under the same conditions, when the last state event of a server said
\* "offline", none of its containers is running.
OfflineMeansStopped ==
    \A s \in Servers : (AtRest(s) /\ last[s] = "offline") =>
        \A c \in Named(s) : state[c] # "running"

\* What the comment on `consoles` says: an entry prevents a second attach, so a
\* server has one live attached console.  No container is pumped twice.
AttachedOnce ==
    \A a, b \in Streams :
        (/\ pump[a] # NoServer /\ stream[a] = "open"
         /\ pump[b] = pump[a] /\ stream[b] = "open"
         /\ source[a] = source[b] /\ state[source[a]] = "running") => a = b
=============================================================================
