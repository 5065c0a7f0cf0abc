------------------------------- MODULE Session -------------------------------
(***************************************************************************)
(* The connection to the panel: client::run, which dials, sleeps and dials *)
(* again, and Session::run, the select loop over one connection.           *)
(*                                                                         *)
(* events_rx belongs to client::run and outlives the connections; the ack  *)
(* channel belongs to one Session::run.  Every await of the loop's bodies  *)
(* (writing to the socket, collecting a heartbeat) is a state of its own:  *)
(* meanwhile the loop reads nothing and does not look at the token.        *)
(* Frames that change nothing (ping, pong, binary, ignored envelopes) are  *)
(* not steps; what a text frame is checked for is module Inbound.          *)
(***************************************************************************)
EXTENDS Naturals, Sequences

CONSTANTS
    Commands,       \* the commands the panel sends, one delivery each
    MIN_BACKOFF,    \* client.rs, MIN_BACKOFF
    MAX_BACKOFF,    \* client.rs, MAX_BACKOFF
    MaxEvents       \* bound: how many events the dispatcher emits

ASSUME BackoffAssumption ==
    /\ MIN_BACKOFF \in Nat \ {0}
    /\ MAX_BACKOFF \in Nat
    /\ MIN_BACKOFF <= MAX_BACKOFF

ASSUME SessionEventsAssumption == MaxEvents \in Nat

VARIABLES
    client,     \* where client::run is
    backoff,    \* its local `backoff`
    slept,      \* history: sleeps since the last successful dial, saturating
    cancelled,  \* the CancellationToken
    loop,       \* where Session::run is; "none" outside a session
    events,     \* the queue behind events_rx
    emitted,    \* how many events were emitted so far
    held,       \* the event taken from events_rx and being written, if any
    sent,       \* history: the events written to a socket, in order
    lost,       \* history: the events taken from the queue but not written
    task,       \* the task that executes each command
    acks,       \* the queue behind ack_rx of the current session
    heldAck     \* the ack taken from ack_rx and being written, if any

clientVars == <<client, backoff, slept, cancelled>>
eventVars == <<events, emitted, held, sent, lost>>
ackVars == <<task, acks, heldAck>>
vars == <<clientVars, loop, eventVars, ackVars>>

\* What the loop is awaiting: "select" the next branch, "collect" the
\* heartbeat's statistics, or else the write of the message named.
Writing == {"hello", "heartbeat", "event", "ack"}

\* A command's task: "none" before it arrives; "running"; "finished" with its
\* ack queued or being written; "acked"; "orphan" when it runs on although its
\* session has ended; "moot" when its ack can no longer be sent.
TaskState == {"none", "running", "finished", "acked", "orphan", "moot"}

\* `slept` counts far enough for the backoff to reach its cap.
SleptCap == MAX_BACKOFF

Min(a, b) == IF a <= b THEN a ELSE b

TypeOK ==
    /\ client \in {"dialing", "session", "sleeping", "stopped"}
    /\ backoff \in MIN_BACKOFF..MAX_BACKOFF
    /\ slept \in 0..SleptCap
    /\ cancelled \in BOOLEAN
    /\ loop \in {"none", "select", "collect"} \cup Writing
    /\ events \in Seq(Nat)
    /\ emitted \in 0..MaxEvents
    /\ held \in Seq(Nat)
    /\ sent \in Seq(Nat)
    /\ lost \in SUBSET Nat
    /\ task \in [Commands -> TaskState]
    /\ acks \in Seq(Commands)
    /\ heldAck \in Seq(Commands)

Init ==
    /\ client = "dialing"
    /\ backoff = MIN_BACKOFF
    /\ slept = 0
    /\ cancelled = FALSE
    /\ loop = "none"
    /\ events = <<>>
    /\ emitted = 0
    /\ held = <<>>
    /\ sent = <<>>
    /\ lost = {}
    /\ task = [c \in Commands |-> "none"]
    /\ acks = <<>>
    /\ heldAck = <<>>

-----------------------------------------------------------------------------
\* client::run

\* Mutant: a successful dial leaves the backoff where it was.
DialOkKeepsBackoff ==
    /\ client = "dialing"
    /\ client' = "session"
    /\ slept' = 0
    /\ loop' = "hello"
    /\ UNCHANGED <<backoff, cancelled, eventVars, ackVars>>

\* Mutant: the event channel is made anew for each connection.
DialOkFreshEvents ==
    /\ client = "dialing"
    /\ client' = "session"
    /\ backoff' = MIN_BACKOFF
    /\ slept' = 0
    /\ loop' = "hello"
    /\ events' = <<>>
    /\ UNCHANGED <<cancelled, emitted, held, sent, lost, ackVars>>

DialOk ==
    /\ client = "dialing"
    /\ client' = "session"
    /\ backoff' = MIN_BACKOFF
    /\ slept' = 0
    /\ loop' = "hello"
    /\ UNCHANGED <<cancelled, eventVars, ackVars>>

DialFail ==
    /\ client = "dialing"
    /\ client' = "sleeping"
    /\ UNCHANGED <<backoff, slept, cancelled, loop, eventVars, ackVars>>

\* Mutant: the delay doubles without a cap.
SleepEndsUncapped ==
    /\ client = "sleeping"
    /\ backoff' = backoff * 2
    /\ slept' = Min(slept + 1, SleptCap)
    /\ client' = IF cancelled THEN "stopped" ELSE "dialing"
    /\ UNCHANGED <<cancelled, loop, eventVars, ackVars>>

\* Mutant: the loop goes on without testing the token.
SleepEndsIgnoringToken ==
    /\ client = "sleeping"
    /\ backoff' = Min(backoff * 2, MAX_BACKOFF)
    /\ slept' = Min(slept + 1, SleptCap)
    /\ client' = "dialing"
    /\ UNCHANGED <<cancelled, loop, eventVars, ackVars>>

\* The sleep ends first; the loop condition is tested with the token.
SleepEnds ==
    /\ client = "sleeping"
    /\ backoff' = Min(backoff * 2, MAX_BACKOFF)
    /\ slept' = Min(slept + 1, SleptCap)
    /\ client' = IF cancelled THEN "stopped" ELSE "dialing"
    /\ UNCHANGED <<cancelled, loop, eventVars, ackVars>>

CancelSleep ==
    /\ client = "sleeping"
    /\ cancelled
    /\ client' = "stopped"
    /\ UNCHANGED <<backoff, slept, cancelled, loop, eventVars, ackVars>>

-----------------------------------------------------------------------------
\* Session::run

\* Mutant: the ack channel is kept for the next connection, as events_rx is.
LeaveKeepingAcks ==
    /\ client' = "sleeping"
    /\ loop' = "none"
    /\ heldAck' = <<>>
    /\ task' = [c \in Commands |->
                  CASE task[c] = "running" -> "orphan"
                    [] task[c] = "finished" -> "moot"
                    [] OTHER -> task[c]]
    /\ UNCHANGED <<backoff, slept, cancelled, acks>>

\* Session::run returns, with or without an error: the ack channel goes, the
\* tasks run on.
Leave ==
    /\ client' = "sleeping"
    /\ loop' = "none"
    /\ acks' = <<>>
    /\ heldAck' = <<>>
    /\ task' = [c \in Commands |->
                  CASE task[c] = "running" -> "orphan"
                    [] task[c] = "finished" -> "moot"
                    [] OTHER -> task[c]]
    /\ UNCHANGED <<backoff, slept, cancelled>>

CancelSession ==
    /\ loop = "select"
    /\ cancelled
    /\ Leave
    /\ UNCHANGED eventVars

\* The peer closes, the socket fails, or handle_incoming rejects a frame.
ReadEnds ==
    /\ loop = "select"
    /\ Leave
    /\ UNCHANGED eventVars

HeartbeatTick ==
    /\ loop = "select"
    /\ loop' = "collect"
    /\ UNCHANGED <<clientVars, eventVars, ackVars>>

HeartbeatCollected ==
    /\ loop = "collect"
    /\ loop' = "heartbeat"
    /\ UNCHANGED <<clientVars, eventVars, ackVars>>

\* Mutant: the event is only peeked at and removed when its write succeeds.
TakeEventByPeeking ==
    /\ loop = "select"
    /\ events # <<>>
    /\ held' = <<Head(events)>>
    /\ loop' = "event"
    /\ UNCHANGED <<clientVars, events, emitted, sent, lost, ackVars>>

TakeEvent ==
    /\ loop = "select"
    /\ events # <<>>
    /\ held' = <<Head(events)>>
    /\ events' = Tail(events)
    /\ loop' = "event"
    /\ UNCHANGED <<clientVars, emitted, sent, lost, ackVars>>

TakeAck ==
    /\ loop = "select"
    /\ acks # <<>>
    /\ heldAck' = <<Head(acks)>>
    /\ acks' = Tail(acks)
    /\ loop' = "ack"
    /\ UNCHANGED <<clientVars, eventVars, task>>

\* handle_incoming accepts a command and spawns its task.
ReadCommand(c) ==
    /\ loop = "select"
    /\ task[c] = "none"
    /\ task' = [task EXCEPT ![c] = "running"]
    /\ UNCHANGED <<clientVars, loop, eventVars, acks, heldAck>>

\* send_signed succeeds and the loop turns to its next select.
WriteOk ==
    /\ loop \in Writing
    /\ loop' = "select"
    /\ sent' = sent \o held
    /\ held' = <<>>
    /\ heldAck' = <<>>
    /\ task' = [c \in Commands |-> IF heldAck = <<c>> THEN "acked" ELSE task[c]]
    /\ UNCHANGED <<clientVars, events, emitted, lost, acks>>

\* Mutant: an event that could not be written goes back to the queue's end.
WriteFailRequeues ==
    /\ loop \in Writing
    /\ events' = events \o held
    /\ held' = <<>>
    /\ Leave
    /\ UNCHANGED <<emitted, sent, lost>>

\* send_signed fails: run returns the error, and what was being written is gone.
WriteFail ==
    /\ loop \in Writing
    /\ lost' = lost \cup {held[i] : i \in DOMAIN held}
    /\ held' = <<>>
    /\ Leave
    /\ UNCHANGED <<events, emitted, sent>>

-----------------------------------------------------------------------------
\* The tasks behind the session, and the operator.

\* Mutant: the task ends without sending its ack.
TaskEndsSilently(c) ==
    /\ client # "stopped"
    /\ \/ /\ task[c] = "running"
          /\ task' = [task EXCEPT ![c] = "finished"]
       \/ /\ task[c] = "orphan"
          /\ task' = [task EXCEPT ![c] = "moot"]
    /\ UNCHANGED <<clientVars, loop, eventVars, acks, heldAck>>

\* dispatcher.handle returns and the task sends its ack, which goes nowhere
\* when the receiver of its channel is gone.
TaskEnds(c) ==
    /\ client # "stopped"
    /\ \/ /\ task[c] = "running"
          /\ task' = [task EXCEPT ![c] = "finished"]
          /\ acks' = Append(acks, c)
       \/ /\ task[c] = "orphan"
          /\ task' = [task EXCEPT ![c] = "moot"]
          /\ UNCHANGED acks
    /\ UNCHANGED <<clientVars, loop, eventVars, heldAck>>

\* A handler or a console pump sends on events_tx.
Emit ==
    /\ client # "stopped"
    /\ emitted < MaxEvents
    /\ emitted' = emitted + 1
    /\ events' = Append(events, emitted + 1)
    /\ UNCHANGED <<clientVars, loop, held, sent, lost, ackVars>>

\* ctrl-c: main cancels the token.
Cancel ==
    /\ ~cancelled
    /\ cancelled' = TRUE
    /\ UNCHANGED <<client, backoff, slept, loop, eventVars, ackVars>>

Next ==
    \/ DialOk
    \/ DialFail
    \/ SleepEnds
    \/ CancelSleep
    \/ CancelSession
    \/ ReadEnds
    \/ HeartbeatTick
    \/ HeartbeatCollected
    \/ TakeEvent
    \/ TakeAck
    \/ \E c \in Commands : ReadCommand(c)
    \/ WriteOk
    \/ WriteFail
    \/ \E c \in Commands : TaskEnds(c)
    \/ Emit
    \/ Cancel

Spec == Init /\ [][Next]_vars

\* Dialling, sleeping, writing and collecting come to an end (the operating
\* system's connect and write time-outs, Docker answering), and the panel is
\* reachable every now and then: a dial, and the hello after it, that are tried
\* again and again succeed at some time.  tokio::select! picks at random among
\* the branches that are ready, so a branch that is ready again and again is
\* taken.
Fairness ==
    /\ SF_vars(DialOk)
    /\ SF_vars(loop = "hello" /\ WriteOk)
    /\ WF_vars(DialFail)
    /\ WF_vars(SleepEnds)
    /\ WF_vars(WriteOk \/ WriteFail)
    /\ WF_vars(HeartbeatCollected)
    /\ SF_vars(TakeEvent)
    /\ SF_vars(TakeAck)
    /\ SF_vars(CancelSession)
    /\ \A c \in Commands : WF_vars(TaskEnds(c))

FairSpec == Spec /\ Fairness

-----------------------------------------------------------------------------
\* Properties

\* Session implements EventStream: the promise about order, duplication and
\* loss of events, across any number of reconnects.
Stream == INSTANCE EventStream WITH
            pending <- held \o events,
            delivered <- sent,
            dropped <- lost,
            open <- client = "session"

StreamSpec == Stream!Spec

\* Every event emitted is in exactly one place: written, being written, queued
\* or lost; and what was written, is being written and is queued is in the
\* order of emission.  A reconnect neither repeats nor reorders events.
EventsConserved ==
    LET line == sent \o held \o events
    IN  /\ \A i, j \in DOMAIN line : i < j => line[i] < line[j]
        /\ {line[i] : i \in DOMAIN line} \cup lost = 1..emitted
        /\ \A i \in DOMAIN line : line[i] \notin lost

\* The delay before the next dial is MIN_BACKOFF doubled once per sleep since
\* the last successful dial, and capped: a connection that was up is redialled
\* after MIN_BACKOFF, and an unreachable panel is never polled faster again
\* before a dial succeeds.
BackoffLaw == backoff = Min(MIN_BACKOFF * 2^slept, MAX_BACKOFF)

\* An ack is queued or written only for a command that arrived on the
\* connection now open, and outside a session none is queued: the ack channel
\* is local to Session::run.
AcksBelongToSession ==
    /\ \A i \in DOMAIN acks : task[acks[i]] = "finished"
    /\ \A i \in DOMAIN heldAck : task[heldAck[i]] = "finished"
    /\ client # "session" => acks = <<>> /\ heldAck = <<>>

\* Cancelling the token stops the client, from wherever it is: no await in the
\* loop can be re-entered for ever without the token being looked at.
CancelStops == cancelled ~> client = "stopped"

\* An event that was emitted is written to some connection or is the one that
\* broke with its connection, unless the daemon is being stopped: reconnects
\* and other traffic cannot starve it.
EventsLeave ==
    \A e \in 1..MaxEvents :
        emitted >= e ~> \/ \E i \in DOMAIN sent : sent[i] = e
                        \/ e \in lost
                        \/ cancelled

\* A command is answered as long as its connection lasts: its task is acked,
\* or its session ends first and the ack is moot.
CommandsAnswered ==
    \A c \in Commands :
        task[c] = "running" ~> task[c] \in {"acked", "moot"} \/ client = "stopped"

\* What the comments on Session::run and client::run say: events queue up
\* across a dropped connection rather than getting lost.
NoEventLost == lost = {}
=============================================================================
