----------------------------- MODULE EventStream -----------------------------
(***************************************************************************)
(* What the daemon promises the panel about its events (console lines,     *)
(* state changes): they leave in the order in which they were emitted,     *)
(* none leaves twice, none overtakes another, and a connection that breaks *)
(* takes at most the one event with it that was being written.  While no   *)
(* connection is open, events wait.  Session implements this module.       *)
(***************************************************************************)
EXTENDS Naturals, Sequences

CONSTANT MaxEvents      \* bound: how many events are emitted

VARIABLES
    emitted,    \* how many events were emitted; they are numbered from 1
    pending,    \* the events still to be sent, oldest first
    delivered,  \* the events handed to a connection, in order
    dropped,    \* the events that broke with their connection
    open        \* whether a connection is open

streamVars == <<emitted, pending, delivered, dropped, open>>

Init ==
    /\ emitted = 0
    /\ pending = <<>>
    /\ delivered = <<>>
    /\ dropped = {}
    /\ open = FALSE

Emit ==
    /\ emitted < MaxEvents
    /\ emitted' = emitted + 1
    /\ pending' = Append(pending, emitted + 1)
    /\ UNCHANGED <<delivered, dropped, open>>

Open ==
    /\ ~open
    /\ open' = TRUE
    /\ UNCHANGED <<emitted, pending, delivered, dropped>>

Close ==
    /\ open
    /\ open' = FALSE
    /\ UNCHANGED <<emitted, pending, delivered, dropped>>

Deliver ==
    /\ open
    /\ pending # <<>>
    /\ delivered' = Append(delivered, Head(pending))
    /\ pending' = Tail(pending)
    /\ UNCHANGED <<emitted, dropped, open>>

\* The connection breaks while the oldest event is being written.
Break ==
    /\ open
    /\ pending # <<>>
    /\ dropped' = dropped \cup {Head(pending)}
    /\ pending' = Tail(pending)
    /\ open' = FALSE
    /\ UNCHANGED <<emitted, delivered>>

Next == Emit \/ Open \/ Close \/ Deliver \/ Break

Spec == Init /\ [][Next]_streamVars
=============================================================================
