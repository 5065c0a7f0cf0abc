------------------------------- MODULE Console -------------------------------
(* Console input (Action::ConsoleInput, daemon/src/agent/dispatcher.rs): tasks *)
(* take the server's console from the map, lock its stdin, and write a line    *)
(* and its newline, while consoles are attached, end and are replaced.         *)
EXTENDS Naturals, Sequences

CONSTANTS
    Inputs,         \* console_input commands, one task each
    Attaches,       \* the connections of successive attaches, 1..n
    NoConsole

ASSUME ConsoleAssumption == NoConsole \notin Attaches \cup Inputs

VARIABLES
    consoles,   \* the console the map holds for the server
    opened,     \* how many attaches there were
    broken,     \* connections on which a write failed or that were closed
    stdin,      \* what has been written to each connection
    holder,     \* the task holding the lock of each connection's stdin
    input       \* each task: where it is, and the console it took

consoleVars == <<consoles, opened, broken, stdin, holder, input>>

ConsoleInit ==
    /\ consoles = NoConsole /\ opened = 0 /\ broken = {}
    /\ stdin = [c \in Attaches |-> <<>>]
    /\ holder = [c \in Attaches |-> NoConsole]
    /\ input = [i \in Inputs |-> [at |-> "new", console |-> NoConsole]]

\* A start attaches and puts the console in the map, over the one of another
\* start if the two came at once.
Attached ==
    /\ opened + 1 \in Attaches
    /\ opened' = opened + 1 /\ consoles' = opened + 1
    /\ UNCHANGED <<broken, stdin, holder, input>>

\* The connection closes and its pump drops the entry; or the entry is dropped
\* by a remove, or by the late pump of an older connection.
Detached ==
    /\ consoles # NoConsole
    /\ consoles' = NoConsole
    /\ broken' \in {broken, broken \cup {consoles}}
    /\ UNCHANGED <<opened, stdin, holder, input>>

\* The console is cloned out of the map; without one the command fails.
TakeConsole(i) ==
    /\ input[i].at = "new" /\ consoles # NoConsole
    /\ input' = [input EXCEPT ![i] = [at |-> "lock", console |-> consoles]]
    /\ UNCHANGED <<consoles, opened, broken, stdin, holder>>

\* Mutant: the lock is not waited for.
LockStdinShared(i) ==
    /\ input[i].at = "lock"
    /\ holder' = [holder EXCEPT ![input[i].console] = i]
    /\ input' = [input EXCEPT ![i].at = "text"]
    /\ UNCHANGED <<consoles, opened, broken, stdin>>

LockStdin(i) ==
    /\ input[i].at = "lock" /\ holder[input[i].console] = NoConsole
    /\ holder' = [holder EXCEPT ![input[i].console] = i]
    /\ input' = [input EXCEPT ![i].at = "text"]
    /\ UNCHANGED <<consoles, opened, broken, stdin>>

\* Mutant: the lock is kept when a write fails.
WriteInputLeaking(i, at, what, next) ==
    LET c == input[i].console IN
    /\ input[i].at = at
    /\ \/ /\ c \notin broken
          /\ stdin' = [stdin EXCEPT ![c] = Append(@, <<what, i>>)]
          /\ input' = [input EXCEPT ![i].at = next]
          /\ holder' = [holder EXCEPT ![c] = IF next = "ok" THEN NoConsole ELSE @]
          /\ UNCHANGED broken
       \/ /\ broken' = broken \cup {c}
          /\ input' = [input EXCEPT ![i].at = "err"]
          /\ UNCHANGED <<stdin, holder>>
    /\ UNCHANGED <<consoles, opened>>

\* write_all of the input, then of the newline; the lock is released at the end
\* or with the error.  A connection that broke stays broken.
WriteInput(i, at, what, next) ==
    LET c == input[i].console IN
    /\ input[i].at = at
    /\ \/ /\ c \notin broken
          /\ stdin' = [stdin EXCEPT ![c] = Append(@, <<what, i>>)]
          /\ input' = [input EXCEPT ![i].at = next]
          /\ holder' = [holder EXCEPT ![c] = IF next = "ok" THEN NoConsole ELSE @]
          /\ UNCHANGED broken
       \/ /\ broken' = broken \cup {c}
          /\ input' = [input EXCEPT ![i].at = "err"]
          /\ holder' = [holder EXCEPT ![c] = NoConsole]
          /\ UNCHANGED stdin
    /\ UNCHANGED <<consoles, opened>>

WriteText(i) == WriteInput(i, "text", "text", "newline")
WriteNewline(i) == WriteInput(i, "newline", "newline", "ok")

InputStep(i) == TakeConsole(i) \/ LockStdin(i) \/ WriteText(i) \/ WriteNewline(i)

ConsoleNext == Attached \/ Detached \/ \E i \in Inputs : InputStep(i)

ConsoleSpec == ConsoleInit /\ [][ConsoleNext]_consoleVars

\* Writes to the connection complete or fail, and tokio's mutex is fair.
ConsoleFairness ==
    \A i \in Inputs : SF_consoleVars(LockStdin(i)) /\ WF_consoleVars(WriteText(i) \/ WriteNewline(i))

-----------------------------------------------------------------------------
\* Properties

\* What the container reads is whole lines: the text of one command is followed
\* by its own newline before anything else is written to that connection.
LinesAreWhole ==
    \A c \in Attaches :
        LET s == stdin[c] IN
        \A k \in DOMAIN s :
            /\ s[k][1] = "text" /\ k < Len(s) => s[k + 1] = <<"newline", s[k][2]>>
            /\ s[k][1] = "newline" => k > 1 /\ s[k - 1] = <<"text", s[k][2]>>

\* A command that has taken a console is answered: the lock is handed on even
\* when a write fails or the console is dropped from the map meanwhile.
InputsAreAnswered == \A i \in Inputs : input[i].at = "lock" ~> input[i].at \in {"ok", "err"}
=============================================================================
