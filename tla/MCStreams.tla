------------------------------ MODULE MCStreams ------------------------------
(* Wire, LogTail, Console and Firewall for TLC.  They share no state: each    *)
(* behaviour is one of them, and the others stay as they are.                 *)
EXTENDS Wire, LogTail, Console, Firewall, TLC

VARIABLE part

vars == <<part, wireVars, tailVars, consoleVars, firewallVars>>

UpTo(S, n) == UNION {[1..k -> S] : k \in 0..n}

x == 120
MCPayloads == {<<>>, <<x>>, <<x, LF>>, <<CR, LF>>, <<LF, x>>, <<x, CR>>, <<x, LF, LF>>}
MCFrames == UpTo([type : {0, 1, 2}, payload : MCPayloads], 2)
MCChunks == UpTo({<<101>>, <<111>>, <<LF, x>>, <<LF, 101, 111>>, <<CR, LF>>}, 3)
MCScripts ==
    [kind : {"attach"}, status : {101, 404}, chunks : {<<>>}, frames : MCFrames]
    \cup [kind : {"pull"}, status : {200, 500}, chunks : MCChunks, frames : {<<>>}]

MCWrites == {<<x>>, <<LF>>, <<x, CR>>, <<CR, LF, x>>}
MCBindings == {<<>>, <<1, 1>>, <<0, 1, 2>>, <<2, -1, 2, 1>>}

Init ==
    /\ part \in {"wire", "tail", "console", "firewall"}
    /\ WireInit /\ (part = "wire" \/ script = CHOOSE s \in Scripts : TRUE)
    /\ TailInit /\ (part = "tail" \/ file = <<>>)
    /\ ConsoleInit
    /\ FirewallInit
    /\ part = "firewall" \/ (mode = "Off" /\ installed /\ \A t \in Creates : create[t].bindings = <<>>)

Next ==
    /\ UNCHANGED part
    /\ \/ part = "wire" /\ WireNext /\ UNCHANGED <<tailVars, consoleVars, firewallVars>>
       \/ part = "tail" /\ TailNext /\ UNCHANGED <<wireVars, consoleVars, firewallVars>>
       \/ part = "console" /\ ConsoleNext /\ UNCHANGED <<wireVars, tailVars, firewallVars>>
       \/ part = "firewall" /\ FirewallNext /\ UNCHANGED <<wireVars, tailVars, consoleVars>>

Spec ==
    /\ Init /\ [][Next]_vars
    /\ part = "tail" => TailFairness
    /\ part = "console" => ConsoleFairness
=============================================================================
