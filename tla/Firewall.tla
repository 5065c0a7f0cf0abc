------------------------------ MODULE Firewall ------------------------------
(* daemon/src/runtime/firewall.rs: the end of DockerRuntime::create opens the *)
(* container's published ports in ufw, one command per port with a time-out,  *)
(* while other creates do the same.                                           *)
(*                                                                            *)
(* A host port is the number its string parses to, or -1 if it does not parse *)
(* as u16.  A command that timed out is abandoned, not killed: ufw may still  *)
(* do what it was asked.                                                      *)
EXTENDS Integers, Sequences, Functions

CONSTANTS
    Bindings,       \* the host ports of the specs that creates come with
    Creates         \* tasks that create a container

ASSUME BindingsAssumption == Bindings \subseteq Seq(Int)

VARIABLES
    mode,       \* FirewallMode
    installed,  \* whether ufw_bin finds ufw
    ufw,        \* ports ufw allows
    late,       \* ports of abandoned commands that have still to run
    WARNED,
    hints,      \* how many warnings were logged
    create      \* each task: where it is, its bindings, the ports it has still
                \* to open, the ones it reported as opened and as not opened

firewallVars == <<mode, installed, ufw, late, WARNED, hints, create>>

Push(out, p) == IF p > 0 /\ p \notin Range(out) THEN Append(out, p) ELSE out

\* Mutant: a port that both protocols publish is opened for each.
ports_from_bindingsTwice(bindings) == SelectSeq(bindings, LAMBDA p : p > 0)

ports_from_bindings(bindings) ==
    LET out[n \in 0..Len(bindings)] ==
            IF n = 0 THEN <<>> ELSE Push(out[n - 1], bindings[n])
    IN  out[Len(bindings)]

FirewallInit ==
    /\ mode \in {"Off", "Auto", "Sudo"}
    /\ installed \in BOOLEAN
    /\ ufw = {} /\ late = {} /\ WARNED = FALSE /\ hints = 0
    /\ create \in [Creates -> [at : {"create"}, bindings : Bindings, ports : {<<>>},
                               opened : {<<>>}, unopened : {<<>>}]]

\* Mutant: the flag is tested but never set.
warn_onceUnset(warns) ==
    /\ hints' = hints + (IF warns /\ ~WARNED THEN 1 ELSE 0)
    /\ UNCHANGED WARNED

\* One atomic swap: only the first warning is logged as one.
warn_once(warns) ==
    /\ hints' = hints + (IF warns /\ ~WARNED THEN 1 ELSE 0)
    /\ WARNED' = (WARNED \/ warns)

\* open_ports up to its loop.
open_ports(t) ==
    LET ports == ports_from_bindings(create[t].bindings)
        off == mode = "Off" \/ ports = <<>>
    IN
    /\ create[t].at = "create"
    /\ create' = [create EXCEPT ![t].at = IF off \/ ~installed THEN "done" ELSE "open",
                                ![t].ports = ports,
                                ![t].unopened = IF off \/ installed THEN <<>> ELSE ports]
    /\ warn_once(~off /\ ~installed)
    /\ UNCHANGED <<mode, installed, ufw, late>>

\* The loop's next port has been dealt with; after the last one create returns.
NextPort(t, opened) ==
    LET c == create[t]
        tried == Head(c.ports)
    IN  create' = [create EXCEPT
            ![t].at = IF Len(c.ports) = 1 THEN "done" ELSE "open",
            ![t].ports = Tail(@),
            ![t].opened = IF opened THEN Append(@, tried) ELSE @,
            ![t].unopened = IF opened THEN @ ELSE Append(@, tried)]

\* run: ufw exits with success.
Allowed(t) ==
    /\ create[t].at = "open"
    /\ ufw' = ufw \cup {Head(create[t].ports)}
    /\ NextPort(t, TRUE)
    /\ warn_once(FALSE)
    /\ UNCHANGED <<mode, installed, late>>

\* run: ufw exits with an error, or cannot be run.
Refused(t) ==
    /\ create[t].at = "open"
    /\ NextPort(t, FALSE)
    /\ warn_once(TRUE)
    /\ UNCHANGED <<mode, installed, ufw, late>>

\* Mutant: a command that timed out is taken for one that succeeded.
TimedOutOk(t) ==
    /\ create[t].at = "open"
    /\ late' = late \cup {Head(create[t].ports)}
    /\ NextPort(t, TRUE)
    /\ warn_once(FALSE)
    /\ UNCHANGED <<mode, installed, ufw>>

\* run: UFW_TIMEOUT expires.
TimedOut(t) ==
    /\ create[t].at = "open"
    /\ late' = late \cup {Head(create[t].ports)}
    /\ NextPort(t, FALSE)
    /\ warn_once(TRUE)
    /\ UNCHANGED <<mode, installed, ufw>>

\* An abandoned command ends, with or without effect.
AbandonedEnds(p) ==
    /\ p \in late
    /\ late' = late \ {p}
    /\ ufw' \in {ufw, ufw \cup {p}}
    /\ UNCHANGED <<mode, installed, WARNED, hints, create>>

FirewallNext ==
    \/ \E t \in Creates : open_ports(t) \/ Allowed(t) \/ Refused(t) \/ TimedOut(t)
    \/ \E p \in late : AbandonedEnds(p)

FirewallSpec == FirewallInit /\ [][FirewallNext]_firewallVars

-----------------------------------------------------------------------------
\* Properties

\* "We never pretend it worked": every port reported as opened is open in ufw,
\* and in mode Off nothing is ever opened, by any number of creates at once.
OpenedIsOpen ==
    /\ \A t \in Creates : Range(create[t].opened) \subseteq ufw
    /\ mode = "Off" => ufw = {}

Usable(bindings) == {p \in Range(bindings) : p > 0}

\* A create that got through has tried each of the distinct usable ports of its
\* bindings exactly once, the failures of earlier ones and of other creates
\* notwithstanding.
EveryPortTried ==
    \A t \in Creates :
        LET c == create[t]
            tried == c.opened \o c.unopened
        IN  (c.at = "done" /\ mode # "Off") =>
                /\ Range(tried) = Usable(c.bindings)
                /\ IsInjective(tried)

\* The hint is logged at most once per process, and at least once if some port
\* was not opened.
HintedOnce ==
    hints = IF \E t \in Creates : create[t].unopened # <<>> THEN 1 ELSE 0
=============================================================================
