---------------------------- MODULE SessionProofs ----------------------------
(***************************************************************************)
(* Proofs about Session, for every set of commands, every backoff range    *)
(* and every number of events.                                             *)
(***************************************************************************)
EXTENDS Session, SequenceTheorems, FiniteSetTheorems, TLAPS

\* Where the loop is and what it holds agree with where the client is.
LoopMatchesClient ==
    /\ loop = "none" <=> client # "session"
    /\ IF loop = "event" THEN \E e \in Nat : held = <<e>> ELSE held = <<>>
    /\ IF loop = "ack" THEN \E c \in Commands : heldAck = <<c>> ELSE heldAck = <<>>
    /\ \A c \in Commands : task[c] = "running" => client = "session"

\* Type correctness of the connection's state; in particular the backoff never
\* leaves MIN_BACKOFF..MAX_BACKOFF.
THEOREM TypeCorrect == Spec => []TypeOK
<1> USE BackoffAssumption, SessionEventsAssumption
<1>1. Init => TypeOK
  <2> SUFFICES ASSUME Init PROVE TypeOK
    OBVIOUS
  <2>1. task \in [Commands -> TaskState]
    BY DEF Init, TaskState
  <2>2. backoff \in MIN_BACKOFF..MAX_BACKOFF /\ slept \in 0..SleptCap
    BY DEF Init, SleptCap
  <2>3. /\ client \in {"dialing", "session", "sleeping", "stopped"}
        /\ loop \in {"none", "select", "collect"} \cup Writing
        /\ cancelled \in BOOLEAN
    BY Zenon DEF Init
  <2>6. emitted \in 0..MaxEvents /\ lost \in SUBSET Nat
    BY DEF Init
  <2>4. events \in Seq(Nat) /\ held \in Seq(Nat) /\ sent \in Seq(Nat)
    BY DEF Init
  <2>5. acks \in Seq(Commands) /\ heldAck \in Seq(Commands)
    BY DEF Init
  <2> QED
    BY <2>1, <2>2, <2>3, <2>4, <2>5, <2>6 DEF TypeOK
<1>2. TypeOK /\ [Next]_vars => TypeOK'
  <2> SUFFICES ASSUME TypeOK, [Next]_vars PROVE TypeOK'
    OBVIOUS
  <2> USE DEF TypeOK, Writing, clientVars, eventVars, ackVars
  <2>1. CASE DialOk
    BY <2>1 DEF DialOk, SleptCap
  <2>2. CASE DialFail
    BY <2>2 DEF DialFail
  <2>3. CASE SleepEnds
    <3>1. backoff' \in MIN_BACKOFF..MAX_BACKOFF /\ slept' \in 0..SleptCap
      BY <2>3 DEF SleepEnds, Min, SleptCap
    <3> QED
      BY ZenonT(30), <2>3, <3>1 DEF SleepEnds
  <2>4. CASE CancelSleep
    BY <2>4 DEF CancelSleep
  <2>5. ASSUME Leave PROVE /\ client' = "sleeping" /\ loop' = "none"
                           /\ task' \in [Commands -> TaskState]
                           /\ acks' = <<>> /\ heldAck' = <<>>
                           /\ UNCHANGED <<backoff, slept, cancelled>>
    BY <2>5 DEF Leave, TaskState
  <2>6. CASE CancelSession
    BY <2>5, <2>6 DEF CancelSession
  <2>7. CASE ReadEnds
    BY <2>5, <2>7 DEF ReadEnds
  <2>8. CASE HeartbeatTick
    BY <2>8 DEF HeartbeatTick
  <2>9. CASE HeartbeatCollected
    BY <2>9 DEF HeartbeatCollected
  <2>10. CASE TakeEvent
    BY SMTT(30), <2>10 DEF TakeEvent
  <2>11. CASE TakeAck
    BY <2>11 DEF TakeAck
  <2>12. ASSUME NEW c \in Commands, ReadCommand(c) PROVE TypeOK'
    BY <2>12 DEF ReadCommand, TaskState
  <2>13. CASE WriteOk
    <3>1. task' \in [Commands -> TaskState]
      BY <2>13 DEF WriteOk, TaskState
    <3>2. sent' \in Seq(Nat)
      BY <2>13 DEF WriteOk
    <3> QED
      BY SMTT(30), <2>13, <3>1, <3>2 DEF WriteOk
  <2>14. CASE WriteFail
    <3>1. \A i \in DOMAIN held : held[i] \in Nat
      BY SMTT(30), ElementOfSeq
    <3>2. lost' \in SUBSET Nat
      BY Zenon, <2>14, <3>1 DEF WriteFail
    <3> QED
      BY SMTT(30), <2>5, <2>14, <3>2 DEF WriteFail
  <2>15. ASSUME NEW c \in Commands, TaskEnds(c) PROVE TypeOK'
    <3>1. task' \in [Commands -> TaskState]
      <4>1. "finished" \in TaskState /\ "moot" \in TaskState
        BY DEF TaskState
      <4> QED
        BY Zenon, <2>15, <4>1 DEF TaskEnds
    <3>2. acks' \in Seq(Commands)
      <4>1. Append(acks, c) \in Seq(Commands)
        OBVIOUS
      <4> QED
        BY Zenon, <2>15, <4>1 DEF TaskEnds
    <3> QED
      BY <2>15, <3>1, <3>2 DEF TaskEnds
  <2>16. CASE Emit
    BY <2>16 DEF Emit
  <2>17. CASE Cancel
    BY <2>17 DEF Cancel
  <2>18. CASE UNCHANGED vars
    BY <2>18 DEF vars
  <2> QED
    BY Zenon, <2>1, <2>2, <2>3, <2>4, <2>6, <2>7, <2>8, <2>9, <2>10, <2>11, <2>12,
       <2>13, <2>14, <2>15, <2>16, <2>17, <2>18 DEF Next
<1> QED
  BY <1>1, <1>2, PTL DEF Spec

-----------------------------------------------------------------------------
\* The loop's place, what it holds and the client's place agree in every state.
LEMMA LoopMatchesClientHolds == Spec => []LoopMatchesClient
<1>1. Init => LoopMatchesClient
  BY DEF Init, LoopMatchesClient
<1>2. TypeOK /\ LoopMatchesClient /\ [Next]_vars => LoopMatchesClient'
  <2> SUFFICES ASSUME TypeOK, LoopMatchesClient, [Next]_vars
               PROVE  LoopMatchesClient'
    OBVIOUS
  <2> USE DEF TypeOK, LoopMatchesClient, Writing, clientVars, eventVars, ackVars
  <2>1. CASE DialOk
    BY <2>1 DEF DialOk
  <2>2. CASE DialFail
    BY <2>2 DEF DialFail
  <2>3. CASE SleepEnds
    BY <2>3 DEF SleepEnds
  <2>4. CASE CancelSleep
    BY <2>4 DEF CancelSleep
  <2>5. ASSUME Leave, held' = <<>> PROVE LoopMatchesClient'
    <3>1. \A c \in Commands : task'[c] # "running"
      BY <2>5 DEF Leave
    <3> QED
      BY <2>5, <3>1 DEF Leave
  <2>6. CASE CancelSession
    BY <2>5, <2>6 DEF CancelSession
  <2>7. CASE ReadEnds
    BY <2>5, <2>7 DEF ReadEnds
  <2>8. CASE HeartbeatTick
    BY <2>8 DEF HeartbeatTick
  <2>9. CASE HeartbeatCollected
    BY <2>9 DEF HeartbeatCollected
  <2>10. CASE TakeEvent
    BY <2>10 DEF TakeEvent
  <2>11. CASE TakeAck
    BY <2>11 DEF TakeAck
  <2>12. ASSUME NEW c \in Commands, ReadCommand(c) PROVE LoopMatchesClient'
    BY <2>12 DEF ReadCommand
  <2>13. CASE WriteOk
    <3>1. \A c \in Commands : task'[c] = "running" => task[c] = "running"
      BY <2>13 DEF WriteOk
    <3> QED
      BY <2>13, <3>1 DEF WriteOk
  <2>14. CASE WriteFail
    BY <2>5, <2>14 DEF WriteFail
  <2>15. ASSUME NEW c \in Commands, TaskEnds(c) PROVE LoopMatchesClient'
    <3>1. \A d \in Commands : task'[d] = "running" => task[d] = "running"
      BY <2>15 DEF TaskEnds
    <3> QED
      BY <2>15, <3>1 DEF TaskEnds
  <2>16. CASE Emit
    BY <2>16 DEF Emit
  <2>17. CASE Cancel
    BY <2>17 DEF Cancel
  <2>18. CASE UNCHANGED vars
    BY <2>18 DEF vars
  <2> QED
    BY ZenonT(30), <2>1, <2>2, <2>3, <2>4, <2>6, <2>7, <2>8, <2>9, <2>10, <2>11, <2>12,
       <2>13, <2>14, <2>15, <2>16, <2>17, <2>18 DEF Next
<1> QED
  BY <1>1, <1>2, TypeCorrect, PTL DEF Spec

-----------------------------------------------------------------------------
\* No command has two acks under way; with that, AcksBelongToSession is
\* inductive.
AcksDistinct ==
    /\ \A i, j \in DOMAIN acks : acks[i] = acks[j] => i = j
    /\ \A i \in DOMAIN acks, k \in DOMAIN heldAck : acks[i] # heldAck[k]

AckInv == AcksBelongToSession /\ AcksDistinct

\* An ack is only ever queued or written on the connection its command came
\* from: when Session::run returns, its ack channel goes with it.
THEOREM AcksStayHome == Spec => []AcksBelongToSession
<1>1. Init => AckInv
  BY SMTT(30) DEF Init, AckInv, AcksBelongToSession, AcksDistinct
<1>2. TypeOK /\ LoopMatchesClient /\ AckInv /\ [Next]_vars => AckInv'
  <2> SUFFICES ASSUME TypeOK, LoopMatchesClient, AckInv, [Next]_vars
               PROVE  AckInv'
    OBVIOUS
  <2> USE DEF TypeOK, AckInv, AcksBelongToSession, AcksDistinct,
              clientVars, eventVars, ackVars
  <2>1. ASSUME UNCHANGED ackVars, client' = client \/ client' = "session"
                                  \/ client # "session"
        PROVE  AckInv'
    BY <2>1 DEF LoopMatchesClient
  <2>2. CASE DialOk \/ DialFail \/ SleepEnds \/ CancelSleep
    BY <2>1, <2>2 DEF DialOk, DialFail, SleepEnds, CancelSleep
  <2>3. ASSUME Leave PROVE AckInv'
    BY <2>3 DEF Leave
  <2>4. CASE CancelSession \/ ReadEnds \/ WriteFail
    BY ZenonT(30), <2>3, <2>4 DEF CancelSession, ReadEnds, WriteFail
  <2>5. CASE HeartbeatTick \/ HeartbeatCollected \/ TakeEvent \/ Emit \/ Cancel
    BY <2>1, <2>5 DEF HeartbeatTick, HeartbeatCollected, TakeEvent, Emit, Cancel
  <2>6. CASE TakeAck
    <3>1. /\ acks # <<>> /\ acks' = Tail(acks) /\ heldAck' = <<acks[1]>>
          /\ UNCHANGED <<client, task>> /\ client = "session"
      BY <2>6 DEF TakeAck, LoopMatchesClient
    <3>2. \A i \in DOMAIN acks' : i + 1 \in DOMAIN acks /\ acks'[i] = acks[i + 1]
      BY SMTT(30), <3>1
    <3>3. DOMAIN heldAck' = {1} /\ heldAck'[1] = acks[1] /\ 1 \in DOMAIN acks
      BY SMTT(30), <3>1
    <3>4. DOMAIN acks' \subseteq Nat \ {0}
      BY SMTT(30), <3>1
    <3>5. AcksBelongToSession'
      BY SMTT(30), <3>1, <3>2, <3>3
    <3>6. \A i, j \in DOMAIN acks' : acks'[i] = acks'[j] => i = j
      BY SMTT(30), <3>2, <3>4
    <3>7. \A i \in DOMAIN acks' : acks'[i] # acks[1]
      BY SMTT(30), <3>2, <3>3, <3>4
    <3> QED
      BY ZenonT(30), <3>3, <3>5, <3>6, <3>7
  <2>7. ASSUME NEW c \in Commands, ReadCommand(c) PROVE AckInv'
    <3>1. \A d \in Commands : task[d] = "finished" => task'[d] = "finished"
      BY <2>7 DEF ReadCommand
    <3>2. /\ \A i \in DOMAIN acks : acks[i] \in Commands
          /\ \A i \in DOMAIN heldAck : heldAck[i] \in Commands
      OBVIOUS
    <3> QED
      BY ZenonT(30), <2>7, <3>1, <3>2 DEF ReadCommand
  <2>8. CASE WriteOk
    <3>1. /\ heldAck' = <<>> /\ acks' = acks /\ client' = client
          /\ loop # "none"
      BY <2>8 DEF WriteOk, Writing
    <3>2. \A i \in DOMAIN acks : heldAck # <<acks[i]>>
      OBVIOUS
    <3>3. \A i \in DOMAIN acks : acks[i] \in Commands
      OBVIOUS
    <3>4. \A i \in DOMAIN acks : task'[acks[i]] = "finished"
      BY ZenonT(30), <2>8, <3>2, <3>3 DEF WriteOk
    <3> QED
      BY SMTT(30), <3>1, <3>4 DEF LoopMatchesClient
  <2>9. ASSUME NEW c \in Commands, TaskEnds(c) PROVE AckInv'
    <3>1. /\ \A i \in DOMAIN acks : acks[i] \in Commands
          /\ \A i \in DOMAIN heldAck : heldAck[i] \in Commands
      OBVIOUS
    <3>2. \A d \in Commands : task[d] = "finished" => task'[d] = "finished"
      BY <2>9 DEF TaskEnds
    <3>3. UNCHANGED <<client, heldAck>>
      BY <2>9 DEF TaskEnds
    <3>4. CASE task[c] = "running"
      <4>1. /\ acks' = Append(acks, c) /\ task'[c] = "finished"
            /\ client = "session"
        BY <2>9, <3>4 DEF TaskEnds, LoopMatchesClient
      <4>2. /\ \A i \in DOMAIN acks : acks[i] # c
            /\ \A i \in DOMAIN heldAck : heldAck[i] # c
        BY <3>4
      <4>3. /\ DOMAIN acks' = DOMAIN acks \cup {Len(acks) + 1}
            /\ acks'[Len(acks) + 1] = c
            /\ \A i \in DOMAIN acks : acks'[i] = acks[i]
        BY SMTT(30), <4>1
      <4>4. AcksBelongToSession'
        BY SMTT(30), <3>1, <3>2, <3>3, <4>1, <4>3
      <4>5. \A i, j \in DOMAIN acks' : acks'[i] = acks'[j] => i = j
        BY ZenonT(30), <4>2, <4>3
      <4>6. \A i \in DOMAIN acks', k \in DOMAIN heldAck' : acks'[i] # heldAck'[k]
        BY SMTT(30), <3>3, <4>2, <4>3
      <4> QED
        BY ZenonT(30), <4>4, <4>5, <4>6
    <3>5. CASE task[c] # "running"
      <4>1. acks' = acks
        BY ZenonT(30), <2>9, <3>5 DEF TaskEnds
      <4> QED
        BY ZenonT(30), <3>1, <3>2, <3>3, <4>1
    <3> QED
      BY ZenonT(30), <3>4, <3>5
  <2>10. CASE UNCHANGED vars
    BY <2>1, <2>10 DEF vars
  <2> QED
    BY ZenonT(30), <2>2, <2>4, <2>5, <2>6, <2>7, <2>8, <2>9, <2>10 DEF Next
<1>3. AckInv => AcksBelongToSession
  BY DEF AckInv
<1> QED
  BY <1>1, <1>2, <1>3, TypeCorrect, LoopMatchesClientHolds, PTL DEF Spec

-----------------------------------------------------------------------------
\* What the refinement mapping turns `pending` into when the loop takes, writes
\* or loses an event.
LEMMA TakeKeepsPending ==
    ASSUME events \in Seq(Nat), events # <<>>
    PROVE  <<Head(events)>> \o Tail(events) = <<>> \o events
<1>1. Tail(events) \in Seq(Nat) /\ Head(events) \in Nat
  OBVIOUS
<1>2. <<>> \o events = events
  BY ConcatEmptySeq
<1>3. <<Head(events)>> \o Tail(events) = events
  BY <1>1, ConcatProperties, SeqEqual, HeadTailProperties
<1> QED
  BY <1>2, <1>3

\* The event being written is the first of `pending`, and writing or losing it
\* leaves the rest.
LEMMA HeldIsHead ==
    ASSUME NEW e \in Nat, NEW q \in Seq(Nat)
    PROVE  /\ <<e>> \o q # <<>>
           /\ Head(<<e>> \o q) = e
           /\ Tail(<<e>> \o q) = q
<1>1. <<e>> \in Seq(Nat) /\ Len(<<e>>) = 1 /\ <<e>>[1] = e
  OBVIOUS
<1>2. /\ <<e>> \o q \in Seq(Nat)
      /\ Len(<<e>> \o q) = 1 + Len(q)
      /\ \A i \in 1..1 + Len(q) :
           (<<e>> \o q)[i] = IF i <= 1 THEN <<e>>[i] ELSE q[i - 1]
  BY <1>1, ConcatProperties
<1>3. <<e>> \o q # <<>> /\ Head(<<e>> \o q) = e
  BY <1>1, <1>2
<1>4. /\ Tail(<<e>> \o q) \in Seq(Nat)
      /\ Len(Tail(<<e>> \o q)) = Len(q)
      /\ \A i \in 1..Len(q) : Tail(<<e>> \o q)[i] = q[i]
  BY <1>2, <1>3, HeadTailProperties
<1> QED
  BY ZenonT(30), <1>3, <1>4, SeqEqual

\* Session implements EventStream: whatever the connections do, events leave in
\* order, at most once, and a connection that breaks loses at most the event
\* that was being written.
THEOREM ImplementsEventStream == Spec => StreamSpec
<1>1. Init => Stream!Init
  BY DEF Init, Stream!Init
<1>2. TypeOK /\ LoopMatchesClient /\ [Next]_vars
        => [Stream!Next]_(Stream!streamVars)
  <2> SUFFICES ASSUME TypeOK, LoopMatchesClient, [Next]_vars
               PROVE  Stream!Next \/ UNCHANGED Stream!streamVars
    OBVIOUS
  <2> USE DEF clientVars, eventVars, ackVars
  <2>1. ASSUME UNCHANGED eventVars, (client = "session") = (client' = "session")
        PROVE  UNCHANGED Stream!streamVars
    BY <2>1 DEF Stream!streamVars
  <2>2. CASE DialOk
    BY <2>2 DEF DialOk, Stream!Next, Stream!Open
  <2>3. CASE DialFail \/ SleepEnds \/ CancelSleep
    <3>1. client # "session" /\ client' # "session" /\ UNCHANGED eventVars
      BY <2>3 DEF DialFail, SleepEnds, CancelSleep
    <3> QED
      BY <2>1, <3>1
  <2>4. CASE CancelSession \/ ReadEnds
    <3>1. client = "session" /\ client' = "sleeping" /\ UNCHANGED eventVars
      BY <2>4 DEF CancelSession, ReadEnds, Leave, LoopMatchesClient
    <3> QED
      BY <3>1 DEF Stream!Next, Stream!Close
  <2>5. CASE HeartbeatTick \/ HeartbeatCollected \/ TakeAck \/ Cancel
    BY <2>1, <2>5 DEF HeartbeatTick, HeartbeatCollected, TakeAck, Cancel
  <2>6. CASE TakeEvent
    <3>1. held = <<>>
      BY <2>6 DEF TakeEvent, LoopMatchesClient
    <3>2. held' \o events' = held \o events
      BY ZenonT(30), <2>6, <3>1, TakeKeepsPending DEF TakeEvent, TypeOK
    <3> QED
      BY <2>6, <3>2 DEF TakeEvent, Stream!streamVars
  <2>7. ASSUME NEW c \in Commands, ReadCommand(c) \/ TaskEnds(c)
        PROVE  UNCHANGED Stream!streamVars
    BY <2>1, <2>7 DEF ReadCommand, TaskEnds
  <2>8. CASE WriteOk
    <3>1. client = "session" /\ client' = client
      BY <2>8 DEF WriteOk, Writing, LoopMatchesClient
    <3>2. CASE held = <<>>
      <4>1. sent' = sent /\ held' = held /\ events' = events
        BY SMTT(30), <2>8, <3>2 DEF WriteOk, TypeOK
      <4> QED
        BY ZenonT(30), <2>1, <2>8, <3>1, <4>1 DEF WriteOk
    <3>3. CASE held # <<>>
      <4>0. PICK e \in Nat : held = <<e>>
        BY <3>3 DEF LoopMatchesClient
      <4>1. /\ held \o events # <<>>
            /\ Head(held \o events) = e
            /\ Tail(held \o events) = events
        BY Zenon, <4>0, HeldIsHead DEF TypeOK
      <4>2. sent \o held = Append(sent, Head(held \o events))
        BY <4>0, <4>1, AppendIsConcat DEF TypeOK
      <4>3. held' \o events' = events
        BY <2>8 DEF WriteOk, TypeOK
      <4> QED
        BY ZenonT(30), <2>8, <3>1, <4>1, <4>2, <4>3 DEF WriteOk, Stream!Next, Stream!Deliver
    <3> QED
      BY <3>2, <3>3
  <2>9. CASE WriteFail
    <3>1. client = "session" /\ client' = "sleeping"
      BY <2>9 DEF WriteFail, Writing, Leave, LoopMatchesClient
    <3>2. CASE held = <<>>
      <4>1. lost' = lost /\ held' = held
        BY <2>9, <3>2 DEF WriteFail
      <4> QED
        BY Zenon, <2>9, <3>1, <4>1 DEF WriteFail, Stream!Next, Stream!Close
    <3>3. CASE held # <<>>
      <4>0. PICK e \in Nat : held = <<e>>
        BY <3>3 DEF LoopMatchesClient
      <4>1. /\ held \o events # <<>>
            /\ Head(held \o events) = e
            /\ Tail(held \o events) = events
        BY Zenon, <4>0, HeldIsHead DEF TypeOK
      <4>2. {held[i] : i \in DOMAIN held} = {Head(held \o events)}
        BY <4>0, <4>1
      <4>3. held' \o events' = events
        BY <2>9 DEF WriteFail, TypeOK
      <4> QED
        BY ZenonT(30), <2>9, <3>1, <4>1, <4>2, <4>3 DEF WriteFail, Stream!Next, Stream!Break
    <3> QED
      BY <3>2, <3>3
  <2>10. CASE Emit
    <3>1. held \o Append(events, emitted + 1) = Append(held \o events, emitted + 1)
      <4>1. emitted + 1 \in Nat
        BY SessionEventsAssumption DEF TypeOK
      <4>2. held \in Seq(Nat) /\ events \in Seq(Nat)
        BY DEF TypeOK
      <4>3. Append(events, emitted + 1) = events \o <<emitted + 1>>
        BY <4>1, <4>2, AppendIsConcat
      <4>4. Append(held \o events, emitted + 1) = (held \o events) \o <<emitted + 1>>
        BY ZenonT(30), <4>1, <4>2, AppendIsConcat, ConcatProperties
      <4>5. <<emitted + 1>> \in Seq(Nat)
        BY <4>1
      <4> QED
        BY SMTT(30), <4>2, <4>3, <4>4, <4>5, ConcatAssociative
    <3> QED
      BY ZenonT(30), <2>10, <3>1 DEF Emit, Stream!Next, Stream!Emit
  <2>11. CASE UNCHANGED vars
    BY <2>1, <2>11 DEF vars
  <2> QED
    BY ZenonT(30), <2>2, <2>3, <2>4, <2>5, <2>6, <2>7, <2>8, <2>9, <2>10, <2>11 DEF Next
<1> QED
  BY <1>1, <1>2, TypeCorrect, LoopMatchesClientHolds, PTL
     DEF Spec, StreamSpec, Stream!Spec

-----------------------------------------------------------------------------
\* The events 1..k are on the line, in order, or gone.
Conserved(line, gone, k) ==
    /\ \A i, j \in DOMAIN line : i < j => line[i] < line[j]
    /\ {line[i] : i \in DOMAIN line} \cup gone = 1..k
    /\ \A i \in DOMAIN line : line[i] \notin gone

\* The next event joins the end of the line.
LEMMA EmitConserves ==
    ASSUME NEW line \in Seq(Nat), NEW gone, NEW k \in Nat, Conserved(line, gone, k)
    PROVE  Conserved(Append(line, k + 1), gone, k + 1)
<1> DEFINE more == Append(line, k + 1)
           n == Len(line)
<1>1. /\ n \in Nat /\ DOMAIN line = 1..n /\ DOMAIN more = 1..(n + 1)
      /\ more[n + 1] = k + 1
      /\ \A i \in 1..n : more[i] = line[i]
  OBVIOUS
<1>2. \A i \in 1..n : line[i] \in 1..k
  BY Zenon, <1>1 DEF Conserved
<1> HIDE DEF more, n
<1>3. {more[i] : i \in DOMAIN more} = {line[i] : i \in DOMAIN line} \cup {k + 1}
  <2>1. \A i \in 1..(n + 1) : i \in 1..n \/ i = n + 1
    BY <1>1
  <2>2. n + 1 \in 1..(n + 1) /\ \A i \in 1..n : i \in 1..(n + 1)
    BY <1>1
  <2> QED
    BY Zenon, <1>1, <2>1, <2>2
<1>4. k + 1 \notin gone
  BY DEF Conserved
<1>5. ASSUME NEW i \in DOMAIN more, NEW j \in DOMAIN more, i < j
      PROVE  more[i] < more[j]
  <2>1. i \in 1..n /\ more[i] = line[i] /\ line[i] \in 1..k
    BY SMTT(30), <1>1, <1>2, <1>5
  <2>2. CASE j = n + 1
    BY <1>1, <2>1, <2>2
  <2>3. CASE j # n + 1
    <3>1. j \in 1..n /\ more[j] = line[j]
      BY <1>1, <2>3
    <3> QED
      BY ZenonT(30), <1>1, <1>5, <2>1, <3>1 DEF Conserved
  <2> QED
    BY <2>2, <2>3
<1>6. {more[i] : i \in DOMAIN more} \cup gone = 1..(k + 1)
  <2>1. 1..(k + 1) = (1..k) \cup {k + 1}
    OBVIOUS
  <2> QED
    BY ZenonT(30), <1>3, <2>1 DEF Conserved
<1>7. \A i \in DOMAIN more : more[i] \notin gone
  BY SMTT(30), <1>1, <1>4 DEF Conserved
<1> QED
  BY ZenonT(30), <1>5, <1>6, <1>7 DEF Conserved, more

\* The event in the middle of the line is lost.
LEMMA LossConserves ==
    ASSUME NEW s \in Seq(Nat), NEW e \in Nat, NEW r \in Seq(Nat), NEW gone, NEW k \in Nat,
           Conserved((s \o <<e>>) \o r, gone, k)
    PROVE  Conserved(s \o r, gone \cup {e}, k)
<1> DEFINE line == (s \o <<e>>) \o r
           less == s \o r
           n == Len(s)
           m == Len(r)
           old(i) == IF i <= n THEN i ELSE i + 1
<1>1. n \in Nat /\ m \in Nat
  OBVIOUS
<1>2. /\ DOMAIN line = 1..(n + 1 + m) /\ DOMAIN less = 1..(n + m)
      /\ line[n + 1] = e
      /\ \A i \in 1..n : line[i] = s[i] /\ less[i] = s[i]
      /\ \A i \in 1..m : line[n + 1 + i] = r[i] /\ less[n + i] = r[i]
  BY SMTT(30)
<1> HIDE DEF line, less, n, m
<1>3. \A i \in DOMAIN less : /\ old(i) \in DOMAIN line /\ old(i) # n + 1
                             /\ less[i] = line[old(i)]
  <2> SUFFICES ASSUME NEW i \in 1..(n + m)
               PROVE  /\ old(i) \in 1..(n + 1 + m) /\ old(i) # n + 1
                      /\ less[i] = line[old(i)]
    BY <1>2
  <2>1. CASE i <= n
    BY SMTT(30), <1>1, <1>2, <2>1
  <2>2. CASE i > n
    <3>1. i - n \in 1..m /\ n + (i - n) = i /\ n + 1 + (i - n) = i + 1
      BY SMTT(30), <1>1, <2>2
    <3>2. line[n + 1 + (i - n)] = r[i - n] /\ less[n + (i - n)] = r[i - n]
      BY ZenonT(30), <1>2, <3>1
    <3>3. less[i] = line[i + 1] /\ old(i) = i + 1
      BY SMTT(30), <1>1, <2>2, <3>1, <3>2
    <3>4. i + 1 \in 1..(n + 1 + m) /\ i + 1 # n + 1
      BY SMTT(30), <1>1, <2>2
    <3> HIDE DEF old
    <3> QED
      BY <3>3, <3>4
  <2> QED
    BY SMTT(30), <1>1, <2>1, <2>2
<1>4. \A i \in DOMAIN line : i # n + 1 => \E j \in DOMAIN less : old(j) = i
  <2> SUFFICES ASSUME NEW i \in 1..(n + 1 + m), i # n + 1
               PROVE  \E j \in 1..(n + m) : old(j) = i
    BY ZenonT(30), <1>2
  <2>1. CASE i <= n
    <3>1. i \in 1..(n + m) /\ old(i) = i
      BY <1>1, <2>1
    <3> QED
      BY <3>1
  <2>2. CASE i > n + 1
    <3>1. i - 1 \in 1..(n + m) /\ old(i - 1) = i
      BY SMTT(30), <1>1, <2>2
    <3> QED
      BY <3>1
  <2> QED
    BY <1>1, <2>1, <2>2
<1>5. \A i, j \in DOMAIN less : i < j => old(i) < old(j)
  BY SMTT(30), <1>1, <1>2
<1>6. n + 1 \in DOMAIN line /\ line[n + 1] = e
  BY <1>1, <1>2
<1>7. Conserved(line, gone, k)
  BY DEF line
<1> HIDE DEF old
<1>8. DOMAIN line \subseteq Nat /\ \A i \in DOMAIN line : line[i] \in Nat
  <2>1. \A i \in DOMAIN line : line[i] \in 1..k
    BY <1>7 DEF Conserved
  <2> QED
    BY SMTT(30), <1>1, <1>2, <2>1
<1>9. ASSUME NEW i \in DOMAIN line, NEW j \in DOMAIN line, line[i] = line[j]
      PROVE  i = j
  <2>1. i \in Nat /\ j \in Nat /\ line[i] \in Nat /\ line[j] \in Nat
    BY ZenonT(30), <1>8
  <2>2. ~(i < j) /\ ~(j < i)
    BY SMTT(30), <1>7, <1>9, <2>1 DEF Conserved
  <2> QED
    BY <2>1, <2>2
<1>10. \A i, j \in DOMAIN less : i < j => less[i] < less[j]
  BY ZenonT(30), <1>3, <1>5, <1>7 DEF Conserved
<1>11. \A i \in DOMAIN less : less[i] # e /\ less[i] \notin gone
  BY <1>3, <1>6, <1>7, <1>9 DEF Conserved
<1>12. {less[i] : i \in DOMAIN less} \cup {e} = {line[i] : i \in DOMAIN line}
  <2>1. \A i \in DOMAIN less : \E j \in DOMAIN line : less[i] = line[j]
    BY Zenon, <1>3
  <2>2. ASSUME NEW i \in DOMAIN line PROVE line[i] = e \/ \E j \in DOMAIN less : line[i] = less[j]
    <3>1. CASE i = n + 1
      BY Zenon, <1>6, <3>1
    <3>2. CASE i # n + 1
      <4>1. PICK j \in DOMAIN less : old(j) = i
        BY Zenon, <1>4, <3>2
      <4> QED
        BY Zenon, <1>3, <4>1
    <3> QED
      BY <3>1, <3>2
  <2>3. e \in {line[i] : i \in DOMAIN line}
    BY Zenon, <1>6
  <2>4. {less[i] : i \in DOMAIN less} \subseteq {line[i] : i \in DOMAIN line}
    BY Zenon, <2>1
  <2>5. {line[i] : i \in DOMAIN line} \subseteq {less[i] : i \in DOMAIN less} \cup {e}
    BY Zenon, <2>2
  <2> HIDE DEF old
  <2> QED
    BY Zenon, <2>3, <2>4, <2>5
<1>13. {less[i] : i \in DOMAIN less} \cup (gone \cup {e}) = 1..k
  BY Zenon, <1>7, <1>12 DEF Conserved
<1> QED
  BY Zenon, <1>10, <1>11, <1>13 DEF Conserved, less

\* Sequences of events may be regrouped.
LEMMA Regroup ==
    ASSUME NEW a \in Seq(Nat), NEW b \in Seq(Nat), NEW c \in Seq(Nat)
    PROVE  (a \o b) \o c = a \o (b \o c)
<1> DEFINE S == Nat
<1>1. a \in Seq(S) /\ b \in Seq(S) /\ c \in Seq(S)
  OBVIOUS
<1> HIDE DEF S
<1> QED
  BY SMTT(30), <1>1, ConcatAssociative

\* Each event emitted is written, being written, queued or lost, in exactly one
\* of these places and in the order of emission, for any number of events and
\* of connections.
THEOREM EventsAreConserved == Spec => []EventsConserved
<1> DEFINE Inv == Conserved((sent \o held) \o events, lost, emitted)
<1>1. Init => Inv
  <2> SUFFICES ASSUME Init PROVE Inv
    OBVIOUS
  <2>1. (sent \o held) \o events = <<>> /\ lost = {} /\ emitted = 0
    BY DEF Init
  <2> QED
    BY <2>1 DEF Conserved
<1>2. TypeOK /\ LoopMatchesClient /\ Inv /\ [Next]_vars => Inv'
  <2> SUFFICES ASSUME TypeOK, LoopMatchesClient, Inv, [Next]_vars PROVE Inv'
    OBVIOUS
  <2>0. /\ sent \in Seq(Nat) /\ held \in Seq(Nat) /\ events \in Seq(Nat)
        /\ emitted \in Nat
    BY SessionEventsAssumption DEF TypeOK
  <2>1. CASE UNCHANGED eventVars
    BY <2>1 DEF eventVars
  <2>2. CASE TakeEvent
    <3>1. held = <<>> /\ held' \o events' = events
      BY SMTT(30), <2>0, <2>2, TakeKeepsPending DEF TakeEvent, LoopMatchesClient
    <3>2. held' \in Seq(Nat) /\ events' \in Seq(Nat)
      BY <2>0, <2>2 DEF TakeEvent
    <3>3. (sent \o held') \o events' = sent \o (held' \o events')
      BY ZenonT(60), <2>0, <3>2, Regroup
    <3>4. sent \o held = sent
      BY <2>0, <3>1
    <3> QED
      BY Zenon, <2>2, <3>1, <3>3, <3>4 DEF TakeEvent
  <2>3. CASE WriteOk
    <3>1. (sent \o held) \o <<>> = sent \o held
      BY <2>0
    <3> QED
      BY <2>3, <3>1 DEF WriteOk
  <2>4. CASE WriteFail
    <3>0. sent \o <<>> = sent
      BY <2>0
    <3>1. CASE held = <<>>
      <4>1. lost' = lost /\ held' = held
        BY <2>4, <3>1 DEF WriteFail
      <4> QED
        BY Zenon, <2>4, <4>1 DEF WriteFail
    <3>2. CASE held # <<>>
      <4>1. PICK e \in Nat : held = <<e>>
        BY ZenonT(30), <3>2 DEF LoopMatchesClient
      <4>2. {held[i] : i \in DOMAIN held} = {e}
        BY <4>1
      <4>3. Conserved(sent \o events, lost \cup {e}, emitted)
        BY <2>0, <4>1, LossConserves
      <4> QED
        BY Zenon, <2>4, <3>0, <4>2, <4>3 DEF WriteFail
    <3> QED
      BY <3>1, <3>2
  <2>5. CASE Emit
    <3>1. emitted + 1 \in Nat /\ <<emitted + 1>> \in Seq(Nat) /\ sent \o held \in Seq(Nat)
      BY <2>0
    <3>2. Append(events, emitted + 1) = events \o <<emitted + 1>>
      BY ZenonT(30), <2>0, <3>1, AppendIsConcat
    <3>3. Append((sent \o held) \o events, emitted + 1)
            = ((sent \o held) \o events) \o <<emitted + 1>>
      <4>1. (sent \o held) \o events \in Seq(Nat)
        BY ZenonT(30), <2>0, <3>1, ConcatProperties
      <4> QED
        BY ZenonT(30), <3>1, <4>1, AppendIsConcat
    <3>4. ((sent \o held) \o events) \o <<emitted + 1>>
            = (sent \o held) \o (events \o <<emitted + 1>>)
      <4> DEFINE x == sent \o held
                 y == events
                 z == <<emitted + 1>>
      <4>1. x \in Seq(Nat) /\ y \in Seq(Nat) /\ z \in Seq(Nat)
        BY Zenon, <2>0, <3>1
      <4> HIDE DEF x, y, z
      <4>2. (x \o y) \o z = x \o (y \o z)
        BY ZenonT(30), <4>1, Regroup
      <4> QED
        BY Zenon, <4>2 DEF x, y, z
    <3>5. (sent \o held) \o Append(events, emitted + 1)
            = Append((sent \o held) \o events, emitted + 1)
      BY Zenon, <2>0, <3>1, <3>2, <3>3, <3>4
    <3>6. (sent \o held) \o events \in Seq(Nat)
      BY <2>0
    <3>7. Conserved(Append((sent \o held) \o events, emitted + 1), lost, emitted + 1)
      BY Zenon, <2>0, <3>6, EmitConserves
    <3> QED
      BY Zenon, <2>5, <3>5, <3>7 DEF Emit
  <2> QED
    BY ZenonT(30), <2>1, <2>2, <2>3, <2>4, <2>5
       DEF Next, DialOk, DialFail, SleepEnds, CancelSleep, CancelSession, ReadEnds,
           HeartbeatTick, HeartbeatCollected, TakeAck, ReadCommand, TaskEnds, Cancel, vars
<1>3. Inv => EventsConserved
  BY ZenonT(30) DEF Conserved, EventsConserved
<1> QED
  BY <1>1, <1>2, <1>3, TypeCorrect, LoopMatchesClientHolds, PTL DEF Spec
-----------------------------------------------------------------------------
\* The powers of two double, and outgrow their exponents: they count subsets.
LEMMA PowersOfTwo ==
    ASSUME NEW n \in Nat
    PROVE  2^n \in Nat /\ 2^0 = 1 /\ 2^(n + 1) = 2 * 2^n /\ n <= 2^n
<1> DEFINE Old == SUBSET (1..n)
           New == {X \cup {n + 1} : X \in Old}
<1>1. \A k \in Nat : IsFiniteSet(1..k) /\ Cardinality(1..k) = k
  BY FS_Interval
<1>2. \A k \in Nat : IsFiniteSet(SUBSET (1..k)) /\ Cardinality(SUBSET (1..k)) = 2^k
  BY Zenon, <1>1, FS_SUBSET
<1>3. \A k \in Nat : 2^k \in Nat
  BY Zenon, <1>2, FS_CardinalityType
<1>4. 2^0 = 1
  <2>1. SUBSET (1..0) = {{}} BY SMT
  <2> QED BY <1>2, <2>1, FS_Singleton
<1>5. SUBSET (1..(n + 1)) = Old \cup New
  <2>1. ASSUME NEW X \in SUBSET (1..(n + 1)), n + 1 \in X PROVE X \in New
    <3>1. X \ {n + 1} \in Old BY SMT, <2>1
    <3>2. (X \ {n + 1}) \cup {n + 1} = X BY <2>1
    <3> QED BY Zenon, <3>1, <3>2
  <2>2. ASSUME NEW X \in SUBSET (1..(n + 1)), n + 1 \notin X PROVE X \in Old
    BY SMT, <2>2
  <2>3. ASSUME NEW X \in Old PROVE X \in SUBSET (1..(n + 1)) /\ X \cup {n + 1} \in SUBSET (1..(n + 1))
    BY SMT
  <2>4. SUBSET (1..(n + 1)) \subseteq Old \cup New BY <2>1, <2>2
  <2>5. Old \cup New \subseteq SUBSET (1..(n + 1))
    <3>1. ASSUME NEW Y \in New PROVE Y \in SUBSET (1..(n + 1))
      <4>1. PICK X \in Old : Y = X \cup {n + 1} OBVIOUS
      <4> QED BY Zenon, <2>3, <4>1
    <3> HIDE DEF New
    <3> QED BY Zenon, <2>3, <3>1
  <2> QED BY Zenon, <2>4, <2>5
<1>6. ExistsBijection(Old, New)
  <2> DEFINE f == [X \in Old |-> X \cup {n + 1}]
  <2>1. \A X \in Old : n + 1 \notin X BY SMT
  <2>2. f \in [Old -> New] /\ \A Y \in New : \E X \in Old : f[X] = Y BY Zenon
  <2>3. \A X, Y \in Old : f[X] = f[Y] => X = Y BY <2>1
  <2>4. f \in Bijection(Old, New)
    BY Zenon, <2>2, <2>3 DEF Bijection, Injection, Surjection, IsInjective
  <2> QED BY Zenon, <2>4 DEF ExistsBijection
<1>7. IsFiniteSet(New) /\ Cardinality(New) = 2^n
  BY <1>2, <1>6, FS_Bijection
<1>8. Old \cap New = {} BY SMT
<1>9. 2^(n + 1) = 2^n + 2^n
  <2>1. IsFiniteSet(Old) /\ Cardinality(Old) = 2^n BY <1>2
  <2>2. n + 1 \in Nat OBVIOUS
  <2>3. Cardinality(SUBSET (1..(n + 1))) = 2^(n + 1) BY Zenon, <1>2, <2>2
  <2>4. Cardinality(Old \cup New) = 2^(n + 1) BY Zenon, <1>5, <2>3
  <2>5. Cardinality(Old \cap New) = 0 BY Zenon, <1>8, FS_EmptySet
  <2> HIDE DEF Old, New
  <2>6. Cardinality(Old \cup New) = Cardinality(Old) + Cardinality(New) - Cardinality(Old \cap New)
    BY <1>7, <2>1, FS_Union
  <2> QED BY SMTT(30), <1>3, <1>7, <2>1, <2>4, <2>5, <2>6
<1>10. n <= 2^n
  <2> DEFINE f == [x \in 1..n |-> {x}]
  <2>1. f \in Injection(1..n, Old) BY ZenonT(30) DEF Injection, IsInjective
  <2>2. IsFiniteSet(Old) /\ Cardinality(Old) = 2^n /\ Cardinality(1..n) = n BY Zenon, <1>1, <1>2
  <2> HIDE DEF f, Old
  <2>3. Cardinality(1..n) <= Cardinality(Old) BY <2>1, <2>2, FS_Injection
  <2> QED BY <2>2, <2>3
<1> QED BY <1>3, <1>4, <1>9, <1>10
\* Doubling and capping at every sleep is capping what was doubled that often.
LEMMA CappedDoubling ==
    ASSUME NEW n \in Nat, NEW a \in Nat \ {0}, NEW m \in Nat
    PROVE  /\ Min(2 * Min(a * 2^n, m), m) = Min(a * 2^(n + 1), m)
           /\ n >= m => Min(a * 2^n, m) = m
<1>1. PICK p \in Nat : p = 2^n /\ 2^(n + 1) = 2 * p /\ n <= p
  BY PowersOfTwo
<1>2. PICK q \in Nat : q = a * p /\ a * (2 * p) = 2 * q /\ p <= q
  OBVIOUS
<1> QED BY <1>1, <1>2 DEF Min

\* The delay before a dial is MIN_BACKOFF doubled once per sleep since the last
\* successful dial, and capped (client::run), for every range of delays.
THEOREM BackoffDoubles == Spec => []BackoffLaw
<1> USE BackoffAssumption
<1>1. Init => BackoffLaw
  <2> SUFFICES ASSUME Init PROVE BackoffLaw
    OBVIOUS
  <2>1. backoff = MIN_BACKOFF /\ slept = 0 /\ 2^0 = 1 BY PowersOfTwo DEF Init
  <2> QED BY <2>1 DEF BackoffLaw, Min
<1>2. TypeOK /\ BackoffLaw /\ [Next]_vars => BackoffLaw'
  <2> SUFFICES ASSUME TypeOK, BackoffLaw, [Next]_vars PROVE BackoffLaw'
    OBVIOUS
  <2>1. DialOk \/ SleepEnds \/ UNCHANGED <<backoff, slept>>
    BY DEF Next, vars, clientVars, DialFail, CancelSleep, Leave, CancelSession, ReadEnds, HeartbeatTick,
           HeartbeatCollected, TakeEvent, TakeAck, ReadCommand, WriteOk, WriteFail, TaskEnds, Emit,
           Cancel
  <2>2. CASE DialOk
    <3>1. backoff' = MIN_BACKOFF /\ slept' = 0 /\ 2^0 = 1 BY <2>2, PowersOfTwo DEF DialOk
    <3> QED BY <3>1 DEF BackoffLaw, Min
  <2>3. CASE SleepEnds
    <3>1. /\ slept \in Nat /\ slept <= MAX_BACKOFF
          /\ backoff' = Min(2 * backoff, MAX_BACKOFF) /\ slept' = Min(slept + 1, MAX_BACKOFF)
      BY <2>3 DEF TypeOK, SleepEnds, SleptCap
    <3>2. backoff' = Min(MIN_BACKOFF * 2^(slept + 1), MAX_BACKOFF)
      BY <3>1, CappedDoubling DEF BackoffLaw
    <3>3. CASE slept < MAX_BACKOFF
      <4>1. slept' = slept + 1 BY <3>1, <3>3 DEF Min
      <4> QED BY <3>2, <4>1 DEF BackoffLaw
    <3>4. CASE slept = MAX_BACKOFF
      <4>1. slept' = slept /\ slept + 1 \in Nat /\ slept + 1 >= MAX_BACKOFF BY <3>1, <3>4 DEF Min
      <4>2. backoff' = MAX_BACKOFF BY <3>2, <4>1, CappedDoubling
      <4>3. Min(MIN_BACKOFF * 2^slept, MAX_BACKOFF) = MAX_BACKOFF BY <3>1, <3>4, CappedDoubling
      <4> QED BY <4>1, <4>2, <4>3 DEF BackoffLaw
    <3> QED BY SMTT(30), <3>1, <3>3, <3>4
  <2>4. CASE UNCHANGED <<backoff, slept>> BY <2>4 DEF BackoffLaw
  <2> QED BY <2>1, <2>2, <2>3, <2>4
<1> QED BY <1>1, <1>2, TypeCorrect, PTL DEF Spec
=============================================================================
