---------------------------- MODULE InboundProofs ----------------------------
(***************************************************************************)
(* Proofs about Inbound, for every set of nonces, every skew, drift and    *)
(* time-to-live that satisfy the assumptions, and every bound.             *)
(*                                                                         *)
(* The invariant that is inductive, Window, ties the cache to the clock:   *)
(* an accepted envelope is either still in the cache, recorded no earlier  *)
(* than the first moment it could be fresh, or has left the cache and can  *)
(* never be fresh again.                                                   *)
(***************************************************************************)
EXTENDS Inbound, TLAPS

\* The inductive strengthening, for one envelope.
WindowOf(n) ==
    /\ accepted[n] \in {0, 1}
    /\ seen[n] # Absent => /\ seen[n] <= mono
                           /\ seen[n] >= env[n].ts - MAX_CLOCK_SKEW_SECS - Drift
    /\ (accepted[n] = 1 /\ seen[n] = Absent)
         => mono > env[n].ts + MAX_CLOCK_SKEW_SECS

Window == \A n \in Nonces : WindowOf(n)

\* Type correctness: every variable of the inbound path keeps its type.
THEOREM TypeCorrect == Spec => []TypeOK
<1>1. Init => TypeOK
  BY ClockAssumption DEF Init, TypeOK, Absent
<1>2. TypeOK /\ [Next]_vars => TypeOK'
  <2> SUFFICES ASSUME TypeOK, [Next]_vars PROVE TypeOK'
    OBVIOUS
  <2> USE ClockAssumption DEF TypeOK
  <2>1. Swept \in [Nonces -> Nat \cup {Absent}]
    BY DEF Swept
  <2>2. ASSUME NEW n \in Nonces, DropMalformed(n) PROVE TypeOK'
    BY <2>2 DEF DropMalformed, vars
  <2>3. ASSUME NEW n \in Nonces, RejectUnverified(n) PROVE TypeOK'
    BY <2>3 DEF RejectUnverified
  <2>4. ASSUME NEW n \in Nonces, RejectReplay(n) PROVE TypeOK'
    BY <2>1, <2>4 DEF RejectReplay
  <2>5. ASSUME NEW n \in Nonces, Accept(n) PROVE TypeOK'
    <3>1. seen' \in [Nonces -> Nat \cup {Absent}]
      BY <2>1, <2>5 DEF Accept
    <3>2. accepted' \in [Nonces -> Nat] /\ executed' \in [Nonces -> Nat]
      BY <2>5 DEF Accept
    <3> QED
      BY <2>5, <3>1, <3>2 DEF Accept
  <2>6. CASE EndSession
    BY <2>6 DEF EndSession
  <2>7. CASE NewSession
    BY <2>7 DEF NewSession
  <2>8. CASE Tick
    BY <2>8 DEF Tick
  <2>9. CASE AdjustWallClock
    BY <2>9 DEF AdjustWallClock
  <2>10. CASE UNCHANGED vars
    BY <2>10 DEF vars
  <2> QED
    BY <2>2, <2>3, <2>4, <2>5, <2>6, <2>7, <2>8, <2>9, <2>10
       DEF Next, handle_incoming
<1> QED
  BY <1>1, <1>2, PTL DEF Spec

\* The numbers the window is about.
LEMMA Typed ==
    ASSUME TypeOK, NEW n \in Nonces
    PROVE  /\ env[n].ts \in Int /\ mono \in Nat /\ offset \in Nat /\ offset <= Drift
           /\ seen[n] \in Nat \cup {Absent}
<1>1. env[n].ts \in Int
  BY ClockAssumption DEF TypeOK, Envelope
<1>2. mono \in Nat /\ offset \in Nat /\ offset <= Drift
  BY ClockAssumption DEF TypeOK
<1>3. seen[n] \in Nat \cup {Absent}
  BY DEF TypeOK
<1> QED
  BY <1>1, <1>2, <1>3

\* An envelope whose cache entry the sweep drops can no longer be fresh: the
\* time-to-live exceeds the freshness window by more than the drift.
LEMMA SweptIsStale ==
    ASSUME TypeOK, NEW n \in Nonces, WindowOf(n),
           accepted[n] = 1, Unseen(n)
    PROVE  mono > env[n].ts + MAX_CLOCK_SKEW_SECS
<1> USE ClockAssumption, TtlAssumption
<1>1. env[n].ts \in Int /\ mono \in Int /\ seen[n] \in Nat \cup {Absent}
  BY Typed
<1>2. CASE seen[n] = Absent
  BY <1>2 DEF WindowOf
<1>3. CASE seen[n] # Absent
  <2>1. ~Retained(seen[n])
    BY <1>1, <1>3 DEF Unseen, Swept, Absent
  <2>2. mono >= seen[n] + NONCE_CACHE_TTL
    BY <1>1, <1>3, <2>1 DEF Retained, Absent
  <2> QED
    BY <1>1, <1>3, <2>2 DEF WindowOf, Absent
<1> QED
  BY <1>2, <1>3

\* Hence an envelope accepted once is not accepted again in the session.
LEMMA AcceptIsFirst ==
    ASSUME TypeOK, NEW n \in Nonces, WindowOf(n), Accept(n)
    PROVE  accepted[n] = 0
<1> SUFFICES ASSUME accepted[n] = 1 PROVE FALSE
  BY DEF WindowOf
<1>1. mono > env[n].ts + MAX_CLOCK_SKEW_SECS
  BY SweptIsStale DEF Accept
<1>2. now_unix - env[n].ts <= MAX_CLOCK_SKEW_SECS
  BY Typed, ClockAssumption DEF Accept, verify, timestamp_is_fresh, now_unix
<1> QED
  BY <1>1, <1>2, Typed, ClockAssumption DEF now_unix

\* Each step keeps the window of each envelope.
LEMMA WindowStep ==
    ASSUME TypeOK, TypeOK', Window, [Next]_vars
    PROVE  Window'
<1> SUFFICES ASSUME NEW m \in Nonces PROVE WindowOf(m)'
  BY DEF Window
<1> USE ClockAssumption
<1>1. WindowOf(m)
  BY DEF Window
<1>2. /\ env[m].ts \in Int /\ mono \in Nat /\ offset \in Nat /\ offset <= Drift
      /\ seen[m] \in Nat \cup {Absent}
  BY Typed
<1>3. ASSUME NEW n \in Nonces, DropMalformed(n) PROVE WindowOf(m)'
  BY <1>1, <1>3 DEF DropMalformed, vars, WindowOf
<1>4. ASSUME NEW n \in Nonces, RejectUnverified(n) PROVE WindowOf(m)'
  BY <1>1, <1>4 DEF RejectUnverified, WindowOf
\* A sweep of the cache, on its own, keeps the window.
<1>5. ASSUME seen'[m] = Swept[m],
             UNCHANGED <<env, mono, accepted>>
      PROVE  WindowOf(m)'
  <2>1. Swept[m] \in {seen[m], Absent}
    BY DEF Swept
  <2>2. (accepted[m] = 1 /\ Swept[m] = Absent)
           => mono > env[m].ts + MAX_CLOCK_SKEW_SECS
    BY <1>1, SweptIsStale DEF Unseen
  <2> QED
    BY <1>1, <1>5, <2>1, <2>2 DEF WindowOf
<1>6. ASSUME NEW n \in Nonces, RejectReplay(n) PROVE WindowOf(m)'
  BY <1>5, <1>6 DEF RejectReplay
<1>7. ASSUME NEW n \in Nonces, Accept(n) PROVE WindowOf(m)'
  <2>1. CASE m = n
    <3>1. accepted[m] = 0
      BY <1>1, <1>7, <2>1, AcceptIsFirst
    <3>2. accepted'[m] = 1
      BY <1>7, <2>1, <3>1 DEF Accept, TypeOK
    <3>3. seen'[m] = mono
      BY <1>7, <2>1 DEF Accept, Swept
    <3>4. now_unix - env[m].ts >= -MAX_CLOCK_SKEW_SECS
      BY <1>2, <1>7, <2>1 DEF Accept, verify, timestamp_is_fresh, now_unix
    <3>5. mono >= env[m].ts - MAX_CLOCK_SKEW_SECS - Drift
      BY <1>2, <3>4 DEF now_unix
    <3> QED
      BY <1>2, <1>7, <3>2, <3>3, <3>5 DEF Accept, WindowOf, Absent
  <2>2. CASE m # n
    <3>1. seen'[m] = Swept[m]
      BY <1>7, <2>2 DEF Accept, Swept
    <3>2. accepted'[m] = accepted[m] /\ mono' = mono /\ env' = env
      BY <1>7, <2>2 DEF Accept, TypeOK
    <3>3. Swept[m] \in {seen[m], Absent}
      BY DEF Swept
    <3>4. (accepted[m] = 1 /\ Swept[m] = Absent)
             => mono > env[m].ts + MAX_CLOCK_SKEW_SECS
      BY <1>1, SweptIsStale DEF Unseen
    <3> QED
      BY <1>1, <3>1, <3>2, <3>3, <3>4 DEF WindowOf
  <2> QED
    BY <2>1, <2>2
<1>8. CASE EndSession
  BY <1>1, <1>8 DEF EndSession, WindowOf
<1>9. CASE NewSession
  BY <1>9 DEF NewSession, WindowOf
<1>10. CASE Tick
  BY <1>1, <1>2, <1>10 DEF Tick, WindowOf, Absent
<1>11. CASE AdjustWallClock
  BY <1>1, <1>11 DEF AdjustWallClock, WindowOf
<1>12. CASE UNCHANGED vars
  BY <1>1, <1>12 DEF vars, WindowOf
<1> QED
  BY <1>3, <1>4, <1>6, <1>7, <1>8, <1>9, <1>10, <1>11, <1>12
     DEF Next, handle_incoming

\* The window holds in every state, of every session.
LEMMA WindowHolds == Spec => []Window
<1>1. Init => Window
  <2> SUFFICES ASSUME Init, NEW n \in Nonces PROVE WindowOf(n)
    BY DEF Window
  <2>1. accepted[n] = 0 /\ seen[n] = Absent
    BY DEF Init
  <2> QED
    BY <2>1 DEF WindowOf
<1>2. TypeOK /\ TypeOK' /\ Window /\ [Next]_vars => Window'
  BY WindowStep
<1> QED
  BY <1>1, <1>2, TypeCorrect, PTL DEF Spec

\* handle_incoming lets an envelope pass at most once in a session, for every
\* time-to-live greater than twice the skew plus the drift.
THEOREM OncePerSession == Spec => []AcceptedOncePerSession
<1>1. Window => AcceptedOncePerSession
  <2> SUFFICES ASSUME Window, NEW n \in Nonces PROVE accepted[n] <= 1
    BY DEF AcceptedOncePerSession
  <2>1. accepted[n] \in {0, 1}
    BY DEF Window, WindowOf
  <2> QED
    BY <2>1
<1> QED
  BY <1>1, WindowHolds, PTL

\* And delivering an accepted envelope once more always ends the session.
THEOREM DuplicateIsFatal == Spec => DuplicateEndsSession
<1>1. TypeOK /\ Window /\ [Next]_vars
        => [\A n \in Nonces :
              (accepted[n] = 1 /\ handle_incoming(n)) => session' = "down"]_vars
  <2> SUFFICES ASSUME TypeOK, Window, NEW n \in Nonces,
                      accepted[n] = 1, handle_incoming(n), ~UNCHANGED vars
               PROVE  session' = "down"
    OBVIOUS
  <2>1. ~Accept(n)
    BY AcceptIsFirst DEF Window
  <2>2. ~DropMalformed(n)
    BY DEF DropMalformed
  <2> QED
    BY <2>1, <2>2 DEF handle_incoming, RejectUnverified, RejectReplay
<1> QED
  BY <1>1, TypeCorrect, WindowHolds, PTL DEF Spec, DuplicateEndsSession

\* A connection that has not accepted an envelope has not executed it either:
\* what was executed belongs to the connections before it.
ExecutionsOf(n) ==
    /\ executed[n] <= sessions
    /\ session = "up" => sessions >= 1
    /\ (session = "up" /\ accepted[n] = 0) => executed[n] <= sessions - 1

Executions == \A n \in Nonces : ExecutionsOf(n)

\* Each step keeps the executions within the connections made so far.
LEMMA ExecutionsStep ==
    ASSUME TypeOK, Window, Executions, [Next]_vars
    PROVE  Executions'
<1> SUFFICES ASSUME NEW m \in Nonces PROVE ExecutionsOf(m)'
  BY DEF Executions
<1>1. ExecutionsOf(m) BY DEF Executions
<1>2. sessions \in Nat /\ executed[m] \in Nat /\ accepted[m] \in Nat
  BY ClockAssumption DEF TypeOK
<1>3. ASSUME NEW n \in Nonces, Accept(n) PROVE ExecutionsOf(m)'
  <2>1. CASE m = n
    <3>1. accepted[m] = 0 BY <1>3, <2>1, AcceptIsFirst DEF Window
    <3>2. executed[m] <= sessions - 1 BY <1>1, <1>3, <3>1 DEF Accept, ExecutionsOf
    <3>3. executed'[m] \in {executed[m], executed[m] + 1} /\ accepted'[m] = 1
      BY <1>3, <2>1, <3>1 DEF Accept, TypeOK
    <3> QED BY <1>1, <1>2, <1>3, <3>2, <3>3 DEF Accept, ExecutionsOf
  <2>2. CASE m # n
    <3>1. executed'[m] = executed[m] /\ accepted'[m] = accepted[m]
      BY <1>3, <2>2 DEF Accept, TypeOK
    <3> QED BY <1>1, <1>3, <3>1 DEF Accept, ExecutionsOf
  <2> QED BY <2>1, <2>2
<1>4. ASSUME NEW n \in Nonces, DropMalformed(n) \/ RejectUnverified(n) \/ RejectReplay(n)
      PROVE  ExecutionsOf(m)'
  BY <1>1, <1>4 DEF DropMalformed, RejectUnverified, RejectReplay, vars, ExecutionsOf
<1>5. CASE NewSession
  BY <1>1, <1>2, <1>5 DEF NewSession, ExecutionsOf
<1>6. CASE EndSession \/ Tick \/ AdjustWallClock \/ UNCHANGED vars
  BY <1>1, <1>6 DEF EndSession, Tick, AdjustWallClock, vars, ExecutionsOf
<1> QED
  BY <1>3, <1>4, <1>5, <1>6 DEF Next, handle_incoming

\* However often envelopes are delivered again and connections made anew, a
\* process runs a command no more often than it has connected.
THEOREM OncePerConnection == Spec => []ExecutedOncePerConnection
<1>1. Init => Executions
  <2> SUFFICES ASSUME Init, NEW n \in Nonces PROVE ExecutionsOf(n)
    BY DEF Executions
  <2>1. executed[n] = 0 /\ sessions = 0 /\ session = "down"
    BY DEF Init
  <2> QED
    BY <2>1 DEF ExecutionsOf
<1>2. TypeOK /\ Window /\ Executions /\ [Next]_vars => Executions'
  BY ExecutionsStep
<1>3. Executions => ExecutedOncePerConnection
  BY DEF Executions, ExecutionsOf, ExecutedOncePerConnection
<1> QED
  BY <1>1, <1>2, <1>3, TypeCorrect, WindowHolds, PTL DEF Spec
=============================================================================
