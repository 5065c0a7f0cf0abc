------------------------------- MODULE Inbound -------------------------------
(***************************************************************************)
(* What a Session does with the text frames it receives:                   *)
(* Session::handle_incoming, Envelope::verify and                          *)
(* NonceCache::check_and_record.                                           *)
(*                                                                         *)
(* An envelope is named by its nonce (128 random bits, one per envelope).  *)
(* The transport may hand the session any envelope, at any time, any       *)
(* number of times and in any order.  The freshness check reads the wall   *)
(* clock (SystemTime), the nonce cache reads the monotonic clock           *)
(* (Instant); the wall clock may be adjusted, but it stays within Drift    *)
(* seconds of the monotonic one.  Rounding to whole seconds is part of     *)
(* that Drift.                                                             *)
(***************************************************************************)
EXTENDS Integers

CONSTANTS
    Nonces,               \* the envelopes, each named by its nonce
    Timestamps,           \* the timestamps an envelope may carry, such that
                          \* now_unix - timestamp does not leave i64
    MAX_CLOCK_SKEW_SECS,  \* protocol::MAX_CLOCK_SKEW_SECS
    NONCE_CACHE_TTL,      \* session.rs, NONCE_CACHE_TTL
    Drift,                \* how far the wall clock strays from the monotonic
    MaxTime,              \* bound: last tick of the monotonic clock
    MaxSessions           \* bound: sessions of one daemon process

ASSUME ClockAssumption ==
    /\ MAX_CLOCK_SKEW_SECS \in Nat
    /\ Drift \in Nat
    /\ MaxTime \in Nat
    /\ MaxSessions \in Nat
    /\ Timestamps \subseteq Int

\* The nonce outlives the window in which its envelope is fresh.  In the code
\* 120 > 2 * 30 + Drift, so it holds for every Drift below 60 seconds.
ASSUME TtlAssumption ==
    /\ NONCE_CACHE_TTL \in Nat
    /\ NONCE_CACHE_TTL > 2 * MAX_CLOCK_SKEW_SECS + Drift

VARIABLES
    env,        \* the envelopes themselves; never changes
    mono,       \* the monotonic clock, in seconds
    offset,     \* wall clock minus monotonic clock
    session,    \* "up" while Session::run is in its loop, else "down"
    seen,       \* NonceCache.seen of the session: nonce -> time, or Absent
    accepted,   \* how often each nonce passed both checks in this session
    executed,   \* how often each envelope was dispatched in this process
    sessions    \* how many sessions this process has opened

vars == <<env, mono, offset, session, seen, accepted, executed, sessions>>

\* What handle_incoming can find in a text frame.
Class == {"malformed",      \* not the JSON of an envelope
          "forged",         \* the signature does not verify
          "other",          \* genuine, but not of type "command"
          "undecodable",    \* genuine command, payload does not parse
          "command"}        \* genuine command

Envelope == [ts : Timestamps, class : Class]

Absent == -1

TypeOK ==
    /\ env \in [Nonces -> Envelope]
    /\ mono \in 0..MaxTime
    /\ offset \in 0..Drift
    /\ session \in {"up", "down"}
    /\ seen \in [Nonces -> Nat \cup {Absent}]
    /\ accepted \in [Nonces -> Nat]
    /\ executed \in [Nonces -> Nat]
    /\ sessions \in 0..MaxSessions

Init ==
    /\ env \in [Nonces -> Envelope]
    /\ mono = 0
    /\ offset \in 0..Drift
    /\ session = "down"
    /\ seen = [n \in Nonces |-> Absent]
    /\ accepted = [n \in Nonces |-> 0]
    /\ executed = [n \in Nonces |-> 0]
    /\ sessions = 0

-----------------------------------------------------------------------------
\* protocol::Envelope

now_unix == mono + offset

timestamp_is_fresh(n) ==
    now_unix - env[n].ts \in -MAX_CLOCK_SKEW_SECS..MAX_CLOCK_SKEW_SECS

verify(n) ==
    /\ timestamp_is_fresh(n)
    /\ env[n].class # "forged"

-----------------------------------------------------------------------------
\* NonceCache

\* Mutant: entries are only kept as long as the skew, not the time-to-live.
RetainedForSkew(at) == mono - at < MAX_CLOCK_SKEW_SECS

\* seen.retain(|_, seen_at| now.duration_since(*seen_at) < self.ttl)
Retained(at) == mono - at < NONCE_CACHE_TTL

Swept ==
    [n \in Nonces |-> IF seen[n] # Absent /\ Retained(seen[n])
                      THEN seen[n] ELSE Absent]

\* check_and_record returns true: not among the entries the sweep kept.
Unseen(n) == Swept[n] = Absent

-----------------------------------------------------------------------------
\* Session::handle_incoming, one action for each way it can end.

DropMalformed(n) ==
    /\ session = "up"
    /\ env[n].class = "malformed"
    /\ UNCHANGED vars

RejectUnverified(n) ==
    /\ session = "up"
    /\ env[n].class # "malformed"
    /\ ~verify(n)
    /\ session' = "down"
    /\ UNCHANGED <<env, mono, offset, seen, accepted, executed, sessions>>

\* Mutant: a replayed envelope is skipped and the session goes on.
SkipReplay(n) ==
    /\ session = "up"
    /\ env[n].class # "malformed"
    /\ verify(n)
    /\ ~Unseen(n)
    /\ seen' = Swept
    /\ UNCHANGED <<env, mono, offset, session, accepted, executed, sessions>>

RejectReplay(n) ==
    /\ session = "up"
    /\ env[n].class # "malformed"
    /\ verify(n)
    /\ ~Unseen(n)
    /\ seen' = Swept
    /\ session' = "down"
    /\ UNCHANGED <<env, mono, offset, accepted, executed, sessions>>

\* Both checks pass and the nonce is recorded.  Only a decodable command is
\* handed to a dispatcher task; anything else is ignored.
Accept(n) ==
    /\ session = "up"
    /\ env[n].class # "malformed"
    /\ verify(n)
    /\ Unseen(n)
    /\ seen' = [Swept EXCEPT ![n] = mono]
    /\ accepted' = [accepted EXCEPT ![n] = @ + 1]
    /\ executed' = IF env[n].class = "command"
                   THEN [executed EXCEPT ![n] = @ + 1] ELSE executed
    /\ UNCHANGED <<env, mono, offset, session, sessions>>

handle_incoming(n) ==
    \/ DropMalformed(n)
    \/ RejectUnverified(n)
    \/ RejectReplay(n)
    \/ Accept(n)

-----------------------------------------------------------------------------
\* The life of the session around it.

\* The peer closes, the transport fails or the token is cancelled.
EndSession ==
    /\ session = "up"
    /\ session' = "down"
    /\ UNCHANGED <<env, mono, offset, seen, accepted, executed, sessions>>

\* client::run dials again; Session::new makes an empty NonceCache.
NewSession ==
    /\ session = "down"
    /\ sessions < MaxSessions
    /\ session' = "up"
    /\ sessions' = sessions + 1
    /\ seen' = [n \in Nonces |-> Absent]
    /\ accepted' = [n \in Nonces |-> 0]
    /\ UNCHANGED <<env, mono, offset, executed>>

Tick ==
    /\ mono < MaxTime
    /\ mono' = mono + 1
    /\ UNCHANGED <<env, offset, session, seen, accepted, executed, sessions>>

\* Time synchronisation moves the wall clock, forwards or backwards.
AdjustWallClock ==
    /\ offset' \in 0..Drift
    /\ UNCHANGED <<env, mono, session, seen, accepted, executed, sessions>>

Next ==
    \/ \E n \in Nonces : handle_incoming(n)
    \/ EndSession
    \/ NewSession
    \/ Tick
    \/ AdjustWallClock

Spec == Init /\ [][Next]_vars

-----------------------------------------------------------------------------
\* Properties

\* No envelope passes verification and the nonce check twice in one session,
\* however long the session lasts, however often the envelope is delivered and
\* however the wall clock is adjusted within Drift.  This is what the comment
\* on NONCE_CACHE_TTL promises: the cache entry never expires while the
\* envelope is still fresh.
AcceptedOncePerSession ==
    \A n \in Nonces : accepted[n] <= 1

\* The second delivery of an envelope that was accepted always ends the
\* session: as a replay while its nonce is cached, as stale afterwards.  There
\* is no moment between the two at which handle_incoming lets it pass.
DuplicateEndsSession ==
    [][\A n \in Nonces :
         (accepted[n] = 1 /\ handle_incoming(n)) => session' = "down"]_vars

\* A command runs at most once for each connection the process has made, since
\* each has a cache of its own: with k connections, the last of k deliveries of
\* a fresh envelope may still be executed, one more never is.
ExecutedOncePerConnection ==
    \A n \in Nonces : executed[n] <= sessions
=============================================================================
